---------------------------- MODULE StpPsmProofs ----------------------------
(***************************************************************************)
(* Theorems about the STP power-save manager, for every value of the       *)
(* constants: type correctness, that data stays blocked outside ACT even   *)
(* through a reset that takes no lock, that HOST_AWAKE is only started     *)
(* with a chip that asked for it, that the clean-up of redundant ops ends, *)
(* that data keeps its order and that none reaches a sleeping chip.        *)
(***************************************************************************)
EXTENDS StpPsm, SequenceTheorems, TLAPS

\* The end of a sequence over S, what its queue keeps, is one over S.
LEMMA SuffixType ==
  ASSUME NEW S, NEW s \in Seq(S), NEW m \in Nat \ {0}
  PROVE  SubSeq(s, m, Len(s)) \in Seq(S)
<1>1. Len(s) \in Nat /\ \A i \in m..Len(s) : s[i] \in S
  BY LenProperties, ElementOfSeq
<1> QED BY <1>1, SubSeqProperties

\* The beginning of a sequence over S, what a release sends, is one over S.
LEMMA PrefixType ==
  ASSUME NEW S, NEW s \in Seq(S), NEW n \in Nat, n <= Len(s)
  PROVE  SubSeq(s, 1, n) \in Seq(S)
<1>1. Len(s) \in Nat /\ \A i \in 1..n : s[i] \in S
  BY LenProperties, ElementOfSeq
<1> QED BY <1>1, SubSeqProperties

\* Cleaning up an op queue leaves an op queue.
LEMMA CleanUpType ==
  ASSUME NEW s \in Seq(OpIds)
  PROVE  CleanUp(s) \in Seq(OpIds)
<1> DEFINE n == Len(s)
           keep == CASE n <= 2 -> n
                     [] n > 2 /\ SameKind(s[n], s[n - 1]) -> 2
                     [] OTHER -> IF n % 2 = 0 THEN 2 ELSE 1
<1>1. n \in Nat
  BY LenProperties
<1>2. keep \in Nat /\ keep <= n
  BY <1>1
<1>3. n - keep + 1 \in Nat \ {0}
  BY <1>1, <1>2
<1> HIDE DEF keep
<1>4. SubSeq(s, n - keep + 1, n) \in Seq(OpIds)
  BY <1>3, SuffixType
<1> QED BY <1>4 DEF CleanUp, keep

\* _stp_psm_put_act_op() leaves a queue of ops.
LEMMA PutActType ==
  ASSUME TypeOK, NEW op \in OpIds, PutAct(op)
  PROVE  q' \in Seq(OpIds) /\ spin' \in {"free", "stuck"}
<1>1. q \in Seq(OpIds) /\ spin \in {"free", "stuck"}
  BY DEF TypeOK, PsmType
<1>2. Append(q, op) \in Seq(OpIds)
  BY <1>1
<1>3. CleanUp(Append(q, op)) \in Seq(OpIds)
  BY <1>2, CleanUpType
<1> QED BY <1>1, <1>2, <1>3 DEF PutAct

\* What is taken out of the FIFO, and what stays, are packets.
LEMMA ReleasedType ==
  ASSUME TypeOK
  PROVE  /\ Released \in Nat
         /\ SubSeq(fifo, Released + 1, Len(fifo)) \in Seq(1..MaxPkt)
         /\ \A n \in 0..Released : SubSeq(fifo, 1, n) \in Seq(1..MaxPkt)
<1>1. fifo \in Seq(1..MaxPkt) /\ Len(fifo) \in Nat
  BY LenProperties DEF TypeOK, PsmType
<1>2. Released \in Nat /\ Released <= Len(fifo)
  BY <1>1, StpPsmAssumption DEF Released
<1>3. SubSeq(fifo, Released + 1, Len(fifo)) \in Seq(1..MaxPkt)
  <2>1. Released + 1 \in Nat \ {0}
    BY <1>2
  <2> QED BY <1>1, <2>1, SuffixType
<1>4. ASSUME NEW n \in 0..Released PROVE SubSeq(fifo, 1, n) \in Seq(1..MaxPkt)
  <2>1. n \in Nat /\ n <= Len(fifo)
    BY <1>1, <1>2
  <2> QED BY <1>1, <2>1, PrefixType
<1> QED BY <1>2, <1>3, <1>4

\* _stp_psm_release_data() keeps packets packets.
LEMMA ReleaseType ==
  ASSUME TypeOK, Release
  PROVE  fifo' \in Seq(1..MaxPkt) /\ wire' \in Seq(1..MaxPkt)
<1>1. Released \in Nat
  BY ReleasedType
<1>2. PICK n \in 0..Released : wire' = wire \o SubSeq(fifo, 1, n)
  <2>1. 0 \in 0..Released /\ Released \in 0..Released
    BY <1>1
  <2> QED BY <2>1 DEF Release
<1>3. wire' \in Seq(1..MaxPkt)
  <2>1. wire \in Seq(1..MaxPkt) /\ SubSeq(fifo, 1, n) \in Seq(1..MaxPkt)
    BY ReleasedType DEF TypeOK, TxType
  <2> QED BY <1>2, <2>1, ConcatProperties
<1> QED BY <1>3, ReleasedType DEF Release

\* mtk_wcn_stp_send_data() sends and holds packets.
LEMMA SendType ==
  ASSUME TypeOK, SendDirect \/ SendHeld
  PROVE  fifo' \in Seq(1..MaxPkt) /\ TxType'
<1>1. /\ next \in 1..MaxPkt /\ next + 1 \in 1..MaxPkt + 1
      /\ fifo \in Seq(1..MaxPkt) /\ wire \in Seq(1..MaxPkt)
  BY StpPsmAssumption DEF TypeOK, PsmType, TxType, SendDirect, SendHeld
<1>2. <<next>> \in Seq(1..MaxPkt) /\ Append(fifo, next) \in Seq(1..MaxPkt)
  BY <1>1
<1>3. CASE SendDirect
  <2>1. SubSeq(fifo, 1, Released) \in Seq(1..MaxPkt)
    BY ReleasedType
  <2>2. wire \o SubSeq(fifo, 1, Released) \o <<next>> \in Seq(1..MaxPkt)
    BY <1>1, <1>2, <2>1, ConcatProperties
  <2> QED BY <1>1, <1>3, <2>2, ReleasedType DEF SendDirect, TxType
<1>4. CASE SendHeld
  BY <1>1, <1>2, <1>4 DEF SendHeld, TxType
<1> QED BY <1>3, <1>4

\* _stp_psm_notify_stp() sets and clears known flags.
LEMMA NotifyStpType ==
  ASSUME NEW f, f \subseteq Flags, NEW a
  PROVE  NotifyStp(a, f) \subseteq Flags
BY DEF NotifyStp, Flags, Wake

\* An empty queue and an empty FIFO have their types.
LEMMA EmptyTypes == <<>> \in Seq(OpIds) /\ <<>> \in Seq(1..MaxPkt)
BY EmptySeq

-----------------------------------------------------------------------------
\* do_wakeup() polls while it has an attempt left.
TriesLeft == pcP \in {"disput", "dispoll", "enput", "enpoll"} => tries > 0

\* psmd holds an op from _stp_psm_get_op() until it is done with it.
CurSet == pcD # "idle" => cur \in OpIds

TypeInv == TypeOK /\ TriesLeft /\ CurSet

\* Every step of the system keeps the types.
LEMMA TypeStep == TypeInv /\ [Next]_vars => TypeOK'
<1> SUFFICES ASSUME TypeInv, [Next]_vars PROVE TypeOK'
  OBVIOUS
<1> USE DEF TypeInv
<1>1. CASE SendDirect
  <2>1. PsmType'
    BY <1>1, PutActType, SendType
    DEF SendDirect, TypeOK, PsmType, psmVars, OpIds, Wake, States, Flags,
        PutSleepUnlessDisabled, StartMonitor
  <2>2. TxType'
    BY <1>1, SendType
    DEF SendDirect, TypeOK, TxType, txVars
  <2> QED
    BY <1>1, <2>1, <2>2
    DEF SendDirect, TypeOK, PsmdType, WmtType, EnvType, JobType, psmdVars,
        wmtVars, envVars, jobVars
<1>2. CASE SendHeld
  <2>1. PsmType'
    BY <1>2, PutActType, SendType
    DEF SendHeld, TypeOK, PsmType, psmVars, OpIds, Wake, States, Flags
  <2>2. TxType'
    BY <1>2, SendType
    DEF SendHeld, TypeOK, TxType, txVars
  <2> QED
    BY <1>2, <2>1, <2>2
    DEF SendHeld, TypeOK, PsmdType, WmtType, EnvType, JobType, psmdVars,
        wmtVars, envVars, jobVars
<1>3. CASE Density
  <2>1. PsmType'
    BY <1>3
    DEF Density, TypeOK, PsmType, psmVars, OpIds, Wake, States, Flags,
        StartMonitor
  <2> QED
    BY <1>3, <2>1
    DEF Density, TypeOK, PsmdType, WmtType, EnvType, JobType, TxType,
        psmdVars, wmtVars, envVars, jobVars, txVars
<1>4. CASE IdleTimer
  <2>1. PsmType'
    BY <1>4, PutActType
    DEF IdleTimer, TypeOK, PsmType, psmVars, OpIds, Wake, States, Flags,
        PutSleepUnlessDisabled
  <2> QED
    BY <1>4, <2>1
    DEF IdleTimer, TypeOK, PsmdType, WmtType, EnvType, JobType, TxType,
        psmdVars, wmtVars, envVars, jobVars, txVars
<1>5. CASE PsmdGet
  <2>1. PsmType'
    BY <1>5, HeadTailProperties
    DEF PsmdGet, TypeOK, PsmType, psmVars, OpIds, Wake, States, Flags
  <2>2. PsmdType'
    BY <1>5, HeadTailProperties
    DEF PsmdGet, TypeOK, PsmdType, psmdVars, PsmType, OpIds, Wake
  <2> QED
    BY <1>5, <2>1, <2>2
    DEF PsmdGet, TypeOK, WmtType, EnvType, JobType, TxType, wmtVars,
        envVars, jobVars, txVars
<1>6. CASE PsmdSkip
  <2>1. PsmType'
    BY <1>6, ReleaseType
    DEF PsmdSkip, TypeOK, PsmType, psmVars, OpIds, Wake, States, Flags
  <2>2. PsmdType'
    BY <1>6
    DEF PsmdSkip, TypeOK, PsmdType, psmdVars, OpIds, Wake, PsmdDone
  <2>3. TxType'
    BY <1>6, ReleaseType
    DEF PsmdSkip, TypeOK, TxType, txVars
  <2> QED
    BY <1>6, <2>1, <2>2, <2>3
    DEF PsmdSkip, TypeOK, WmtType, EnvType, JobType, wmtVars, envVars,
        jobVars
<1>7. CASE PsmdMaySleep
  <2>1. PsmdType'
    BY <1>7
    DEF PsmdMaySleep, TypeOK, PsmdType, psmdVars, OpIds, Wake
  <2> QED
    BY <1>7, <2>1
    DEF PsmdMaySleep, TypeOK, PsmType, WmtType, EnvType, JobType, TxType,
        psmVars, wmtVars, envVars, jobVars, txVars
<1>8. CASE PsmdSleep
  <2>1. PsmType'
    BY <1>8, ReleaseType
    DEF PsmdSleep, TypeOK, PsmType, psmVars, OpIds, Wake, States, Flags,
        Block
  <2>2. PsmdType'
    BY <1>8
    DEF PsmdSleep, TypeOK, PsmdType, psmdVars, OpIds, Wake
  <2>3. TxType'
    BY <1>8, ReleaseType
    DEF PsmdSleep, TypeOK, TxType, txVars
  <2> QED
    BY <1>8, <2>1, <2>2, <2>3
    DEF PsmdSleep, TypeOK, WmtType, EnvType, JobType, wmtVars, envVars,
        jobVars
<1>9. CASE PsmdWakeUp
  <2>1. PsmType'
    BY <1>9
    DEF PsmdWakeUp, TypeOK, PsmType, psmVars, OpIds, Wake, States, Flags,
        Block
  <2>2. PsmdType'
    BY <1>9
    DEF PsmdWakeUp, TypeOK, PsmdType, psmdVars, OpIds, Wake
  <2> QED
    BY <1>9, <2>1, <2>2
    DEF PsmdWakeUp, TypeOK, WmtType, EnvType, JobType, TxType, wmtVars,
        envVars, jobVars, txVars
<1>10. CASE PsmdNotify
  <2>1. \A a \in {"SLEEP", "ROLL_BACK"} : NotifyStp(a, flag) \subseteq Flags
    BY NotifyStpType DEF TypeOK, PsmType
  <2>2. PsmType'
    BY <1>10, <2>1
    DEF PsmdNotify, TypeOK, PsmType, psmVars, OpIds, Wake, States, Flags
  <2>3. PsmdType'
    BY <1>10
    DEF PsmdNotify, TypeOK, PsmdType, psmdVars, OpIds, Wake
  <2>4. WmtType'
    <3>1. eint' \in BOOLEAN
      BY <1>10 DEF PsmdNotify, TypeOK, WmtType
    <3>2. wmtq' \in Seq(OpIds \cup {"CMD"})
      <4>1. cur \in OpIds /\ wmtq \in Seq(OpIds \cup {"CMD"})
        BY <1>10 DEF PsmdNotify, CurSet, TypeOK, WmtType
      <4> QED BY <1>10, <4>1 DEF PsmdNotify
    <3> QED BY <1>10, <3>1, <3>2 DEF PsmdNotify, TypeOK, WmtType
  <2> QED
    BY <1>10, <2>1, <2>2, <2>3, <2>4
    DEF PsmdNotify, TypeOK, EnvType, JobType, TxType, envVars, jobVars,
        txVars
<1>11. CASE PsmdSeesWakeup
  <2>1. PsmType'
    BY <1>11, ReleaseType
    DEF PsmdSeesWakeup, TypeOK, PsmType, psmVars, OpIds, Wake, States,
        Flags
  <2>2. PsmdType'
    BY <1>11
    DEF PsmdSeesWakeup, TypeOK, PsmdType, psmdVars, OpIds, Wake
  <2>3. TxType'
    BY <1>11, ReleaseType
    DEF PsmdSeesWakeup, TypeOK, TxType, txVars
  <2> QED
    BY <1>11, <2>1, <2>2, <2>3
    DEF PsmdSeesWakeup, TypeOK, WmtType, EnvType, JobType, wmtVars,
        envVars, jobVars
<1>12. CASE PsmdActive
  <2>1. PsmType'
    BY <1>12, PutActType
    DEF PsmdActive, TypeOK, PsmType, psmVars, OpIds, Wake, States, Flags,
        PutSleepUnlessDisabled, StartMonitor
  <2>2. PsmdType'
    BY <1>12
    DEF PsmdActive, TypeOK, PsmdType, psmdVars, OpIds, Wake, PsmdDone
  <2> QED
    BY <1>12, <2>1, <2>2
    DEF PsmdActive, TypeOK, WmtType, EnvType, JobType, TxType, wmtVars,
        envVars, jobVars, txVars
<1>13. CASE PsmdSeesSleep
  <2>1. PsmType'
    BY <1>13
    DEF PsmdSeesSleep, TypeOK, PsmType, psmVars, OpIds, Wake, States,
        Flags, Block
  <2>2. PsmdType'
    BY <1>13
    DEF PsmdSeesSleep, TypeOK, PsmdType, psmdVars, OpIds, Wake, PsmdDone
  <2> QED
    BY <1>13, <2>1, <2>2
    DEF PsmdSeesSleep, TypeOK, WmtType, EnvType, JobType, TxType, wmtVars,
        envVars, jobVars, txVars
<1>14. CASE PsmdSeesRollBack
  <2>1. PsmType'
    BY <1>14, ReleaseType
    DEF PsmdSeesRollBack, TypeOK, PsmType, psmVars, OpIds, Wake, States,
        Flags, Block
  <2>2. PsmdType'
    BY <1>14
    DEF PsmdSeesRollBack, TypeOK, PsmdType, psmdVars, OpIds, Wake,
        PsmdDone
  <2>3. TxType'
    BY <1>14, ReleaseType
    DEF PsmdSeesRollBack, TypeOK, TxType, txVars
  <2> QED
    BY <1>14, <2>1, <2>2, <2>3
    DEF PsmdSeesRollBack, TypeOK, WmtType, EnvType, JobType, wmtVars,
        envVars, jobVars
<1>15. CASE PsmdSeesReset
  <2>1. PsmdType'
    BY <1>15
    DEF PsmdSeesReset, TypeOK, PsmdType, psmdVars, OpIds, Wake, PsmdDone
  <2> QED
    BY <1>15, <2>1
    DEF PsmdSeesReset, TypeOK, PsmType, WmtType, EnvType, JobType, TxType,
        psmVars, wmtVars, envVars, jobVars, txVars
<1>16. CASE PsmdTimeout
  <2>1. PsmdType'
    BY <1>16
    DEF PsmdTimeout, TypeOK, PsmdType, psmdVars, OpIds, Wake, PsmdDone
  <2> QED
    BY <1>16, <2>1
    DEF PsmdTimeout, TypeOK, PsmType, WmtType, EnvType, JobType, TxType,
        psmVars, wmtVars, envVars, jobVars, txVars
<1>17. CASE WmtdDrop
  <2>1. WmtType'
    BY <1>17, HeadTailProperties
    DEF WmtdDrop, TypeOK, WmtType, wmtVars, OpIds, Wake
  <2> QED
    BY <1>17, <2>1
    DEF WmtdDrop, TypeOK, PsmType, PsmdType, EnvType, JobType, TxType,
        psmVars, psmdVars, envVars, jobVars, txVars
<1>18. CASE WmtdSend
  <2>1. WmtType'
    BY <1>18, HeadTailProperties
    DEF WmtdSend, TypeOK, WmtType, wmtVars, OpIds, Wake
  <2>2. EnvType'
    BY <1>18, StpPsmAssumption
    DEF WmtdSend, TypeOK, EnvType, envVars, Receives
  <2> QED
    BY <1>18, <2>1, <2>2
    DEF WmtdSend, TypeOK, PsmType, PsmdType, JobType, TxType, psmVars,
        psmdVars, jobVars, txVars
<1>19. CASE WmtdDone
  <2>1. PsmType'
    BY <1>19, NotifyStpType
    DEF WmtdDone, TypeOK, PsmType, psmVars, OpIds, Wake, States, Flags
  <2>2. WmtType'
    BY <1>19
    DEF WmtdDone, TypeOK, WmtType, wmtVars, OpIds, Wake
  <2>3. EnvType'
    BY <1>19, StpPsmAssumption
    DEF WmtdDone, TypeOK, EnvType, envVars
  <2> QED
    BY <1>19, <2>1, <2>2, <2>3
    DEF WmtdDone, TypeOK, PsmdType, JobType, TxType, psmdVars, jobVars,
        txVars
<1>20. CASE WmtdCmdDone
  <2>1. WmtType'
    BY <1>20
    DEF WmtdCmdDone, TypeOK, WmtType, wmtVars, OpIds, Wake
  <2> QED
    BY <1>20, <2>1
    DEF WmtdCmdDone, TypeOK, PsmType, PsmdType, EnvType, JobType, TxType,
        psmVars, psmdVars, envVars, jobVars, txVars
<1>21. CASE ChipRaise
  <2>1. EnvType'
    BY <1>21, StpPsmAssumption
    DEF ChipRaise, TypeOK, EnvType, envVars
  <2> QED
    BY <1>21, <2>1
    DEF ChipRaise, TypeOK, PsmType, PsmdType, WmtType, JobType, TxType,
        psmVars, psmdVars, wmtVars, jobVars, txVars
<1>22. CASE Isr
  <2>1. \A a \in {"SLEEP", "ROLL_BACK"} : NotifyStp(a, flag) \subseteq Flags
    BY NotifyStpType DEF TypeOK, PsmType
  <2>2. ASSUME PutAct("HOST_AWAKE")
        PROVE  q' \in Seq(OpIds) /\ spin' \in {"free", "stuck"}
    BY <2>2, PutActType DEF OpIds, Wake
  <2>3. PsmType'
    BY <1>22, <2>1, <2>2
    DEF Isr, TypeOK, PsmType, psmVars, OpIds, Wake, States, Flags
  <2>4. WmtType'
    BY <1>22
    DEF Isr, TypeOK, WmtType, wmtVars, OpIds, Wake
  <2> QED
    BY <1>22, <2>1, <2>2, <2>3, <2>4
    DEF Isr, TypeOK, PsmdType, EnvType, JobType, TxType, psmdVars, envVars,
        jobVars, txVars
<1>23. CASE ChipDies
  <2>1. EnvType'
    BY <1>23, StpPsmAssumption
    DEF ChipDies, TypeOK, EnvType, envVars
  <2> QED
    BY <1>23, <2>1
    DEF ChipDies, TypeOK, PsmType, PsmdType, WmtType, JobType, TxType,
        psmVars, psmdVars, wmtVars, jobVars, txVars
<1>24. CASE CoreDump
  <2>1. PsmType'
    BY <1>24
    DEF CoreDump, TypeOK, PsmType, psmVars, OpIds, Wake, States, Flags
  <2>2. EnvType'
    BY <1>24, StpPsmAssumption
    DEF CoreDump, TypeOK, EnvType, envVars
  <2> QED
    BY <1>24, <2>1, <2>2
    DEF CoreDump, TypeOK, PsmdType, WmtType, JobType, TxType, psmdVars,
        wmtVars, jobVars, txVars
<1>25. CASE BeginDisable
  <2>1. PsmType'
    BY <1>25, EmptyTypes
    DEF BeginDisable, TypeOK, PsmType, psmVars, OpIds, Wake, States, Flags,
        ForceAwake
  <2>2. JobType'
    BY <1>25, StpPsmAssumption
    DEF BeginDisable, TypeOK, JobType, jobVars, ForceAwake, AfterDisable
  <2> QED
    BY <1>25, <2>1, <2>2
    DEF BeginDisable, TypeOK, PsmdType, WmtType, EnvType, TxType, psmdVars,
        wmtVars, envVars, txVars
<1>26. CASE BeginEnable
  <2>1. PsmType'
    BY <1>26, EmptyTypes
    DEF BeginEnable, TypeOK, PsmType, psmVars, OpIds, Wake, States, Flags,
        ForceAwake
  <2>2. JobType'
    BY <1>26, StpPsmAssumption
    DEF BeginEnable, TypeOK, JobType, jobVars, ForceAwake
  <2> QED
    BY <1>26, <2>1, <2>2
    DEF BeginEnable, TypeOK, PsmdType, WmtType, EnvType, TxType, psmdVars,
        wmtVars, envVars, txVars
<1>27. CASE DoWakeupPut
  <2>1. PsmType'
    BY <1>27, PutActType
    DEF DoWakeupPut, TypeOK, PsmType, psmVars, OpIds, Wake, States, Flags
  <2>2. JobType'
    BY <1>27, StpPsmAssumption
    DEF DoWakeupPut, TypeOK, JobType, jobVars
  <2> QED
    BY <1>27, <2>1, <2>2
    DEF DoWakeupPut, TypeOK, PsmdType, WmtType, EnvType, TxType, psmdVars,
        wmtVars, envVars, txVars
<1>28. CASE DisableDone
  <2>1. JobType'
    BY <1>28, StpPsmAssumption
    DEF DisableDone, TypeOK, JobType, jobVars, AfterDisable
  <2> QED
    BY <1>28, <2>1
    DEF DisableDone, TypeOK, PsmType, PsmdType, WmtType, EnvType, TxType,
        psmVars, psmdVars, wmtVars, envVars, txVars
<1>29. CASE OpPut
  <2>1. WmtType'
    BY <1>29
    DEF OpPut, TypeOK, WmtType, wmtVars, OpIds, Wake
  <2>2. JobType'
    BY <1>29, StpPsmAssumption
    DEF OpPut, TypeOK, JobType, jobVars
  <2> QED
    BY <1>29, <2>1, <2>2
    DEF OpPut, TypeOK, PsmType, PsmdType, EnvType, TxType, psmVars,
        psmdVars, envVars, txVars
<1>30. CASE EnableSeesAct
  <2>1. JobType'
    BY <1>30, StpPsmAssumption
    DEF EnableSeesAct, TypeOK, JobType, jobVars
  <2> QED
    BY <1>30, <2>1
    DEF EnableSeesAct, TypeOK, PsmType, PsmdType, WmtType, EnvType, TxType,
        psmVars, psmdVars, wmtVars, envVars, txVars
<1>31. CASE EnableDone
  <2>1. PsmType'
    BY <1>31
    DEF EnableDone, TypeOK, PsmType, psmVars, OpIds, Wake, States, Flags
  <2>2. JobType'
    BY <1>31, StpPsmAssumption
    DEF EnableDone, TypeOK, JobType, jobVars
  <2> QED
    BY <1>31, <2>1, <2>2
    DEF EnableDone, TypeOK, PsmdType, WmtType, EnvType, TxType, psmdVars,
        wmtVars, envVars, txVars
<1>32. CASE PollExpires
  <2>1. JobType'
    BY <1>32, StpPsmAssumption
    DEF PollExpires, TypeOK, JobType, jobVars, Retry, TriesLeft
  <2> QED
    BY <1>32, <2>1
    DEF PollExpires, TypeOK, PsmType, PsmdType, WmtType, EnvType, TxType,
        psmVars, psmdVars, wmtVars, envVars, txVars
<1>33. CASE ChipReset
  <2>1. PsmType'
    BY <1>33, EmptyTypes
    DEF ChipReset, TypeOK, PsmType, psmVars, OpIds, Wake, States, Flags,
        ResetQueue
  <2>2. EnvType'
    BY <1>33, StpPsmAssumption
    DEF ChipReset, TypeOK, EnvType, envVars
  <2> QED
    BY <1>33, <2>1, <2>2
    DEF ChipReset, TypeOK, PsmdType, WmtType, JobType, TxType, psmdVars,
        wmtVars, jobVars, txVars
<1>34. CASE SwReset
  <2>1. PsmType'
    BY <1>34, EmptyTypes
    DEF SwReset, TypeOK, PsmType, psmVars, OpIds, Wake, States, Flags,
        ResetQueue
  <2>2. EnvType'
    BY <1>34, StpPsmAssumption
    DEF SwReset, TypeOK, EnvType, envVars
  <2> QED
    BY <1>34, <2>1, <2>2
    DEF SwReset, TypeOK, PsmdType, WmtType, JobType, TxType, psmdVars,
        wmtVars, jobVars, txVars
<1>35. CASE ResetState
  <2>1. PsmType'
    BY <1>35, EmptyTypes
    DEF ResetState, TypeOK, PsmType, psmVars, OpIds, Wake, States, Flags
  <2>2. EnvType'
    BY <1>35, StpPsmAssumption
    DEF ResetState, TypeOK, EnvType, envVars
  <2> QED
    BY <1>35, <2>1, <2>2
    DEF ResetState, TypeOK, PsmdType, WmtType, JobType, TxType, psmdVars,
        wmtVars, jobVars, txVars
<1>36. CASE BackUp
  <2>1. EnvType'
    BY <1>36, StpPsmAssumption
    DEF BackUp, TypeOK, EnvType, envVars
  <2> QED
    BY <1>36, <2>1
    DEF BackUp, TypeOK, PsmType, PsmdType, WmtType, JobType, TxType,
        psmVars, psmdVars, wmtVars, jobVars, txVars
<1>90. CASE UNCHANGED vars
  BY <1>90
  DEF vars, psmVars, psmdVars, wmtVars, envVars, jobVars, txVars,
      TypeOK, PsmType, PsmdType, WmtType, EnvType, JobType, TxType
<1> QED
  BY <1>1, <1>2, <1>3, <1>4, <1>5, <1>6, <1>7, <1>8, <1>9, <1>10, <1>11,
     <1>12, <1>13, <1>14, <1>15, <1>16, <1>17, <1>18, <1>19, <1>20, <1>21,
     <1>22, <1>23, <1>24, <1>25, <1>26, <1>27, <1>28, <1>29, <1>30, <1>31,
     <1>32, <1>33, <1>34, <1>35, <1>36, <1>90
  DEF Next, Psmd, Wmtd, Caller

\* Every step leaves psmd an op to work on.
LEMMA CurStep == TypeInv /\ [Next]_vars => CurSet'
<1> SUFFICES ASSUME TypeInv, [Next]_vars PROVE CurSet'
  OBVIOUS
<1> USE DEF TypeInv, CurSet
<1>1. CASE UNCHANGED psmdVars
  BY <1>1 DEF psmdVars
<1>2. CASE PsmdGet
  BY <1>2, HeadTailProperties DEF PsmdGet, TypeOK, PsmType
<1>3. CASE Psmd /\ ~PsmdGet
  BY <1>3
  DEF Psmd, PsmdDone, PsmdSkip, PsmdMaySleep, PsmdSleep, PsmdWakeUp, PsmdNotify,
      PsmdSeesWakeup, PsmdActive, PsmdSeesSleep, PsmdSeesRollBack,
      PsmdSeesReset, PsmdTimeout
<1>4. CASE vars' = vars
  BY <1>4 DEF vars, psmdVars
<1> QED
  BY <1>1, <1>2, <1>3, <1>4
  DEF Next, SendDirect, SendHeld, Density, IdleTimer, Wmtd, WmtdDrop, WmtdSend,
      WmtdDone, WmtdCmdDone, ChipRaise, Isr, ChipDies, CoreDump, BeginDisable,
      BeginEnable, Caller, DoWakeupPut, DisableDone, OpPut, EnableSeesAct,
      EnableDone, PollExpires, ChipReset, SwReset, ResetState, BackUp

\* Every step leaves the poller an attempt.
LEMMA TriesStep == TypeInv /\ [Next]_vars => TriesLeft'
<1> SUFFICES ASSUME TypeInv, [Next]_vars PROVE TriesLeft'
  OBVIOUS
<1> USE DEF TypeInv, TriesLeft
<1>1. CASE UNCHANGED jobVars
  BY <1>1 DEF jobVars
<1>2. CASE BeginDisable
  BY <1>2, StpPsmAssumption DEF BeginDisable, ForceAwake, AfterDisable
<1>3. CASE BeginEnable
  BY <1>3, StpPsmAssumption DEF BeginEnable, ForceAwake
<1>4. CASE DoWakeupPut \/ DisableDone \/ OpPut \/ EnableSeesAct \/ EnableDone
  BY <1>4
  DEF DoWakeupPut, DisableDone, OpPut, EnableSeesAct, EnableDone, AfterDisable
<1>5. CASE PollExpires
  BY <1>5 DEF PollExpires, Retry, TypeOK, JobType
<1>6. CASE vars' = vars
  BY <1>6 DEF vars, jobVars
<1> QED
  BY <1>1, <1>2, <1>3, <1>4, <1>5, <1>6
  DEF Next, Caller, SendDirect, SendHeld, Density, IdleTimer, Psmd, PsmdGet,
      PsmdSkip, PsmdMaySleep, PsmdSleep, PsmdWakeUp, PsmdNotify,
      PsmdSeesWakeup, PsmdActive, PsmdSeesSleep, PsmdSeesRollBack,
      PsmdSeesReset, PsmdTimeout, Wmtd, WmtdDrop, WmtdSend, WmtdDone,
      WmtdCmdDone, ChipRaise, Isr, ChipDies, CoreDump, ChipReset, SwReset,
      ResetState, BackUp

\* Every variable keeps its type, and do_wakeup() polls with an attempt left.
LEMMA TypeInvariant == Spec => []TypeInv
<1>1. Init => TypeInv
  <2> SUFFICES ASSUME Init PROVE TypeInv
    OBVIOUS
  <2>1. PsmType
    BY EmptyTypes DEF Init, PsmType, States, Flags, OpIds, Wake
  <2>2. PsmdType /\ JobType
    BY StpPsmAssumption DEF Init, PsmdType, JobType, OpIds
  <2>5. EnvType
    <3>1. 0 \in 0..MaxReset /\ 0 \in 0..MaxWake /\ 0 \in 0..MaxDeath
      BY StpPsmAssumption
    <3> QED BY <3>1, Zenon DEF Init, EnvType
  <2>3. WmtType
    BY EmptySeq DEF Init, WmtType
  <2>4. TxType
    BY EmptyTypes, StpPsmAssumption DEF Init, TxType
  <2> QED BY <2>1, <2>2, <2>3, <2>4, <2>5
    DEF Init, TypeInv, TypeOK, TriesLeft, CurSet
<1>2. TypeInv /\ [Next]_vars => TypeInv'
  BY TypeStep, TriesStep, CurStep DEF TypeInv
<1> QED BY <1>1, <1>2, PTL DEF Spec

\* Every variable of the PSM model keeps its type.
THEOREM TypeCorrect == Spec => []TypeOK
BY TypeInvariant, PTL DEF TypeInv

-----------------------------------------------------------------------------
(***************************************************************************)
(* Blocking.  Between the two halves of stp_psm_reset() the flags are      *)
(* cleared and the state is old; psmd clears the block before it sets ACT. *)
(* Everywhere else a state other than ACT blocks data, and STP is not up   *)
(* between the halves, nor stp_psm_lock free before ACT is set.            *)
(***************************************************************************)
BlockInv ==
  \/ link \in {"closing", "starting"}
  \/ pcD = "woken" \/ state = "ACT" \/ "BLOCK_DATA_EN" \in flag

\* The flags that answer psmd leave the block alone.
LEMMA NotifyStpKeepsBlock ==
  ASSUME NEW f, NEW a, "BLOCK_DATA_EN" \in f
  PROVE  "BLOCK_DATA_EN" \in NotifyStp(a, f)
BY DEF NotifyStp

\* No step of psmd leaves ACT without blocking data.
LEMMA BlockPsmdStep ==
  ASSUME TypeInv, BlockInv, Psmd
  PROVE  BlockInv'
<1> USE DEF BlockInv
<1>1. UNCHANGED link
  BY DEF Psmd, PsmdGet, PsmdSkip, PsmdMaySleep, PsmdSleep, PsmdWakeUp,
     PsmdNotify, PsmdSeesWakeup, PsmdActive, PsmdSeesSleep, PsmdSeesRollBack,
     PsmdSeesReset, PsmdTimeout, envVars
<1>2. CASE PsmdGet
  BY <1>1, <1>2 DEF PsmdGet
<1>3. CASE PsmdSkip \/ PsmdMaySleep \/ PsmdSeesReset \/ PsmdTimeout
  BY <1>1, <1>3
  DEF PsmdSkip, PsmdMaySleep, PsmdSeesReset, PsmdTimeout, psmVars
<1>4. CASE PsmdSleep \/ PsmdWakeUp \/ PsmdSeesSleep
  BY <1>4 DEF PsmdSleep, PsmdWakeUp, PsmdSeesSleep, Block
<1>5. CASE PsmdNotify
  BY <1>1, <1>5, NotifyStpKeepsBlock DEF PsmdNotify
<1>6. CASE PsmdSeesWakeup \/ PsmdActive
  BY <1>6 DEF PsmdSeesWakeup, PsmdActive
<1>7. CASE PsmdSeesRollBack
  BY <1>1, <1>7 DEF PsmdSeesRollBack, Block
<1> QED BY <1>2, <1>3, <1>4, <1>5, <1>6, <1>7 DEF Psmd

\* No step of anyone else does, a reset included.
LEMMA BlockStep == TypeInv /\ BlockInv /\ [Next]_vars => BlockInv'
<1> SUFFICES ASSUME TypeInv, BlockInv, [Next]_vars PROVE BlockInv'
  OBVIOUS
<1>1. CASE Psmd
  BY <1>1, BlockPsmdStep
<1>2. CASE SendDirect \/ SendHeld \/ Density \/ IdleTimer
  BY <1>2
  DEF BlockInv, SendDirect, SendHeld, Density, IdleTimer, psmdVars, envVars
<1>3. CASE WmtdDrop \/ WmtdSend \/ WmtdCmdDone
  BY <1>3
  DEF BlockInv, WmtdDrop, WmtdSend, WmtdCmdDone, psmVars, psmdVars, envVars
<1>4. CASE WmtdDone
  BY <1>4, NotifyStpKeepsBlock DEF BlockInv, WmtdDone, psmdVars
<1>5. CASE Isr
  BY <1>5, NotifyStpKeepsBlock DEF BlockInv, Isr, psmdVars, envVars
<1>6. CASE ChipRaise \/ ChipDies \/ CoreDump
  BY <1>6 DEF BlockInv, ChipRaise, ChipDies, CoreDump, psmVars, psmdVars
<1>7. CASE BeginDisable \/ BeginEnable
  BY <1>7
  DEF BlockInv, BeginDisable, BeginEnable, ForceAwake, psmVars, psmdVars, envVars
<1>8. CASE Caller \/ PollExpires
  BY <1>8
  DEF BlockInv, Caller, DoWakeupPut, DisableDone, OpPut, EnableSeesAct,
      EnableDone, PollExpires, psmVars, psmdVars, envVars
<1>9. CASE ChipReset \/ SwReset \/ ResetState
  BY <1>9 DEF BlockInv, ChipReset, SwReset, ResetState
<1>10. CASE BackUp
  BY <1>10 DEF BlockInv, BackUp, psmVars, psmdVars
<1>11. CASE UNCHANGED vars
  BY <1>11 DEF BlockInv, vars, psmVars, psmdVars, envVars
<1> QED
  BY <1>1, <1>2, <1>3, <1>4, <1>5, <1>6, <1>7, <1>8, <1>9, <1>10, <1>11
  DEF Next, Wmtd

\* While stp_psm_lock is free and STP is up, a state other than ACT blocks
\* data, for every bound and with any number of resets.
THEOREM DataBlocked == Spec => []BlockedUnlessActive
<1>1. Init => BlockInv
  BY DEF Init, BlockInv
<1>2. BlockInv => BlockedUnlessActive
  BY DEF BlockInv, BlockedUnlessActive, PsmLockFree
<1> QED BY <1>1, <1>2, TypeInvariant, BlockStep, PTL DEF Spec

-----------------------------------------------------------------------------
(***************************************************************************)
(* The wake exchange.  gPsChipWakeReq may be stale only while the sleep    *)
(* command that will clear it is on the wire.                              *)
(***************************************************************************)
WakeReqInv == wakeReq /\ chip = "asleep" => pcW = "SLEEP"

\* Every step keeps a wake request from outliving the chip's sleep.
LEMMA WakeReqStep == TypeInv /\ WakeReqInv /\ [Next]_vars => WakeReqInv'
<1> SUFFICES ASSUME TypeInv, WakeReqInv, [Next]_vars PROVE WakeReqInv'
  OBVIOUS
<1> USE DEF WakeReqInv
<1>1. CASE UNCHANGED <<wakeReq, chip, pcW>>
  BY <1>1
<1>2. CASE WmtdSend
  BY <1>2 DEF WmtdSend, Receives, TypeInv, TypeOK, EnvType
<1>3. CASE WmtdDone
  BY <1>3 DEF WmtdDone
<1>4. CASE WmtdCmdDone
  BY <1>4 DEF WmtdCmdDone, envVars
<1>5. CASE ChipRaise \/ ChipDies \/ SwReset
  BY <1>5 DEF ChipRaise, ChipDies, SwReset
<1>6. CASE Isr
  BY <1>6 DEF Isr, envVars
<1>7. CASE Psmd
  BY <1>1, <1>7
  DEF Psmd, PsmdGet, PsmdSkip, PsmdMaySleep, PsmdSleep, PsmdWakeUp, PsmdNotify,
      PsmdSeesWakeup, PsmdActive, PsmdSeesSleep, PsmdSeesRollBack,
      PsmdSeesReset, PsmdTimeout, wmtVars, envVars
<1>8. CASE SendDirect \/ SendHeld \/ Density \/ IdleTimer \/ CoreDump \/ WmtdDrop
  BY <1>1, <1>8
  DEF SendDirect, SendHeld, Density, IdleTimer, CoreDump, WmtdDrop, wmtVars, envVars
<1>9. CASE BeginDisable \/ BeginEnable \/ Caller \/ PollExpires
  BY <1>1, <1>9
  DEF BeginDisable, BeginEnable, Caller, DoWakeupPut, DisableDone, OpPut,
      EnableSeesAct, EnableDone, PollExpires, wmtVars, envVars
<1>10. CASE ChipReset \/ ResetState \/ BackUp \/ UNCHANGED vars
  BY <1>1, <1>10 DEF ChipReset, ResetState, BackUp, vars, wmtVars, envVars
<1> QED
  BY <1>2, <1>3, <1>4, <1>5, <1>6, <1>7, <1>8, <1>9, <1>10
  DEF Next, Wmtd

\* Only WmtdSend starts an exchange, and it asks what the chip asked for.
LEMMA ExchangeStep ==
  ASSUME TypeInv, WakeReqInv, [Next]_vars
  PROVE  pcW' = "HOST_AWAKE" /\ pcW # "HOST_AWAKE" => chip # "asleep"
<1>1. CASE pcW' = pcW
  BY <1>1
<1>2. CASE WmtdSend
  BY <1>2 DEF WmtdSend, ChipWakeReq, WakeReqInv, Wake
<1>3. CASE WmtdDone \/ WmtdCmdDone
  BY <1>3 DEF WmtdDone, WmtdCmdDone
<1>4. CASE Psmd
  BY <1>1, <1>4
  DEF Psmd, PsmdGet, PsmdSkip, PsmdMaySleep, PsmdSleep, PsmdWakeUp, PsmdNotify,
      PsmdSeesWakeup, PsmdActive, PsmdSeesSleep, PsmdSeesRollBack,
      PsmdSeesReset, PsmdTimeout, wmtVars
<1>5. CASE SendDirect \/ SendHeld \/ Density \/ IdleTimer \/ WmtdDrop
  BY <1>1, <1>5 DEF SendDirect, SendHeld, Density, IdleTimer, WmtdDrop, wmtVars
<1>6. CASE ChipRaise \/ ChipDies \/ CoreDump \/ Isr
  BY <1>1, <1>6 DEF ChipRaise, ChipDies, CoreDump, Isr, wmtVars
<1>7. CASE BeginDisable \/ BeginEnable \/ Caller \/ PollExpires
  BY <1>1, <1>7
  DEF BeginDisable, BeginEnable, Caller, DoWakeupPut, DisableDone, OpPut,
      EnableSeesAct, EnableDone, PollExpires, wmtVars
<1>8. CASE ChipReset \/ SwReset \/ ResetState \/ BackUp \/ UNCHANGED vars
  BY <1>1, <1>8 DEF ChipReset, SwReset, ResetState, BackUp, vars, wmtVars
<1> QED
  BY <1>2, <1>3, <1>4, <1>5, <1>6, <1>7, <1>8 DEF Next, Wmtd

\* HOST_AWAKE is only ever started with a chip that does not sleep, whatever
\* op was queued and however often the chip raised its line.
THEOREM HostAwakeAsked == Spec => HostAwakeOnlyWhenAsked
<1>1. Init => WakeReqInv
  BY DEF Init, WakeReqInv
<1>2. TypeInv /\ WakeReqInv /\ [Next]_vars
      => [pcW' = "HOST_AWAKE" /\ pcW # "HOST_AWAKE" => chip # "asleep"]_vars
  BY ExchangeStep
<1> QED
  BY <1>1, <1>2, TypeInvariant, WakeReqStep, PTL DEF Spec, HostAwakeOnlyWhenAsked

-----------------------------------------------------------------------------
(***************************************************************************)
(* The clean-up loop.  It is given a queue it does not terminate on only   *)
(* when three ops were put with the redundancy test off, and a reset turns *)
(* it off: last_active_opId is INVALID from stp_psm_reset() to the first   *)
(* op psmd takes.  Outside that time the ops of the queue alternate.       *)
(***************************************************************************)
Alternates(s) == \A i \in 1..Len(s) - 1 : ~SameKind(s[i], s[i + 1])

QueueInv ==
  /\ spin = "free" => Len(q) <= 2
  /\ spin = "free" /\ last # "INVALID" => Alternates(q)

\* Nothing of this happens before the first reset.
BeforeReset ==
  nReset = 0 => link = "up" /\ last # "INVALID" /\ spin = "free"

\* The clean-up loop leaves at most two ops.
LEMMA CleanUpShort ==
  ASSUME NEW s \in Seq(OpIds)
  PROVE  Len(CleanUp(s)) <= 2
<1> DEFINE n == Len(s)
           keep == CASE n <= 2 -> n
                     [] n > 2 /\ SameKind(s[n], s[n - 1]) -> 2
                     [] OTHER -> IF n % 2 = 0 THEN 2 ELSE 1
<1>1. n \in Nat /\ \A i \in 1..n : s[i] \in OpIds
  BY LenProperties, ElementOfSeq
<1>2. keep \in Nat /\ keep <= n /\ keep <= 2
  BY <1>1
<1>3. n - keep + 1 \in 1..n + 1
  BY <1>1, <1>2
<1> HIDE DEF keep
<1>4. Len(SubSeq(s, n - keep + 1, n)) = keep
  BY <1>1, <1>2, <1>3, SubSeqProperties
<1> QED BY <1>2, <1>4 DEF CleanUp, keep

\* Of an op that is not redundant and a queue that alternates, the loop makes
\* a queue that alternates, and it ends.
LEMMA PutAlternates ==
  ASSUME NEW s \in Seq(OpIds), NEW op \in OpIds, Len(s) <= 2, Alternates(s),
         s # <<>> => ~SameKind(op, s[Len(s)])
  PROVE  Alternates(CleanUp(Append(s, op))) /\ ~CleanUpSpins(Append(s, op))
<1> DEFINE t == Append(s, op)
<1>1. Len(s) \in 0..2 /\ t \in Seq(OpIds) /\ Len(t) = Len(s) + 1
  <2>1. Len(s) \in Nat
    BY LenProperties
  <2>2. t \in Seq(OpIds) /\ Len(t) = Len(s) + 1
    BY AppendProperties
  <2>3. ASSUME NEW n \in Nat, n <= 2 PROVE n \in 0..2
    BY <2>3
  <2>4. Len(s) \in 0..2
    BY <2>1, <2>3, Zenon
  <2> QED BY <2>2, <2>4, Zenon
<1>2. t[Len(t)] = op /\ \A i \in 1..Len(s) : t[i] = s[i]
  BY <1>1, AppendProperties
<1>3. ASSUME Len(s) # 0 PROVE ~SameKind(t[Len(t)], t[Len(t) - 1])
  <2>1. s # <<>> /\ Len(s) \in 1..Len(s) /\ Len(t) - 1 = Len(s)
    BY <1>1, <1>3, EmptySeq
  <2> QED BY <1>2, <2>1
<1>4. ~CleanUpSpins(t)
  BY <1>1, <1>3 DEF CleanUpSpins
<1>5. CASE Len(s) = 2
  <2>1. Len(t) = 3
    BY <1>1, <1>5
  <2>2. CleanUp(t) = SubSeq(t, 3, 3)
    BY <1>3, <1>5, <2>1 DEF CleanUp
  <2>3. Len(CleanUp(t)) = 1
    BY <1>1, <2>1, <2>2, SubSeqProperties
  <2> QED BY <1>4, <2>3 DEF Alternates
<1>6. CASE Len(s) < 2
  <2>1. Len(t) \in 1..2
    BY <1>1, <1>6
  <2>2. CleanUp(t) = SubSeq(t, 1, Len(t))
    <3>1. Len(t) <= 2 /\ Len(t) - Len(t) + 1 = 1 /\ ~(Len(t) > 2)
      BY <2>1
    <3> QED BY <3>1, Zenon DEF CleanUp
  <2>3. CleanUp(t) = t
    BY <1>1, <2>2, SubSeqFull
  <2>4. ASSUME NEW i \in 1..Len(t) - 1 PROVE ~SameKind(t[i], t[i + 1])
    <3>1. i = 1 /\ Len(t) = 2 /\ Len(s) # 0
      BY <1>1, <2>1
    <3>2. ~SameKind(t[2], t[1])
      BY <1>3, <3>1
    <3> QED BY <3>1, <3>2 DEF SameKind
  <2> QED BY <1>4, <2>3, <2>4 DEF Alternates
<1> QED BY <1>1, <1>5, <1>6

\* _stp_psm_put_act_op() keeps the queue short, and with the redundancy test
\* on it returns.
LEMMA PutQueue ==
  ASSUME TypeOK, QueueInv, NEW op \in OpIds, PutAct(op), UNCHANGED last
  PROVE  QueueInv' /\ (last # "INVALID" => spin' = "free")
<1>1. spin = "free" /\ q \in Seq(OpIds) /\ Len(q) <= 2
  BY DEF PutAct, QueueInv, TypeOK, PsmType
<1>2. CASE IsRedundant(op)
  BY <1>1, <1>2 DEF PutAct, QueueInv
<1>3. CASE ~IsRedundant(op) /\ last = "INVALID"
  <2>1. Append(q, op) \in Seq(OpIds)
    BY <1>1
  <2>2. Len(CleanUp(Append(q, op))) <= 2
    BY <2>1, CleanUpShort
  <2> QED BY <1>1, <1>3, <2>2 DEF PutAct, QueueInv
<1>4. CASE ~IsRedundant(op) /\ last # "INVALID"
  <2>1. q # <<>> => ~SameKind(op, q[Len(q)])
    BY <1>4 DEF IsRedundant
  <2>2. Alternates(q)
    BY <1>1, <1>4 DEF QueueInv
  <2>3. Alternates(CleanUp(Append(q, op))) /\ ~CleanUpSpins(Append(q, op))
    BY <1>1, <2>1, <2>2, PutAlternates
  <2>4. Append(q, op) \in Seq(OpIds)
    BY <1>1
  <2>5. Len(CleanUp(Append(q, op))) <= 2
    BY <2>4, CleanUpShort
  <2> QED BY <1>1, <1>4, <2>3, <2>5 DEF PutAct, QueueInv
<1> QED BY <1>2, <1>3, <1>4

\* Two ops of a short queue less the one psmd takes alternate.
LEMMA TailAlternates ==
  ASSUME NEW s \in Seq(OpIds), s # <<>>, Len(s) <= 2
  PROVE  Len(Tail(s)) <= 2 /\ Alternates(Tail(s))
<1>1. Len(s) \in 1..2 /\ Len(Tail(s)) = Len(s) - 1
  <2>1. Len(s) \in Nat
    BY LenProperties
  <2>2. Len(s) # 0
    BY EmptySeq
  <2>3. Len(Tail(s)) = Len(s) - 1
    BY HeadTailProperties
  <2> QED BY <2>1, <2>2, <2>3
<1> QED BY <1>1 DEF Alternates

\* An empty queue alternates.
LEMMA EmptyAlternates == Alternates(<<>>) /\ Len(<<>>) = 0
BY DEF Alternates

\* No step makes the queue long, or has the clean-up loop spin while
\* last_active_opId is set.
LEMMA QueueStep ==
  ASSUME TypeInv, QueueInv, [Next]_vars
  PROVE  QueueInv' /\ (last # "INVALID" /\ spin = "free" => spin' = "free")
<1> DEFINE Kept == QueueInv' /\ (last # "INVALID" /\ spin = "free" => spin' = "free")
<1>1. ASSUME UNCHANGED <<last, q, spin>> PROVE Kept
  BY <1>1 DEF QueueInv
<1>2. ASSUME NEW op \in OpIds, PutAct(op), UNCHANGED last PROVE Kept
  BY <1>2, PutQueue DEF TypeInv
<1>3. ASSUME NEW f, PutSleepUnlessDisabled(f), UNCHANGED last PROVE Kept
  BY <1>1, <1>2, <1>3 DEF PutSleepUnlessDisabled, OpIds
<1>4. ASSUME q' = <<>>, UNCHANGED spin PROVE Kept
  BY <1>4, EmptyAlternates DEF QueueInv
<1>5. Wake \subseteq OpIds /\ "WAKEUP" \in Wake /\ "HOST_AWAKE" \in Wake
  BY DEF OpIds, Wake
<1>0. SUFFICES Kept
  BY DEF Kept
<1> HIDE DEF Kept
<1>6. CASE SendDirect
  BY <1>1, <1>3, <1>6 DEF SendDirect
<1>7. CASE SendHeld
  BY <1>2, <1>5, <1>7 DEF SendHeld
<1>8. CASE IdleTimer
  BY <1>3, <1>8 DEF IdleTimer
<1>9. CASE PsmdGet
  <2>1. q \in Seq(OpIds) /\ q # <<>> /\ Len(q) <= 2 /\ q' = Tail(q)
    BY <1>9 DEF PsmdGet, QueueInv, TypeInv, TypeOK, PsmType
  <2>2. UNCHANGED spin
    BY <1>9 DEF PsmdGet
  <2> QED BY <2>1, <2>2, TailAlternates DEF Kept, QueueInv
<1>10. CASE PsmdActive
  BY <1>1, <1>3, <1>10 DEF PsmdActive
<1>11. CASE PsmdSkip \/ PsmdMaySleep \/ PsmdSleep \/ PsmdWakeUp \/ PsmdNotify
  BY <1>1, <1>11
  DEF PsmdSkip, PsmdMaySleep, PsmdSleep, PsmdWakeUp, PsmdNotify, psmVars
<1>12. CASE PsmdSeesWakeup \/ PsmdSeesSleep \/ PsmdSeesRollBack
            \/ PsmdSeesReset \/ PsmdTimeout
  BY <1>1, <1>12
  DEF PsmdSeesWakeup, PsmdSeesSleep, PsmdSeesRollBack, PsmdSeesReset,
      PsmdTimeout, psmVars
<1>13. CASE Wmtd
  BY <1>1, <1>13
  DEF Wmtd, WmtdDrop, WmtdSend, WmtdDone, WmtdCmdDone, psmVars
<1>14. CASE Density \/ ChipRaise \/ ChipDies \/ CoreDump
  BY <1>1, <1>14 DEF Density, ChipRaise, ChipDies, CoreDump, psmVars
<1>15. CASE Isr
  BY <1>1, <1>2, <1>5, <1>15 DEF Isr
<1>16. CASE BeginDisable \/ BeginEnable
  BY <1>1, <1>4, <1>16 DEF BeginDisable, BeginEnable, ForceAwake, psmVars
<1>17. CASE DoWakeupPut
  BY <1>2, <1>5, <1>17 DEF DoWakeupPut
<1>18. CASE DisableDone \/ OpPut \/ EnableSeesAct \/ EnableDone \/ PollExpires
  BY <1>1, <1>18
  DEF DisableDone, OpPut, EnableSeesAct, EnableDone, PollExpires, psmVars
<1>19. CASE ChipReset \/ SwReset
  BY <1>4, <1>19 DEF ChipReset, SwReset, ResetQueue
<1>20. CASE ResetState \/ BackUp \/ UNCHANGED vars
  BY <1>1, <1>20 DEF ResetState, BackUp, vars, psmVars
<1> QED
  BY <1>6, <1>7, <1>8, <1>9, <1>10, <1>11, <1>12, <1>13, <1>14, <1>15, <1>16,
     <1>17, <1>18, <1>19, <1>20
  DEF Next, Psmd, Caller

\* Until the first reset no step takes STP down or clears last_active_opId.
LEMMA BeforeResetStep ==
  ASSUME TypeInv, QueueInv, BeforeReset, [Next]_vars
  PROVE  BeforeReset'
<1>1. SUFFICES ASSUME nReset' = 0 PROVE link' = "up" /\ last' # "INVALID" /\ spin' = "free"
  BY DEF BeforeReset
<1>2. ~ChipReset
  BY <1>1 DEF ChipReset, TypeInv, TypeOK, EnvType
<1>3. nReset = 0
  BY <1>1, <1>2
  DEF Next, SendDirect, SendHeld, Density, IdleTimer, Psmd, PsmdGet, PsmdSkip,
      PsmdMaySleep, PsmdSleep, PsmdWakeUp, PsmdNotify, PsmdSeesWakeup,
      PsmdActive, PsmdSeesSleep, PsmdSeesRollBack, PsmdSeesReset, PsmdTimeout,
      Wmtd, WmtdDrop, WmtdSend, WmtdDone, WmtdCmdDone, ChipRaise, Isr,
      ChipDies, CoreDump, BeginDisable, BeginEnable, Caller, DoWakeupPut,
      DisableDone, OpPut, EnableSeesAct, EnableDone, PollExpires, SwReset,
      ResetState, BackUp, vars, envVars
<1>4. link = "up" /\ last # "INVALID" /\ spin = "free"
  BY <1>3 DEF BeforeReset
<1>5. spin' = "free"
  BY <1>4, QueueStep
<1>6. ~SwReset /\ ~ResetState /\ ~BackUp
  BY <1>4 DEF SwReset, ResetState, BackUp
<1>7. link' = "up"
  BY <1>2, <1>4, <1>6
  DEF Next, SendDirect, SendHeld, Density, IdleTimer, Psmd, PsmdGet, PsmdSkip,
      PsmdMaySleep, PsmdSleep, PsmdWakeUp, PsmdNotify, PsmdSeesWakeup,
      PsmdActive, PsmdSeesSleep, PsmdSeesRollBack, PsmdSeesReset, PsmdTimeout,
      Wmtd, WmtdDrop, WmtdSend, WmtdDone, WmtdCmdDone, ChipRaise, Isr,
      ChipDies, CoreDump, BeginDisable, BeginEnable, Caller, DoWakeupPut,
      DisableDone, OpPut, EnableSeesAct, EnableDone, PollExpires, vars, envVars
<1>8. CASE PsmdGet
  <2>1. Head(q) \in OpIds
    BY <1>8, HeadTailProperties DEF PsmdGet, TypeInv, TypeOK, PsmType
  <2> QED BY <1>5, <1>7, <1>8, <2>1 DEF PsmdGet, OpIds, Wake
<1>9. CASE ~PsmdGet
  <2>1. UNCHANGED last
    BY <1>2, <1>6, <1>9
    DEF Next, SendDirect, SendHeld, Density, IdleTimer, Psmd, PsmdSkip,
        PsmdMaySleep, PsmdSleep, PsmdWakeUp, PsmdNotify, PsmdSeesWakeup,
        PsmdActive, PsmdSeesSleep, PsmdSeesRollBack, PsmdSeesReset,
        PsmdTimeout, Wmtd, WmtdDrop, WmtdSend, WmtdDone, WmtdCmdDone,
        ChipRaise, Isr, ChipDies, CoreDump, BeginDisable, BeginEnable,
        ForceAwake, Caller, DoWakeupPut, DisableDone, OpPut, EnableSeesAct,
        EnableDone, PollExpires, vars, psmVars
  <2> QED BY <1>4, <1>5, <1>7, <2>1
<1> QED BY <1>8, <1>9

\* The queue of the PSM is short, and alternates while the redundancy test is
\* on.
LEMMA QueueInvariant == Spec => [](QueueInv /\ BeforeReset)
<1>1. Init => QueueInv /\ BeforeReset
  BY EmptyAlternates DEF Init, QueueInv, BeforeReset
<1>2. TypeInv /\ QueueInv /\ BeforeReset /\ [Next]_vars
      => (QueueInv /\ BeforeReset)'
  BY QueueStep, BeforeResetStep
<1> QED BY <1>1, <1>2, TypeInvariant, PTL DEF Spec

\* _stp_psm_clean_up_redundant_active_op() ends as long as the chip was never
\* reset, whoever puts ops and however long psmd leaves them.
THEOREM CleanUpEnds == Spec => [](nReset = 0 => CleanUpTerminates)
<1>1. BeforeReset => (nReset = 0 => CleanUpTerminates)
  BY DEF BeforeReset, CleanUpTerminates
<1> QED BY <1>1, QueueInvariant, PTL

\* After a reset too it ends, except between the reset and the first op psmd
\* takes, while last_active_opId is INVALID.
THEOREM CleanUpEndsAgain ==
  Spec => [][last # "INVALID" /\ CleanUpTerminates => CleanUpTerminates']_vars
<1>1. TypeInv /\ QueueInv /\ [Next]_vars
      => [last # "INVALID" /\ CleanUpTerminates => CleanUpTerminates']_vars
  BY QueueStep DEF CleanUpTerminates, TypeInv, TypeOK, PsmType
<1> QED BY <1>1, TypeInvariant, QueueInvariant, PTL DEF Spec

-----------------------------------------------------------------------------
(***************************************************************************)
(* Order.  A packet sent directly goes out behind what one release takes   *)
(* out of the FIFO, so order needs that no more than that is held whenever *)
(* data is not blocked.  The FIFO may hold twice as much while it is, as   *)
(* the release that ends the blocking comes before the first direct send.  *)
(***************************************************************************)
HoldInv ==
  /\ Len(fifo) <= FifoMax
  /\ link \in {"down", "starting", "init"} => fifo = <<>>
  /\ "BLOCK_DATA_EN" \notin flag /\ link = "up" => Len(fifo) <= ReleaseMax

Increasing(s) == \A i, j \in DOMAIN s : i < j => s[i] < s[j]
Under(s, k) == \A i \in DOMAIN s : s[i] < k
Before(s, t) == \A i \in DOMAIN s, j \in DOMAIN t : s[i] < t[j]

\* What is sent is behind what is held, and both before what comes next.
Line(w, f, k) ==
  Increasing(w) /\ Increasing(f) /\ Before(w, f) /\ Under(w, k) /\ Under(f, k)

\* The packets of a FIFO from its r-th on, as those of the FIFO.
LEMMA RestOf ==
  ASSUME NEW f \in Seq(Nat), NEW r \in 0..Len(f)
  PROVE  /\ SubSeq(f, r + 1, Len(f)) \in Seq(Nat)
         /\ Len(SubSeq(f, r + 1, Len(f))) = Len(f) - r
         /\ \A i \in 1..Len(f) - r : SubSeq(f, r + 1, Len(f))[i] = f[r + i]
<1>1. Len(f) \in Nat /\ \A i \in 1..Len(f) : f[i] \in Nat
  BY LenProperties, ElementOfSeq
<1>2. SubSeq(f, r + 1, Len(f)) \in Seq(Nat)
  <2>1. r + 1 \in Nat \ {0}
    BY <1>1
  <2> QED BY <2>1, SuffixType
<1>3. Len(SubSeq(f, r + 1, Len(f))) = Len(f) - r
  <2>1. r + 1 \in 1..Len(f) + 1 /\ \A i \in r + 1..Len(f) : f[i] \in Nat
    BY <1>1
  <2> QED BY <1>1, <2>1, SubSeqProperties
<1>4. ASSUME NEW i \in 1..Len(f) - r PROVE SubSeq(f, r + 1, Len(f))[i] = f[r + i]
  BY <1>1
<1> QED BY <1>2, <1>3, <1>4

\* What was sent with the first n packets of a FIFO behind it.
LEMMA SentWith ==
  ASSUME NEW w \in Seq(Nat), NEW f \in Seq(Nat), NEW n \in 0..Len(f)
  PROVE  /\ w \o SubSeq(f, 1, n) \in Seq(Nat)
         /\ Len(w \o SubSeq(f, 1, n)) = Len(w) + n
         /\ \A i \in 1..Len(w) : (w \o SubSeq(f, 1, n))[i] = w[i]
         /\ \A i \in Len(w) + 1..Len(w) + n :
              (w \o SubSeq(f, 1, n))[i] = f[i - Len(w)]
<1>1. Len(w) \in Nat /\ Len(f) \in Nat /\ n \in Nat /\ n <= Len(f)
  BY LenProperties
<1>2. \A i \in 1..n : f[i] \in Nat
  BY <1>1, ElementOfSeq
<1>3. SubSeq(f, 1, n) \in Seq(Nat) /\ Len(SubSeq(f, 1, n)) = n
  BY <1>1, <1>2, SubSeqProperties
<1>4. \A i \in 1..n : SubSeq(f, 1, n)[i] = f[i]
  BY <1>1, <1>2, SubSeqProperties
<1> DEFINE g == SubSeq(f, 1, n)
<1> HIDE DEF g
<1>5. g \in Seq(Nat) /\ Len(g) = n /\ \A i \in 1..n : g[i] = f[i]
  BY <1>3, <1>4 DEF g
<1>6. w \o g \in Seq(Nat) /\ Len(w \o g) = Len(w) + n
  BY <1>5, ConcatProperties
<1>7. /\ \A i \in 1..Len(w) : (w \o g)[i] = w[i]
      /\ \A i \in Len(w) + 1..Len(w) + n : (w \o g)[i] = f[i - Len(w)]
  BY <1>1, <1>5, ConcatProperties
<1> QED BY <1>6, <1>7 DEF g

\* Taking r packets out of the FIFO and sending n of them keeps the line.
LEMMA ReleaseKeepsLine ==
  ASSUME NEW w \in Seq(Nat), NEW f \in Seq(Nat), NEW k \in Nat, Line(w, f, k),
         NEW r \in 0..Len(f), NEW n \in 0..r
  PROVE  Line(w \o SubSeq(f, 1, n), SubSeq(f, r + 1, Len(f)), k)
<1> DEFINE a == w \o SubSeq(f, 1, n)
           b == SubSeq(f, r + 1, Len(f))
<1>1. Len(w) \in Nat /\ Len(f) \in Nat /\ n \in 0..Len(f)
  BY LenProperties
<1>2. /\ a \in Seq(Nat) /\ Len(a) = Len(w) + n
      /\ \A i \in 1..Len(w) : a[i] = w[i]
      /\ \A i \in Len(w) + 1..Len(w) + n : a[i] = f[i - Len(w)]
  BY <1>1, SentWith
<1>3. /\ b \in Seq(Nat) /\ Len(b) = Len(f) - r
      /\ \A i \in 1..Len(f) - r : b[i] = f[r + i]
  BY RestOf
<1>4. DOMAIN w = 1..Len(w) /\ DOMAIN f = 1..Len(f)
  BY LenProperties
<1> HIDE DEF a, b
<1>5. DOMAIN a = 1..Len(w) + n /\ DOMAIN b = 1..Len(f) - r
  BY <1>2, <1>3, LenProperties
<1>6. /\ \A i, j \in 1..Len(w) : i < j => w[i] < w[j]
      /\ \A i, j \in 1..Len(f) : i < j => f[i] < f[j]
      /\ \A i \in 1..Len(w), j \in 1..Len(f) : w[i] < f[j]
      /\ \A i \in 1..Len(w) : w[i] < k
      /\ \A i \in 1..Len(f) : f[i] < k
  BY <1>4 DEF Line, Increasing, Before, Under
<1>7. ASSUME NEW i \in 1..Len(w) + n, i > Len(w)
      PROVE  i - Len(w) \in 1..Len(f) /\ i - Len(w) <= n /\ a[i] = f[i - Len(w)]
  <2>1. i \in Len(w) + 1..Len(w) + n
    BY <1>1, <1>7
  <2>2. i - Len(w) \in 1..Len(f) /\ i - Len(w) <= n
    BY <1>1, <1>7
  <2> QED BY <1>2, <2>1, <2>2
<1>8. ASSUME NEW i \in 1..Len(w) + n, i <= Len(w)
      PROVE  i \in 1..Len(w) /\ a[i] = w[i]
  BY <1>1, <1>2, <1>8
<1>9. ASSUME NEW j \in 1..Len(f) - r
      PROVE  r + j \in 1..Len(f) /\ b[j] = f[r + j]
  BY <1>1, <1>3
<1>10. Increasing(a)
  <2> SUFFICES ASSUME NEW i \in 1..Len(w) + n, NEW j \in 1..Len(w) + n, i < j
               PROVE  a[i] < a[j]
    BY <1>5 DEF Increasing
  <2>1. CASE j <= Len(w)
    <3>1. i <= Len(w)
      BY <1>1, <2>1
    <3> QED BY <1>6, <1>8, <2>1, <3>1
  <2>2. CASE j > Len(w) /\ i <= Len(w)
    BY <1>1, <1>6, <1>7, <1>8, <2>2
  <2>3. CASE i > Len(w)
    <3>1. j > Len(w) /\ i - Len(w) < j - Len(w)
      BY <1>1, <2>3
    <3> QED BY <1>6, <1>7, <2>3, <3>1
  <2> QED BY <1>1, <2>1, <2>2, <2>3
<1>11. Increasing(b)
  <2> SUFFICES ASSUME NEW i \in 1..Len(f) - r, NEW j \in 1..Len(f) - r, i < j
               PROVE  b[i] < b[j]
    BY <1>5 DEF Increasing
  <2>1. r + i < r + j
    BY <1>1
  <2> QED BY <1>6, <1>9, <2>1
<1>12. Before(a, b)
  <2> SUFFICES ASSUME NEW i \in 1..Len(w) + n, NEW j \in 1..Len(f) - r
               PROVE  a[i] < b[j]
    BY <1>5 DEF Before
  <2>1. CASE i <= Len(w)
    BY <1>6, <1>8, <1>9, <2>1
  <2>2. CASE i > Len(w)
    <3>1. i - Len(w) < r + j
      BY <1>1, <1>7, <2>2
    <3> QED BY <1>6, <1>7, <1>9, <2>2, <3>1
  <2> QED BY <1>1, <2>1, <2>2
<1>13. Under(a, k) /\ Under(b, k)
  <2>1. ASSUME NEW i \in 1..Len(w) + n PROVE a[i] < k
    <3>1. CASE i <= Len(w)
      BY <1>6, <1>8, <3>1
    <3>2. CASE i > Len(w)
      BY <1>6, <1>7, <3>2
    <3> QED BY <1>1, <3>1, <3>2
  <2>2. ASSUME NEW i \in 1..Len(f) - r PROVE b[i] < k
    BY <1>6, <1>9
  <2> QED BY <1>5, <2>1, <2>2 DEF Under
<1> QED BY <1>10, <1>11, <1>12, <1>13 DEF Line, a, b

\* The next packet may be sent, or held, behind a line with nothing held.
LEMMA LineGrows ==
  ASSUME NEW w \in Seq(Nat), NEW k \in Nat, Increasing(w), Under(w, k)
  PROVE  /\ w \o <<k>> \in Seq(Nat) /\ Increasing(w \o <<k>>)
         /\ Under(w \o <<k>>, k + 1)
<1>1. Len(w) \in Nat /\ DOMAIN w = 1..Len(w) /\ \A i \in 1..Len(w) : w[i] \in Nat
  BY LenProperties, ElementOfSeq
<1>2. <<k>> \in Seq(Nat) /\ Len(<<k>>) = 1 /\ <<k>>[1] = k
  OBVIOUS
<1>3. w \o <<k>> \in Seq(Nat) /\ Len(w \o <<k>>) = Len(w) + 1
  BY <1>2, ConcatProperties
<1>4. /\ \A i \in 1..Len(w) : (w \o <<k>>)[i] = w[i]
      /\ (w \o <<k>>)[Len(w) + 1] = k
  BY <1>1, <1>2, ConcatProperties
<1> DEFINE a == w \o <<k>>
<1> HIDE DEF a
<1>5. /\ a \in Seq(Nat) /\ DOMAIN a = 1..Len(w) + 1
      /\ \A i \in 1..Len(w) : a[i] = w[i]
      /\ a[Len(w) + 1] = k
  BY <1>3, <1>4, LenProperties DEF a
<1>6. /\ \A i, j \in 1..Len(w) : i < j => w[i] < w[j]
      /\ \A i \in 1..Len(w) : w[i] < k
  BY <1>1 DEF Increasing, Under
<1>7. ASSUME NEW i \in 1..Len(w) + 1, NEW j \in 1..Len(w) + 1, i < j
      PROVE  a[i] < a[j]
  <2>1. i \in 1..Len(w)
    BY <1>1, <1>7
  <2>2. CASE j \in 1..Len(w)
    BY <1>5, <1>6, <1>7, <2>1, <2>2
  <2>3. CASE j = Len(w) + 1
    BY <1>5, <1>6, <2>1, <2>3
  <2> QED BY <1>1, <2>2, <2>3
<1>8. ASSUME NEW i \in 1..Len(w) + 1 PROVE a[i] < k + 1
  <2>1. CASE i \in 1..Len(w)
    BY <1>1, <1>5, <1>6, <2>1
  <2>2. CASE i = Len(w) + 1
    BY <1>5, <2>2
  <2> QED BY <1>1, <2>1, <2>2
<1> QED BY <1>5, <1>7, <1>8 DEF a, Increasing, Under

\* A line is in order from its first packet to its last.
LEMMA LineInOrder ==
  ASSUME NEW w \in Seq(Nat), NEW f \in Seq(Nat), NEW k \in Nat, Line(w, f, k)
  PROVE  Increasing(w \o f)
<1>1. Len(f) \in 0..Len(f) /\ Len(f) \in Nat
  BY LenProperties
<1>2. Line(w \o SubSeq(f, 1, Len(f)), SubSeq(f, Len(f) + 1, Len(f)), k)
  BY <1>1, ReleaseKeepsLine
<1>3. SubSeq(f, 1, Len(f)) = f
  BY SubSeqFull
<1> QED BY <1>2, <1>3 DEF Line

\* One call takes at most ReleaseMax packets, and all when there are no more.
LEMMA ReleasedBounds ==
  ASSUME TypeOK
  PROVE  /\ Len(fifo) \in Nat /\ Released \in 0..Len(fifo)
         /\ Len(fifo) <= ReleaseMax => Released = Len(fifo)
         /\ Len(fifo) > ReleaseMax => Released = ReleaseMax
<1>1. Len(fifo) \in Nat
  BY LenProperties DEF TypeOK, PsmType
<1> QED BY <1>1, StpPsmAssumption DEF Released

\* What a release leaves behind.
LEMMA ReleaseRest ==
  ASSUME TypeOK, Release
  PROVE  Len(fifo') = Len(fifo) - Released /\ (fifo = <<>> => fifo' = <<>>)
<1>1. fifo \in Seq(Nat)
  <2>1. 1..MaxPkt \subseteq Nat /\ fifo \in Seq(1..MaxPkt)
    BY DEF TypeOK, PsmType
  <2> QED BY <2>1, SeqMonotonic
<1>2. Len(fifo') = Len(fifo) - Released
  BY <1>1, ReleasedBounds, RestOf DEF Release
<1>3. fifo' \in Seq(1..MaxPkt)
  BY ReleaseType
<1>4. ASSUME fifo = <<>> PROVE fifo' = <<>>
  <2>1. Len(fifo) = 0 /\ Released = 0
    BY <1>4, ReleasedBounds
  <2>2. Len(fifo') = 0
    BY <1>2, <2>1
  <2> QED BY <1>3, <2>2, EmptySeq
<1> QED BY <1>2, <1>4

\* Every step keeps what is held within what the next release can send.
LEMMA HoldStep ==
  ASSUME FifoMax <= 2 * ReleaseMax, TypeInv, HoldInv, [Next]_vars
  PROVE  HoldInv'
<1>a. Len(fifo) \in Nat /\ FifoMax \in Nat /\ ReleaseMax \in Nat \ {0}
  BY ReleasedBounds, StpPsmAssumption DEF TypeInv
<1>1. ASSUME UNCHANGED <<fifo, link>>,
             "BLOCK_DATA_EN" \in flag => "BLOCK_DATA_EN" \in flag'
      PROVE  HoldInv'
  BY <1>1 DEF HoldInv
<1>2. ASSUME Release, UNCHANGED link PROVE HoldInv'
  <2>1. /\ Len(fifo') = Len(fifo) - Released /\ (fifo = <<>> => fifo' = <<>>)
        /\ Released \in 0..Len(fifo)
        /\ Len(fifo) <= ReleaseMax => Released = Len(fifo)
        /\ Len(fifo) > ReleaseMax => Released = ReleaseMax
    BY <1>2, ReleaseRest, ReleasedBounds DEF TypeInv
  <2>2. Len(fifo') <= FifoMax /\ Len(fifo') <= ReleaseMax
    BY <1>a, <2>1 DEF HoldInv
  <2> QED BY <1>2, <2>1, <2>2 DEF HoldInv
<1>3. ASSUME fifo' = <<>> PROVE HoldInv'
  <2>1. Len(fifo') = 0
    BY <1>3
  <2> QED BY <1>a, <1>3, <2>1 DEF HoldInv
<1>4. CASE SendDirect
  <2>1. Released = Len(fifo)
    BY <1>a, <1>4, ReleasedBounds DEF SendDirect, HoldInv, TypeInv
  <2>2. fifo \in Seq(Nat)
    <3>1. 1..MaxPkt \subseteq Nat /\ fifo \in Seq(1..MaxPkt)
      BY DEF TypeInv, TypeOK, PsmType
    <3> QED BY <3>1, SeqMonotonic
  <2>3. Released \in 0..Len(fifo) /\ fifo' = SubSeq(fifo, Released + 1, Len(fifo))
    BY <1>4, ReleasedBounds DEF SendDirect, TypeInv
  <2>4. fifo' \in Seq(Nat) /\ Len(fifo') = Len(fifo) - Released
    BY <2>2, <2>3, RestOf
  <2>5. Len(fifo') = 0
    BY <1>a, <2>1, <2>4
  <2>6. fifo' = <<>>
    BY <2>4, <2>5, EmptySeq
  <2> QED BY <1>3, <2>6
<1>5. CASE SendHeld
  <2>1. /\ link = "up" /\ "BLOCK_DATA_EN" \in flag /\ UNCHANGED <<flag, link>>
        /\ fifo' = IF Len(fifo) < FifoMax THEN Append(fifo, next) ELSE <<next>>
    BY <1>5 DEF SendHeld, envVars
  <2>2. Len(fifo') <= FifoMax
    <3>1. Len(<<next>>) = 1 /\ FifoMax >= 1
      BY <1>a, StpPsmAssumption
    <3>2. Len(Append(fifo, next)) = Len(fifo) + 1
      BY <1>5, AppendProperties
      DEF SendHeld, TypeInv, TypeOK, PsmType, TxType
    <3> QED BY <1>a, <2>1, <3>1, <3>2
  <2> QED BY <2>1, <2>2 DEF HoldInv
<1>6. CASE Density \/ IdleTimer
  BY <1>1, <1>6 DEF Density, IdleTimer, envVars
<1>7. CASE PsmdGet \/ PsmdMaySleep \/ PsmdWakeUp
  BY <1>1, <1>7 DEF PsmdGet, PsmdMaySleep, PsmdWakeUp, Block, psmVars, envVars
<1>8. CASE PsmdSkip
  BY <1>1, <1>2, <1>8 DEF PsmdSkip, envVars
<1>9. CASE PsmdSleep \/ PsmdSeesWakeup
  BY <1>2, <1>9 DEF PsmdSleep, PsmdSeesWakeup, envVars
<1>10. CASE PsmdNotify
  <2>1. UNCHANGED <<fifo, link>>
    BY <1>10 DEF PsmdNotify, envVars
  <2>2. flag' \in {flag, NotifyStp("SLEEP", flag), NotifyStp("ROLL_BACK", flag)}
    BY <1>10 DEF PsmdNotify
  <2> QED BY <1>1, <2>1, <2>2, NotifyStpKeepsBlock
<1>11. CASE PsmdActive \/ PsmdSeesSleep \/ PsmdSeesReset \/ PsmdTimeout
  BY <1>1, <1>11
  DEF PsmdActive, PsmdSeesSleep, PsmdSeesReset, PsmdTimeout, Block, psmVars,
      envVars
<1>12. CASE PsmdSeesRollBack
  BY <1>1, <1>2, <1>12 DEF PsmdSeesRollBack, Block, envVars
<1>13. CASE WmtdDrop \/ WmtdSend \/ WmtdCmdDone
  BY <1>1, <1>13 DEF WmtdDrop, WmtdSend, WmtdCmdDone, psmVars, envVars
<1>14. CASE WmtdDone
  BY <1>1, <1>14, NotifyStpKeepsBlock DEF WmtdDone
<1>15. CASE Isr
  BY <1>1, <1>15, NotifyStpKeepsBlock DEF Isr, envVars
<1>16. CASE ChipRaise \/ ChipDies \/ CoreDump
  BY <1>1, <1>16 DEF ChipRaise, ChipDies, CoreDump, psmVars
<1>17. CASE BeginDisable \/ BeginEnable
  BY <1>1, <1>17
  DEF BeginDisable, BeginEnable, ForceAwake, psmVars, envVars
<1>18. CASE Caller \/ PollExpires
  BY <1>1, <1>18
  DEF Caller, DoWakeupPut, DisableDone, OpPut, EnableSeesAct, EnableDone,
      PollExpires, psmVars, envVars
<1>19. CASE ChipReset
  BY <1>19 DEF ChipReset, ResetQueue, HoldInv
<1>20. CASE SwReset
  BY <1>3, <1>20 DEF SwReset, ResetQueue, HoldInv
<1>21. CASE ResetState
  BY <1>3, <1>21 DEF ResetState
<1>22. CASE BackUp
  BY <1>3, <1>22 DEF BackUp, psmVars, HoldInv
<1>23. CASE UNCHANGED vars
  BY <1>1, <1>23 DEF vars, psmVars, envVars
<1> QED
  BY <1>4, <1>5, <1>6, <1>7, <1>8, <1>9, <1>10, <1>11, <1>12, <1>13, <1>14,
     <1>15, <1>16, <1>17, <1>18, <1>19, <1>20, <1>21, <1>22, <1>23
  DEF Next, Psmd, Wmtd

\* Every step keeps the line: a direct send comes when all that is held goes
\* out before it.
LEMMA LineStep ==
  ASSUME TypeInv, HoldInv, Line(wire, fifo, next), [Next]_vars
  PROVE  Line(wire, fifo, next)'
<1>a. /\ wire \in Seq(Nat) /\ fifo \in Seq(Nat) /\ next \in Nat
      /\ Len(fifo) \in Nat /\ Released \in 0..Len(fifo)
  <2>1. 1..MaxPkt \subseteq Nat /\ next \in Nat
    BY DEF TypeInv, TypeOK, TxType
  <2>2. wire \in Seq(1..MaxPkt) /\ fifo \in Seq(1..MaxPkt)
    BY DEF TypeInv, TypeOK, TxType, PsmType
  <2> QED BY <2>1, <2>2, SeqMonotonic, ReleasedBounds DEF TypeInv
<1>1. ASSUME UNCHANGED <<wire, fifo, next>> PROVE Line(wire, fifo, next)'
  BY <1>1 DEF Line, Increasing, Before, Under
<1>2. ASSUME Release, UNCHANGED next PROVE Line(wire, fifo, next)'
  <2>1. PICK n \in 0..Released : wire' = wire \o SubSeq(fifo, 1, n)
    <3>1. 0 \in 0..Released /\ Released \in 0..Released
      BY <1>a
    <3> QED BY <1>2, <3>1 DEF Release
  <2>2. fifo' = SubSeq(fifo, Released + 1, Len(fifo)) /\ next' = next
    BY <1>2 DEF Release
  <2>3. Line(wire \o SubSeq(fifo, 1, n), SubSeq(fifo, Released + 1, Len(fifo)), next)
    BY <1>a, ReleaseKeepsLine
  <2> QED BY <2>1, <2>2, <2>3 DEF Line, Increasing, Before, Under
<1>3. ASSUME fifo' = <<>>, UNCHANGED <<wire, next>> PROVE Line(wire, fifo, next)'
  BY <1>3 DEF Line, Increasing, Before, Under
<1>4. CASE SendDirect
  <2>1. Released = Len(fifo)
    BY <1>a, <1>4, ReleasedBounds, StpPsmAssumption DEF SendDirect, HoldInv, TypeInv
  <2> DEFINE a == wire \o SubSeq(fifo, 1, Released)
             b == SubSeq(fifo, Released + 1, Len(fifo))
  <2>2. Line(a, b, next)
    BY <1>a, ReleaseKeepsLine
  <2>3. a \in Seq(Nat) /\ b \in Seq(Nat) /\ Len(b) = 0
    BY <1>a, <2>1, SentWith, RestOf
  <2>4. wire' = a \o <<next>> /\ fifo' = b /\ next' = next + 1
    BY <1>4 DEF SendDirect
  <2> HIDE DEF a, b
  <2>5. b = <<>>
    BY <2>3, EmptySeq
  <2>6. Increasing(a \o <<next>>) /\ Under(a \o <<next>>, next + 1)
    BY <1>a, <2>2, <2>3, LineGrows DEF Line
  <2>7. Increasing(b) /\ Before(a \o <<next>>, b) /\ Under(b, next + 1)
    BY <2>5 DEF Increasing, Before, Under
  <2>8. Line(a \o <<next>>, b, next + 1)
    BY <2>6, <2>7 DEF Line
  <2> QED BY <2>4, <2>8 DEF Line, Increasing, Before, Under
<1>5. CASE SendHeld
  <2>1. UNCHANGED wire /\ next' = next + 1
        /\ fifo' = IF Len(fifo) < FifoMax THEN Append(fifo, next) ELSE <<next>>
    BY <1>5 DEF SendHeld
  <2>2. /\ DOMAIN wire = 1..Len(wire) /\ Len(wire) \in Nat
        /\ DOMAIN fifo = 1..Len(fifo)
        /\ \A i \in 1..Len(wire) : wire[i] \in Nat
        /\ \A i \in 1..Len(fifo) : fifo[i] \in Nat
    BY <1>a, LenProperties, ElementOfSeq
  <2>3. /\ Increasing(wire) /\ Increasing(fifo) /\ Before(wire, fifo)
        /\ Under(wire, next) /\ Under(fifo, next)
    BY DEF Line
  <2>4. Under(wire, next + 1)
    BY <1>a, <2>2, <2>3 DEF Under
  <2>5. CASE fifo' = Append(fifo, next)
    <3> DEFINE g == Append(fifo, next)
    <3>1. /\ DOMAIN g = 1..Len(fifo) + 1
          /\ \A i \in 1..Len(fifo) : g[i] = fifo[i]
          /\ g[Len(fifo) + 1] = next
      BY <1>a, AppendProperties, LenProperties
    <3> HIDE DEF g
    <3>2. ASSUME NEW j \in DOMAIN g
          PROVE  j \in 1..Len(fifo) \/ j = Len(fifo) + 1
      BY <1>a, <3>1
    <3>3. Increasing(g)
      <4> SUFFICES ASSUME NEW i \in DOMAIN g, NEW j \in DOMAIN g, i < j
                   PROVE  g[i] < g[j]
        BY DEF Increasing
      <4>1. i \in 1..Len(fifo)
        BY <1>a, <3>1
      <4> QED BY <1>a, <2>2, <2>3, <3>1, <3>2, <4>1 DEF Increasing, Under
    <3>4. Before(wire, g)
      BY <1>a, <2>2, <2>3, <3>1, <3>2 DEF Before, Under
    <3>5. ASSUME NEW j \in DOMAIN g PROVE g[j] < next + 1
      <4>1. CASE j \in 1..Len(fifo)
        BY <1>a, <2>2, <2>3, <3>1, <4>1 DEF Under
      <4>2. CASE j = Len(fifo) + 1
        BY <1>a, <3>1, <4>2
      <4> QED BY <3>2, <4>1, <4>2
    <3>6. Line(wire, g, next + 1)
      BY <2>3, <2>4, <3>3, <3>4, <3>5 DEF Line, Under
    <3>7. fifo' = g
      BY <2>5 DEF g
    <3> QED BY <2>1, <3>6, <3>7 DEF Line, Increasing, Before, Under
  <2>6. CASE fifo' = <<next>>
    <3>1. Increasing(<<next>>) /\ Under(<<next>>, next + 1)
      BY <1>a DEF Increasing, Under
    <3>2. Before(wire, <<next>>)
      BY <2>2, <2>3 DEF Before, Under
    <3>3. Line(wire, <<next>>, next + 1)
      BY <2>3, <2>4, <3>1, <3>2 DEF Line
    <3> QED BY <2>1, <2>6, <3>3 DEF Line, Increasing, Before, Under
  <2> QED BY <2>1, <2>5, <2>6
<1>6. CASE PsmdSkip
  BY <1>1, <1>2, <1>6 DEF PsmdSkip
<1>7. CASE PsmdSleep \/ PsmdSeesWakeup
  BY <1>2, <1>7 DEF PsmdSleep, PsmdSeesWakeup
<1>8. CASE PsmdSeesRollBack
  BY <1>1, <1>2, <1>8 DEF PsmdSeesRollBack
<1>9. CASE PsmdGet \/ PsmdMaySleep \/ PsmdWakeUp \/ PsmdNotify \/ PsmdActive
           \/ PsmdSeesSleep \/ PsmdSeesReset \/ PsmdTimeout
  BY <1>1, <1>9
  DEF PsmdGet, PsmdMaySleep, PsmdWakeUp, PsmdNotify, PsmdActive, PsmdSeesSleep,
      PsmdSeesReset, PsmdTimeout, psmVars, txVars
<1>10. CASE Density \/ IdleTimer \/ Wmtd
  BY <1>1, <1>10
  DEF Density, IdleTimer, Wmtd, WmtdDrop, WmtdSend, WmtdDone, WmtdCmdDone,
      psmVars, txVars
<1>11. CASE ChipRaise \/ ChipDies \/ CoreDump \/ Isr
  BY <1>1, <1>11 DEF ChipRaise, ChipDies, CoreDump, Isr, psmVars, txVars
<1>12. CASE BeginDisable \/ BeginEnable \/ Caller \/ PollExpires
  BY <1>1, <1>12
  DEF BeginDisable, BeginEnable, ForceAwake, Caller, DoWakeupPut, DisableDone,
      OpPut, EnableSeesAct, EnableDone, PollExpires, psmVars, txVars
<1>13. CASE ChipReset \/ SwReset \/ BackUp \/ UNCHANGED vars
  BY <1>1, <1>13
  DEF ChipReset, SwReset, ResetQueue, BackUp, vars, psmVars, txVars
<1>14. CASE ResetState
  BY <1>3, <1>14 DEF ResetState, txVars
<1> QED
  BY <1>4, <1>5, <1>6, <1>7, <1>8, <1>9, <1>10, <1>11, <1>12, <1>13, <1>14
  DEF Next, Psmd

\* What was sent, followed by what is still held, is in the order the drivers
\* wrote it, without duplicates, when the FIFO holds no more than two releases
\* take: for any number of packets, resets and wake-ups.
THEOREM OrderKept ==
  ASSUME FifoMax <= 2 * ReleaseMax
  PROVE  Spec => []SentInOrder
<1>1. Init => HoldInv /\ Line(wire, fifo, next)
  <2>1. Len(<<>>) = 0 /\ DOMAIN <<>> = {}
    OBVIOUS
  <2>2. 0 <= FifoMax /\ 0 <= ReleaseMax
    BY StpPsmAssumption
  <2> QED BY <2>1, <2>2 DEF Init, HoldInv, Line, Increasing, Before, Under
<1>2. TypeInv /\ HoldInv /\ Line(wire, fifo, next) /\ [Next]_vars
      => HoldInv' /\ Line(wire, fifo, next)'
  BY HoldStep, LineStep
<1>3. TypeInv /\ Line(wire, fifo, next) => SentInOrder
  <2> SUFFICES ASSUME TypeInv, Line(wire, fifo, next) PROVE SentInOrder
    OBVIOUS
  <2>1. 1..MaxPkt \subseteq Nat /\ next \in Nat
    BY DEF TypeInv, TypeOK, TxType
  <2>2. wire \in Seq(1..MaxPkt) /\ fifo \in Seq(1..MaxPkt)
    BY DEF TypeInv, TypeOK, TxType, PsmType
  <2>3. wire \in Seq(Nat) /\ fifo \in Seq(Nat)
    BY <2>1, <2>2, SeqMonotonic
  <2>4. Increasing(wire \o fifo)
    BY <2>1, <2>3, LineInOrder
  <2> QED BY <2>4 DEF SentInOrder, Increasing
<1> QED BY <1>1, <1>2, <1>3, TypeInvariant, PTL DEF Spec

-----------------------------------------------------------------------------
(***************************************************************************)
(* Data and the sleeping chip.  Nothing in psm_core.c looks at the chip:   *)
(* that it is awake when data goes out follows from what psmd was told.    *)
(* While STP is up, wmtd has at most one PWR_SV op, the one psmd's state   *)
(* asks for; psmd is told once, after it; and a chip that sleeps is in the *)
(* way of every flag that lets data out.  A reset breaks all of this, and  *)
(* its bring-up makes it true again before STP is up.                      *)
(***************************************************************************)
AnswerFlags == {"WAKEUP_EN", "SLEEP_EN", "ROLL_BACK_EN"}
Answered == flag \cap AnswerFlags # {}
OneAnswer == \A f, g \in flag \cap AnswerFlags : f = g

Asleep == chip \in {"asleep", "woken"}
Moving == state \in {"ACT_INACT", "INACT_ACT"}

\* The state that asks wmtd for op x.
Asks(x) == IF x = "SLEEP" THEN state = "ACT_INACT" ELSE state = "INACT_ACT"

NoOps(s) == \A i \in DOMAIN s : s[i] \notin OpIds
OneOp(s) == \A i, j \in DOMAIN s : s[i] \in OpIds /\ s[j] \in OpIds => i = j
AsksAll(s) == \A i \in DOMAIN s : s[i] \in OpIds => Asks(s[i])

NoneAtWmtd == pcW \notin OpIds /\ NoOps(wmtq)

\* wmtd answers with the kind of op it was given.
WireInv == (pcW = "SLEEP" => act = "SLEEP") /\ (pcW \in Wake => act \in Wake)

\* psmd is about to leave ACT.
LeavingInv == pcD = "sleep" => state = "ACT" /\ cur = "SLEEP"

\* During the bring-up after a reset the chip is awake and wmtd has no op, and
\* only the exchange psmd waits in can have left it an answer.
BringUpInv ==
  link \in {"starting", "init"} =>
    /\ pcW = "idle" /\ NoOps(wmtq) /\ ~Asleep
    /\ "WAKEUP_EN" \notin flag /\ OneAnswer
    /\ Answered => pcD = "wait"

AnswersUp == OneAnswer /\ (Answered => pcD = "wait" \/ Moving)
OpsUp ==
  /\ pcW \in OpIds => Asks(pcW) /\ NoOps(wmtq)
  /\ OneOp(wmtq) /\ AsksAll(wmtq)
  /\ ~NoneAtWmtd => ~Answered /\ pcD \in {"idle", "got", "wait"}
NotifyUp ==
  pcD = "notify" => Asks(cur) /\ ~Answered /\ NoneAtWmtd /\ (cur = "SLEEP" => ~Asleep)
WokenUp == pcD = "woken" => ~Answered /\ NoneAtWmtd /\ ~Asleep
ChipUp ==
  Asleep => state # "ACT" /\ flag \cap {"WAKEUP_EN", "ROLL_BACK_EN"} = {}

Up == AnswersUp /\ OpsUp /\ NotifyUp /\ WokenUp /\ ChipUp

SleepInv == WireInv /\ LeavingInv /\ BringUpInv /\ (link = "up" => Up)

\* A command queued with wmtd is not an op.
LEMMA CommandIsNoOp == "CMD" \notin OpIds /\ "idle" \notin OpIds /\ Wake \subseteq OpIds
BY DEF OpIds, Wake

\* A queue grows at its end.
LEMMA QueueGrows ==
  ASSUME NEW S, NEW s \in Seq(S), NEW x \in S
  PROVE  /\ NoOps(s) /\ x \notin OpIds => NoOps(Append(s, x))
         /\ NoOps(s) => OneOp(Append(s, x))
         /\ NoOps(s) /\ Asks(x) => AsksAll(Append(s, x))
         /\ x \notin OpIds /\ OneOp(s) => OneOp(Append(s, x))
         /\ x \notin OpIds /\ AsksAll(s) => AsksAll(Append(s, x))
         /\ x \notin OpIds /\ NoOps(Append(s, x)) => NoOps(s)
<1> DEFINE t == Append(s, x)
           n == Len(s)
<1>1. /\ n \in Nat /\ DOMAIN s = 1..n /\ DOMAIN t = 1..n + 1
      /\ \A i \in 1..n : t[i] = s[i]
      /\ t[n + 1] = x
  <2>1. t \in Seq(S) /\ Len(t) = n + 1
    BY AppendProperties
  <2> QED BY <2>1, LenProperties, AppendProperties
<1> HIDE DEF t, n
<1>2. ASSUME NEW i \in DOMAIN t
      PROVE  (i \in DOMAIN s /\ t[i] = s[i]) \/ (i = n + 1 /\ t[i] = x)
  BY <1>1
<1>3. ASSUME NEW i \in DOMAIN s PROVE i \in DOMAIN t /\ t[i] = s[i]
  BY <1>1
<1>4. NoOps(s) /\ x \notin OpIds => NoOps(t)
  BY <1>2 DEF NoOps
<1>5. NoOps(s) => OneOp(t)
  BY <1>2 DEF NoOps, OneOp
<1>6. NoOps(s) /\ Asks(x) => AsksAll(t)
  BY <1>2 DEF NoOps, AsksAll
<1>7. x \notin OpIds /\ OneOp(s) => OneOp(t)
  BY <1>2 DEF OneOp
<1>8. x \notin OpIds /\ AsksAll(s) => AsksAll(t)
  BY <1>2 DEF AsksAll
<1>9. NoOps(t) => NoOps(s)
  BY <1>3 DEF NoOps
<1> QED BY <1>4, <1>5, <1>6, <1>7, <1>8, <1>9 DEF t

\* It shrinks at its head, and an op alone in it leaves none behind.
LEMMA QueueShrinks ==
  ASSUME NEW S, NEW s \in Seq(S), s # <<>>
  PROVE  /\ NoOps(s) => NoOps(Tail(s)) /\ Head(s) \notin OpIds
         /\ OneOp(s) => OneOp(Tail(s))
         /\ AsksAll(s) => AsksAll(Tail(s)) /\ (Head(s) \in OpIds => Asks(Head(s)))
         /\ OneOp(s) /\ Head(s) \in OpIds => NoOps(Tail(s))
         /\ Head(s) \notin OpIds /\ NoOps(Tail(s)) => NoOps(s)
<1> DEFINE t == Tail(s)
           n == Len(s)
<1>1. n \in Nat \ {0} /\ DOMAIN s = 1..n /\ Head(s) = s[1]
  BY LenProperties, EmptySeq
<1>2. DOMAIN t = 1..n - 1 /\ \A i \in 1..n - 1 : t[i] = s[i + 1]
  <2>1. t \in Seq(S) /\ Len(t) = n - 1
    BY HeadTailProperties
  <2> QED BY <2>1, <1>1, LenProperties, HeadTailProperties
<1> HIDE DEF t, n
<1>3. ASSUME NEW i \in DOMAIN t
      PROVE  i + 1 \in DOMAIN s /\ i + 1 # 1 /\ i \in Int /\ t[i] = s[i + 1]
  BY <1>1, <1>2
<1>4. 1 \in DOMAIN s
  BY <1>1
<1>5. ASSUME NEW i \in DOMAIN s
      PROVE  i = 1 \/ (i - 1 \in DOMAIN t /\ t[i - 1] = s[i])
  BY <1>1, <1>2
<1>6. NoOps(s) => NoOps(t) /\ Head(s) \notin OpIds
  BY <1>1, <1>3, <1>4 DEF NoOps
<1>7. OneOp(s) => OneOp(t)
  <2> SUFFICES ASSUME OneOp(s), NEW i \in DOMAIN t, NEW j \in DOMAIN t,
                      t[i] \in OpIds, t[j] \in OpIds
               PROVE  i = j
    BY DEF OneOp
  <2>1. i + 1 = j + 1
    BY <1>3 DEF OneOp
  <2> QED BY <1>3, <2>1
<1>8. AsksAll(s) => AsksAll(t) /\ (Head(s) \in OpIds => Asks(Head(s)))
  BY <1>1, <1>3, <1>4 DEF AsksAll
<1>9. OneOp(s) /\ Head(s) \in OpIds => NoOps(t)
  BY <1>1, <1>3, <1>4 DEF OneOp, NoOps
<1>10. Head(s) \notin OpIds /\ NoOps(t) => NoOps(s)
  BY <1>1, <1>5 DEF NoOps
<1> QED BY <1>6, <1>7, <1>8, <1>9, <1>10 DEF t

\* The flag psm_cb() sets for the op that psmd's state asks for.
LEMMA NotifyAnswers ==
  ASSUME NEW f, f \subseteq Flags, f \cap AnswerFlags = {}, NEW a \in OpIds, Asks(a)
  PROVE  NotifyStp(a, f) \cap AnswerFlags
           = {IF a = "SLEEP" THEN "SLEEP_EN" ELSE "WAKEUP_EN"}
BY DEF NotifyStp, Asks, AnswerFlags, OpIds, Wake

\* A roll back is all that STP being down answers with, and only a state on its
\* way is told.
LEMMA RollBackAnswers ==
  ASSUME NEW f, f \subseteq Flags, f \cap AnswerFlags = {}
  PROVE  NotifyStp("ROLL_BACK", f) \cap AnswerFlags
           = IF Moving THEN {"ROLL_BACK_EN"} ELSE {}
BY DEF NotifyStp, AnswerFlags, Moving, Wake

\* psmd's own steps, while STP is up.
LEMMA UpPsmd ==
  ASSUME TypeInv, LeavingInv, Up, link = "up", Psmd
  PROVE  Up'
<1>1. UNCHANGED <<pcW, chip>>
  BY DEF Psmd, PsmdGet, PsmdSkip, PsmdMaySleep, PsmdSleep, PsmdWakeUp,
     PsmdNotify, PsmdSeesWakeup, PsmdActive, PsmdSeesSleep, PsmdSeesRollBack,
     PsmdSeesReset, PsmdTimeout, envVars, wmtVars
<1>2. ASSUME NoneAtWmtd, UNCHANGED wmtq PROVE NoneAtWmtd' /\ OpsUp'
  BY <1>1, <1>2 DEF NoneAtWmtd, NoOps, OpsUp, OneOp, AsksAll
<1>3. ~Moving => NoneAtWmtd /\ (pcD # "wait" => ~Answered)
  BY DEF Up, OpsUp, AnswersUp, Moving, NoneAtWmtd, NoOps, AsksAll, Asks
<1>4. Answered => NoneAtWmtd
  BY DEF Up, OpsUp
<1>5. ASSUME UNCHANGED <<wmtq, state>>, flag' \cap AnswerFlags = flag \cap AnswerFlags,
             pcD' \in {"idle", "got"}, pcD # "wait" \/ ~Answered
      PROVE  Up'
  <2>1. AnswersUp' /\ ~(pcD' \in {"notify", "woken"})
    BY <1>5 DEF Up, AnswersUp, OneAnswer, Answered, Moving
  <2>2. OpsUp'
    BY <1>1, <1>5
    DEF Up, OpsUp, NoneAtWmtd, NoOps, OneOp, AsksAll, Asks, Answered
  <2>3. ChipUp'
    <3>1. /\ "WAKEUP_EN" \in flag' <=> "WAKEUP_EN" \in flag
          /\ "ROLL_BACK_EN" \in flag' <=> "ROLL_BACK_EN" \in flag
      BY <1>5 DEF AnswerFlags
    <3> QED BY <1>1, <1>5, <3>1 DEF Up, ChipUp, Asleep
  <2> QED BY <2>1, <2>2, <2>3 DEF Up, NotifyUp, WokenUp
<1>6. ASSUME NoneAtWmtd, UNCHANGED wmtq, flag' \cap AnswerFlags = {},
             pcD' = "notify" => Asks(cur)' /\ (cur' = "SLEEP" => ~Asleep),
             pcD' = "woken" => ~Asleep,
             Asleep => state' # "ACT"
      PROVE  Up'
  <2>1. NoneAtWmtd' /\ OpsUp'
    BY <1>2, <1>6
  <2>2. ~Answered' /\ AnswersUp'
    BY <1>6 DEF AnswersUp, OneAnswer, Answered
  <2>3. ChipUp' /\ (Asleep' <=> Asleep)
    BY <1>1, <1>6 DEF ChipUp, Asleep, AnswerFlags
  <2> QED BY <1>6, <2>1, <2>2, <2>3 DEF Up, NotifyUp, WokenUp
<1>7. CASE PsmdGet \/ PsmdSkip
  <2>1. UNCHANGED <<wmtq, state>> /\ pcD' \in {"idle", "got"} /\ pcD # "wait"
    BY <1>7 DEF PsmdGet, PsmdSkip, wmtVars
  <2>2. flag' \cap AnswerFlags = flag \cap AnswerFlags
    BY <1>7 DEF PsmdGet, PsmdSkip, AnswerFlags
  <2> QED BY <1>5, <2>1, <2>2
<1>8. CASE PsmdMaySleep
  <2>1. ~Moving /\ ~Answered /\ state = "ACT" /\ state' = state
    BY <1>3, <1>8 DEF PsmdMaySleep, psmVars, Moving
  <2>2. NoneAtWmtd /\ ~Asleep
    BY <1>3, <2>1 DEF Up, ChipUp
  <2> QED BY <1>6, <1>8, <2>1, <2>2
        DEF PsmdMaySleep, psmVars, wmtVars, Answered
<1>9. CASE PsmdSleep
  <2>1. ~Moving /\ ~Answered /\ state = "ACT" /\ cur = "SLEEP"
    BY <1>3, <1>9 DEF PsmdSleep, LeavingInv, Moving
  <2>2. NoneAtWmtd /\ ~Asleep
    BY <1>3, <2>1 DEF Up, ChipUp
  <2>3. flag' \cap AnswerFlags = {} /\ Asks(cur)' /\ pcD' # "woken"
    BY <1>9, <2>1 DEF PsmdSleep, Block, Answered, AnswerFlags, Asks
  <2> QED BY <1>6, <1>9, <2>2, <2>3 DEF PsmdSleep, wmtVars
<1>10. CASE PsmdWakeUp
  <2>1. ~Moving /\ ~Answered /\ cur \in Wake /\ cur' = cur
    BY <1>3, <1>10 DEF PsmdWakeUp, Moving
  <2>2. NoneAtWmtd
    BY <1>3, <2>1
  <2>3. flag' \cap AnswerFlags = {}
    BY <1>10, <2>1 DEF PsmdWakeUp, Block, Answered, AnswerFlags
  <2>4. Asks(cur)' /\ cur' # "SLEEP" /\ pcD' # "woken" /\ state' # "ACT"
    BY <1>10, <2>1 DEF PsmdWakeUp, Asks, Wake
  <2> QED BY <1>6, <1>10, <2>2, <2>3, <2>4 DEF PsmdWakeUp, wmtVars
<1>11. CASE PsmdNotify
  <2>1. Asks(cur) /\ ~Answered /\ NoneAtWmtd /\ UNCHANGED state /\ pcD' = "wait"
    BY <1>11 DEF PsmdNotify, Up, NotifyUp
  <2>2. flag \subseteq Flags /\ cur \in OpIds /\ wmtq \in Seq(OpIds \cup {"CMD"})
    BY <1>11 DEF PsmdNotify, TypeInv, TypeOK, PsmType, WmtType, CurSet
  <2>3. CASE coredump /\ cur = "SLEEP"
    <3>1. flag' = NotifyStp("SLEEP", flag) /\ UNCHANGED wmtq
      BY <1>11, <2>3 DEF PsmdNotify
    <3>2. flag' \cap AnswerFlags = {"SLEEP_EN"}
      BY <2>1, <2>2, <2>3, <3>1, NotifyAnswers DEF Answered
    <3>3. AnswersUp'
      BY <2>1, <3>2 DEF AnswersUp, OneAnswer
    <3>4. NoneAtWmtd' /\ OpsUp'
      BY <1>2, <2>1, <3>1
    <3>5. ChipUp'
      BY <1>1, <2>1, <3>2 DEF Up, ChipUp, Asleep, AnswerFlags
    <3> QED BY <2>1, <3>3, <3>4, <3>5 DEF Up, NotifyUp, WokenUp
  <2>4. CASE ~(coredump /\ cur = "SLEEP")
    <3>1. /\ flag' = flag
          /\ wmtq' = wmtq \/ wmtq' = Append(wmtq, cur)
      BY <1>11, <2>4 DEF PsmdNotify
    <3>2. ~Answered' /\ AnswersUp'
      BY <2>1, <3>1 DEF AnswersUp, OneAnswer, Answered
    <3>3. OneOp(wmtq') /\ AsksAll(wmtq')
      BY <2>1, <2>2, <3>1, QueueGrows DEF NoneAtWmtd, NoOps, OneOp, AsksAll
    <3>4. OpsUp'
      BY <1>1, <2>1, <3>2, <3>3
      DEF OpsUp, OneOp, AsksAll, Asks, NoneAtWmtd
    <3>5. ChipUp'
      BY <1>1, <2>1, <3>1 DEF Up, ChipUp, Asleep
    <3> QED BY <2>1, <3>2, <3>4, <3>5 DEF Up, NotifyUp, WokenUp
  <2> QED BY <2>3, <2>4
<1>12. CASE PsmdSeesWakeup
  <2>1. "WAKEUP_EN" \in flag /\ NoneAtWmtd /\ ~Asleep
    BY <1>4, <1>12 DEF PsmdSeesWakeup, Answered, AnswerFlags, Up, ChipUp
  <2>2. flag' \cap AnswerFlags = {}
    BY <1>12, <2>1 DEF PsmdSeesWakeup, Up, AnswersUp, OneAnswer, AnswerFlags
  <2> QED BY <1>6, <1>12, <2>1, <2>2 DEF PsmdSeesWakeup, wmtVars
<1>13. CASE PsmdActive
  <2>1. NoneAtWmtd /\ ~Asleep /\ flag' \cap AnswerFlags = {}
    BY <1>13 DEF PsmdActive, Up, WokenUp, Answered
  <2> QED BY <1>6, <1>13, <2>1 DEF PsmdActive, PsmdDone, wmtVars
<1>14. CASE PsmdSeesSleep
  <2>1. "SLEEP_EN" \in flag /\ NoneAtWmtd
    BY <1>4, <1>14 DEF PsmdSeesSleep, Answered, AnswerFlags
  <2>2. flag' \cap AnswerFlags = {}
    BY <1>14, <2>1
    DEF PsmdSeesSleep, Block, Up, AnswersUp, OneAnswer, AnswerFlags
  <2> QED BY <1>6, <1>14, <2>1, <2>2 DEF PsmdSeesSleep, PsmdDone, wmtVars
<1>15. CASE PsmdSeesRollBack
  <2>1. "ROLL_BACK_EN" \in flag /\ NoneAtWmtd /\ ~Asleep
    BY <1>4, <1>15 DEF PsmdSeesRollBack, Answered, AnswerFlags, Up, ChipUp
  <2>2. flag' \subseteq (flag \ {"ROLL_BACK_EN"}) \cup {"BLOCK_DATA_EN"}
    BY <1>15 DEF PsmdSeesRollBack, Block
  <2>3. flag' \cap AnswerFlags = {}
    BY <2>1, <2>2 DEF Up, AnswersUp, OneAnswer, AnswerFlags
  <2> QED BY <1>6, <1>15, <2>1, <2>3 DEF PsmdSeesRollBack, PsmdDone, wmtVars
<1>16. CASE PsmdSeesReset \/ PsmdTimeout
  <2>1. UNCHANGED <<wmtq, state, flag>> /\ pcD' = "idle"
    BY <1>16 DEF PsmdSeesReset, PsmdTimeout, PsmdDone, psmVars, wmtVars
  <2>2. ~Answered
    BY <1>16 DEF PsmdSeesReset, PsmdTimeout, WaitFlags, Answered, AnswerFlags
  <2> QED BY <1>5, <2>1, <2>2
<1> QED
  BY <1>7, <1>8, <1>9, <1>10, <1>11, <1>12, <1>13, <1>14, <1>15, <1>16 DEF Psmd

\* wmtd's steps, while STP is up.
LEMMA UpWmtd ==
  ASSUME TypeInv, WireInv, Up, link = "up", Wmtd
  PROVE  Up'
<1>1. UNCHANGED <<state, pcD, cur>>
  BY DEF Wmtd, WmtdDrop, WmtdSend, WmtdDone, WmtdCmdDone, psmVars, psmdVars
<1>2. CASE WmtdDrop
  BY <1>2 DEF WmtdDrop
<1>3. CASE WmtdSend
  <2>1. /\ wmtq \in Seq(OpIds \cup {"CMD"}) /\ wmtq # <<>> /\ wmtq' = Tail(wmtq)
        /\ pcW = "idle" /\ flag' = flag
    BY <1>3 DEF WmtdSend, TypeInv, TypeOK, WmtType, psmVars
  <2>2. /\ NoOps(wmtq) => NoOps(wmtq') /\ Head(wmtq) \notin OpIds
        /\ OneOp(wmtq') /\ AsksAll(wmtq')
        /\ Head(wmtq) \in OpIds => Asks(Head(wmtq)) /\ NoOps(wmtq')
        /\ Head(wmtq) \notin OpIds /\ NoOps(wmtq') => NoOps(wmtq)
    BY <2>1, QueueShrinks DEF Up, OpsUp
  <2>3. /\ pcW' \in OpIds <=> Head(wmtq) \in OpIds
        /\ pcW' = "SLEEP" <=> Head(wmtq) = "SLEEP"
    BY <1>3, CommandIsNoOp, HeadTailProperties, <2>1 DEF WmtdSend, OpIds, Wake
  <2>4. NoneAtWmtd' <=> NoneAtWmtd
    BY <2>1, <2>2, <2>3, CommandIsNoOp DEF NoneAtWmtd, NoOps
  <2>5. AnswersUp' /\ (Answered' <=> Answered)
    BY <1>1, <2>1 DEF Up, AnswersUp, OneAnswer, Answered, Moving
  <2>6. OpsUp'
    <3>1. pcW' \in OpIds => Asks(pcW)' /\ NoOps(wmtq')
      BY <1>1, <2>2, <2>3 DEF Asks
    <3>2. ~NoneAtWmtd' => ~Answered' /\ pcD' \in {"idle", "got", "wait"}
      BY <1>1, <2>4, <2>5 DEF Up, OpsUp
    <3> QED BY <1>1, <2>2, <3>1, <3>2 DEF OpsUp, OneOp, AsksAll, Asks, NoOps
  <2>7. Asleep' => Asleep \/ Head(wmtq) = "SLEEP"
    BY <1>3, <2>3 DEF WmtdSend, Receives, Asleep
  <2>8. NotifyUp' /\ WokenUp'
    <3>1. pcD \in {"notify", "woken"} => NoneAtWmtd /\ ~Answered
      BY DEF Up, NotifyUp, WokenUp
    <3>2. pcD \in {"notify", "woken"} => Head(wmtq) # "SLEEP"
      BY <2>2, <3>1 DEF NoneAtWmtd, OpIds
    <3> QED BY <1>1, <2>4, <2>5, <2>7, <3>1, <3>2
          DEF Up, NotifyUp, WokenUp, Asks
  <2>9. ChipUp'
    <3>1. CASE Asleep
      BY <1>1, <2>1, <3>1 DEF Up, ChipUp
    <3>2. CASE Head(wmtq) = "SLEEP"
      <4>1. state = "ACT_INACT" /\ ~NoneAtWmtd
        BY <2>2, <3>2 DEF Asks, NoneAtWmtd, OpIds
      <4>2. ~Answered
        BY <4>1 DEF Up, OpsUp
      <4> QED BY <1>1, <2>1, <4>1, <4>2 DEF ChipUp, Answered, AnswerFlags
    <3> QED BY <2>7, <3>1, <3>2 DEF ChipUp
  <2> QED BY <2>5, <2>6, <2>8, <2>9 DEF Up
<1>4. CASE WmtdDone
  <2>1. /\ pcW \in OpIds /\ Asks(pcW) /\ NoOps(wmtq) /\ ~Answered
        /\ pcD \in {"idle", "got", "wait"}
    BY <1>4 DEF WmtdDone, Up, OpsUp, NoneAtWmtd
  <2>2. act \in OpIds /\ Asks(act) /\ (act = "SLEEP" <=> pcW = "SLEEP")
    BY <2>1 DEF WireInv, OpIds, Wake, Asks
  <2>3. flag' \cap AnswerFlags = {IF pcW = "SLEEP" THEN "SLEEP_EN" ELSE "WAKEUP_EN"}
    <3>1. flag \subseteq Flags /\ flag' = NotifyStp(act, flag)
      BY <1>4 DEF WmtdDone, TypeInv, TypeOK, PsmType
    <3> QED BY <2>1, <2>2, <3>1, NotifyAnswers DEF Answered
  <2>4. NoneAtWmtd'
    BY <1>4, <2>1, CommandIsNoOp DEF WmtdDone, NoneAtWmtd, NoOps
  <2>5. OpsUp'
    BY <2>4 DEF NoneAtWmtd, NoOps, OpsUp, OneOp, AsksAll
  <2>6. AnswersUp'
    BY <1>1, <2>1, <2>3 DEF AnswersUp, OneAnswer, Moving, Asks
  <2>7. ChipUp'
    <3>1. CASE pcW = "SLEEP"
      BY <1>1, <2>1, <2>3, <3>1 DEF ChipUp, Asks, AnswerFlags
    <3>2. CASE pcW # "SLEEP"
      BY <1>4, <3>2 DEF WmtdDone, ChipUp, Asleep
    <3> QED BY <3>1, <3>2
  <2> QED BY <1>1, <2>1, <2>5, <2>6, <2>7 DEF Up, NotifyUp, WokenUp
<1>5. CASE WmtdCmdDone
  <2>1. UNCHANGED <<flag, wmtq, chip>> /\ pcW = "CMD" /\ pcW' = "idle"
    BY <1>5 DEF WmtdCmdDone, psmVars, envVars
  <2>2. NoneAtWmtd' <=> NoneAtWmtd
    BY <2>1, CommandIsNoOp DEF NoneAtWmtd, NoOps
  <2>3. OpsUp'
    BY <1>1, <2>1, <2>2, CommandIsNoOp
    DEF Up, OpsUp, OneOp, AsksAll, Asks, Answered, NoOps
  <2> QED BY <1>1, <2>1, <2>2, <2>3
        DEF Up, AnswersUp, OneAnswer, Answered, Moving, NotifyUp, Asks,
            WokenUp, ChipUp, Asleep
<1> QED BY <1>2, <1>3, <1>4, <1>5 DEF Wmtd

\* Everyone else's steps, while STP stays up: they send wmtd nothing but
\* commands and never touch what psmd is told, nor put the chip to sleep.
LEMMA UpOthers ==
  ASSUME TypeInv, Up, link = "up", link' = "up", [Next]_vars, ~Psmd, ~Wmtd
  PROVE  Up'
<1>1. ASSUME UNCHANGED <<state, pcD, cur, pcW>>,
             flag' \cap AnswerFlags = flag \cap AnswerFlags,
             wmtq' \in {wmtq, Append(wmtq, "CMD")}, Asleep' => Asleep
      PROVE  Up'
  <2>1. wmtq \in Seq(OpIds \cup {"CMD"})
    BY DEF TypeInv, TypeOK, WmtType
  <2>2. /\ NoOps(wmtq) <=> NoOps(wmtq')
        /\ OneOp(wmtq) => OneOp(wmtq')
        /\ AsksAll(wmtq) => AsksAll(wmtq')
    <3>1. CASE wmtq' = wmtq
      BY <3>1 DEF NoOps, OneOp, AsksAll
    <3>2. CASE wmtq' = Append(wmtq, "CMD")
      BY <2>1, <3>2, QueueGrows, CommandIsNoOp
    <3> QED BY <1>1, <3>1, <3>2
  <2>3. NoneAtWmtd' <=> NoneAtWmtd
    BY <1>1, <2>2 DEF NoneAtWmtd, NoOps
  <2>4. AnswersUp' /\ (Answered' <=> Answered)
    BY <1>1 DEF Up, AnswersUp, OneAnswer, Answered, Moving
  <2>5. OpsUp'
    BY <1>1, <2>2, <2>3, <2>4 DEF Up, OpsUp, OneOp, AsksAll, Asks, NoOps
  <2>6. NotifyUp' /\ WokenUp'
    BY <1>1, <2>3, <2>4 DEF Up, NotifyUp, WokenUp, Asks
  <2>7. ChipUp'
    <3>1. /\ "WAKEUP_EN" \in flag' <=> "WAKEUP_EN" \in flag
          /\ "ROLL_BACK_EN" \in flag' <=> "ROLL_BACK_EN" \in flag
      BY <1>1 DEF AnswerFlags
    <3> QED BY <1>1, <3>1 DEF Up, ChipUp
  <2> QED BY <2>4, <2>5, <2>6, <2>7 DEF Up
<1>2. CASE SendDirect \/ SendHeld
  BY <1>1, <1>2 DEF SendDirect, SendHeld, psmdVars, wmtVars, envVars, Asleep
<1>3. CASE Density \/ IdleTimer
  <2>1. flag' \cap AnswerFlags = flag \cap AnswerFlags
    BY <1>3 DEF Density, IdleTimer, AnswerFlags
  <2> QED BY <1>1, <1>3, <2>1
        DEF Density, IdleTimer, psmdVars, wmtVars, envVars, Asleep
<1>4. CASE ChipRaise \/ ChipDies \/ CoreDump
  BY <1>1, <1>4
  DEF ChipRaise, ChipDies, CoreDump, psmVars, psmdVars, wmtVars, Asleep
<1>5. CASE Isr
  BY <1>1, <1>5 DEF Isr, psmdVars, envVars, Asleep
<1>6. CASE BeginDisable \/ BeginEnable
  <2>1. flag' \cap AnswerFlags = flag \cap AnswerFlags /\ UNCHANGED state
    BY <1>6 DEF BeginDisable, BeginEnable, ForceAwake, psmVars, AnswerFlags
  <2> QED BY <1>1, <1>6, <2>1
        DEF BeginDisable, BeginEnable, psmdVars, wmtVars, envVars, Asleep
<1>7. CASE DoWakeupPut \/ DisableDone \/ EnableSeesAct \/ PollExpires
  BY <1>1, <1>7
  DEF DoWakeupPut, DisableDone, EnableSeesAct, PollExpires, psmVars, psmdVars,
      wmtVars, envVars, Asleep
<1>8. CASE OpPut
  BY <1>1, <1>8 DEF OpPut, psmVars, psmdVars, envVars, Asleep
<1>9. CASE EnableDone
  <2>1. flag' \cap AnswerFlags = flag \cap AnswerFlags
    BY <1>9 DEF EnableDone, AnswerFlags
  <2> QED BY <1>1, <1>9, <2>1 DEF EnableDone, psmdVars, wmtVars, envVars, Asleep
<1>10. CASE ChipReset \/ SwReset \/ ResetState \/ BackUp
  BY <1>10 DEF ChipReset, SwReset, ResetState, BackUp
<1>11. CASE UNCHANGED vars
  BY <1>1, <1>11 DEF vars, psmVars, psmdVars, wmtVars, envVars, Asleep
<1> QED
  BY <1>2, <1>3, <1>4, <1>5, <1>6, <1>7, <1>8, <1>9, <1>10, <1>11
  DEF Next, Caller

\* A reset that has taken the chip through its power cycle finds nothing left
\* at wmtd, and no step before STP is up puts anything there.
LEMMA BringUpStep ==
  ASSUME TypeInv, BringUpInv, [Next]_vars
  PROVE  BringUpInv'
<1> SUFFICES ASSUME link' \in {"starting", "init"}
             PROVE  /\ pcW' = "idle" /\ NoOps(wmtq') /\ ~Asleep'
                    /\ "WAKEUP_EN" \notin flag' /\ OneAnswer'
                    /\ Answered' => pcD' = "wait"
  BY DEF BringUpInv
<1> DEFINE Goal == /\ pcW' = "idle" /\ NoOps(wmtq') /\ ~Asleep'
                   /\ "WAKEUP_EN" \notin flag' /\ OneAnswer'
                   /\ Answered' => pcD' = "wait"
<1>1. CASE SwReset
  <2>1. NoOps(<<>>)
    BY DEF NoOps
  <2> QED BY <1>1, <2>1
        DEF SwReset, ResetQueue, wmtVars, Asleep, OneAnswer, Answered, AnswerFlags
<1>2. CASE ~SwReset
  <2>1. ~ChipReset /\ ~BackUp
    BY DEF ChipReset, BackUp
  <2>2. link \in {"starting", "init"}
    <3>1. CASE ResetState
      BY <3>1 DEF ResetState
    <3>2. CASE ~ResetState
      BY <1>2, <2>1, <3>2
      DEF Next, SendDirect, SendHeld, Density, IdleTimer, Psmd, PsmdGet,
          PsmdSkip, PsmdMaySleep, PsmdSleep, PsmdWakeUp, PsmdNotify,
          PsmdSeesWakeup, PsmdActive, PsmdSeesSleep, PsmdSeesRollBack,
          PsmdSeesReset, PsmdTimeout, Wmtd, WmtdDrop, WmtdSend, WmtdDone,
          WmtdCmdDone, ChipRaise, Isr, ChipDies, CoreDump, BeginDisable,
          BeginEnable, Caller, DoWakeupPut, DisableDone, OpPut, EnableSeesAct,
          EnableDone, PollExpires, vars, envVars
    <3> QED BY <3>1, <3>2
  <2>3. /\ pcW = "idle" /\ NoOps(wmtq) /\ ~Asleep
        /\ "WAKEUP_EN" \notin flag /\ OneAnswer
        /\ Answered => pcD = "wait"
    BY <2>2 DEF BringUpInv
  <2> HIDE DEF Goal
  <2>4. SUFFICES Goal
    BY DEF Goal
  <2>5. ASSUME UNCHANGED <<pcW, wmtq>>, ~Asleep',
               flag' \cap AnswerFlags = {} \/ pcD' = "wait",
               flag' \cap AnswerFlags \subseteq flag \cap AnswerFlags
        PROVE  Goal
    <3>1. NoOps(wmtq')
      BY <2>3, <2>5
    <3>2. OneAnswer' /\ "WAKEUP_EN" \notin flag'
      BY <2>3, <2>5 DEF OneAnswer, AnswerFlags
    <3> QED BY <2>3, <2>5, <3>1, <3>2 DEF Goal, Answered
  <2>6. ASSUME UNCHANGED <<pcW, wmtq, pcD>>, ~Asleep',
               flag' \cap AnswerFlags = flag \cap AnswerFlags
        PROVE  Goal
    BY <2>3, <2>5, <2>6 DEF Answered
  <2>7. CASE Psmd
    <3>1. UNCHANGED pcW /\ ~Asleep'
      BY <2>3, <2>7
      DEF Psmd, PsmdGet, PsmdSkip, PsmdMaySleep, PsmdSleep, PsmdWakeUp,
          PsmdNotify, PsmdSeesWakeup, PsmdActive, PsmdSeesSleep,
          PsmdSeesRollBack, PsmdSeesReset, PsmdTimeout, envVars, wmtVars, Asleep
    <3>2. CASE PsmdNotify
      <4>1. ~Answered /\ flag \subseteq Flags /\ pcD' = "wait"
        BY <2>3, <3>2 DEF PsmdNotify, TypeInv, TypeOK, PsmType
      <4>2. /\ wmtq' = wmtq
            /\ flag' = NotifyStp("SLEEP", flag) \/ flag' = NotifyStp("ROLL_BACK", flag)
        BY <2>2, <3>2 DEF PsmdNotify
      <4>3. \/ flag' \cap AnswerFlags \subseteq {"SLEEP_EN"}
            \/ flag' \cap AnswerFlags \subseteq {"ROLL_BACK_EN"}
        BY <4>1, <4>2 DEF NotifyStp, Answered, AnswerFlags, Wake
      <4>4. OneAnswer' /\ "WAKEUP_EN" \notin flag'
        BY <4>3 DEF OneAnswer, AnswerFlags
      <4>5. NoOps(wmtq')
        BY <2>3, <4>2
      <4> QED BY <2>3, <3>1, <4>1, <4>4, <4>5 DEF Goal
    <3>3. CASE PsmdGet \/ PsmdSkip \/ PsmdMaySleep \/ PsmdSleep \/ PsmdWakeUp
      <4>1. ~Answered /\ UNCHANGED wmtq
        BY <2>3, <3>3
        DEF PsmdGet, PsmdSkip, PsmdMaySleep, PsmdSleep, PsmdWakeUp, wmtVars
      <4>2. flag' \cap AnswerFlags = {}
        BY <3>3, <4>1
        DEF PsmdGet, PsmdSkip, PsmdMaySleep, PsmdSleep, PsmdWakeUp, Block,
            psmVars, Answered, AnswerFlags
      <4> QED BY <2>5, <3>1, <4>1, <4>2
    <3>4. CASE PsmdSeesWakeup
      BY <2>3, <3>4 DEF PsmdSeesWakeup
    <3>5. CASE PsmdActive
      <4>1. ~Answered /\ UNCHANGED <<wmtq, flag>>
        BY <2>3, <3>5 DEF PsmdActive, wmtVars
      <4> QED BY <2>5, <3>1, <4>1 DEF Answered
    <3>6. CASE PsmdSeesSleep \/ PsmdSeesRollBack
      <4>1. PICK f \in flag \cap AnswerFlags :
              flag' \subseteq (flag \ {f}) \cup {"BLOCK_DATA_EN"}
        <5>1. CASE PsmdSeesSleep
          BY <5>1 DEF PsmdSeesSleep, Block, AnswerFlags
        <5>2. CASE PsmdSeesRollBack
          <6>1. "ROLL_BACK_EN" \in flag \cap AnswerFlags
            BY <5>2 DEF PsmdSeesRollBack, AnswerFlags
          <6>2. flag' \subseteq (flag \ {"ROLL_BACK_EN"}) \cup {"BLOCK_DATA_EN"}
            BY <5>2 DEF PsmdSeesRollBack, Block
          <6> QED BY <6>1, <6>2
        <5> QED BY <3>6, <5>1, <5>2
      <4>2. flag' \cap AnswerFlags = {}
        BY <2>3, <4>1 DEF OneAnswer, AnswerFlags
      <4>3. UNCHANGED wmtq
        BY <3>6 DEF PsmdSeesSleep, PsmdSeesRollBack, wmtVars
      <4> QED BY <2>5, <3>1, <4>2, <4>3
    <3>7. CASE PsmdSeesReset \/ PsmdTimeout
      <4>1. ~Answered /\ UNCHANGED <<wmtq, flag>>
        BY <3>7
        DEF PsmdSeesReset, PsmdTimeout, WaitFlags, Answered, AnswerFlags,
            psmVars, wmtVars
      <4> QED BY <2>5, <3>1, <4>1 DEF Answered
    <3> QED
      BY <2>7, <3>2, <3>3, <3>4, <3>5, <3>6, <3>7 DEF Psmd
  <2>8. CASE WmtdDrop
    <3>1. wmtq \in Seq(OpIds \cup {"CMD"}) /\ wmtq # <<>> /\ wmtq' = Tail(wmtq)
      BY <2>8 DEF WmtdDrop, TypeInv, TypeOK, WmtType
    <3>2. NoOps(wmtq')
      BY <2>3, <3>1, QueueShrinks
    <3> QED BY <2>3, <2>8, <3>2
          DEF WmtdDrop, Goal, psmVars, psmdVars, envVars, Asleep, OneAnswer, Answered
  <2>9. CASE WmtdSend \/ WmtdDone \/ WmtdCmdDone
    BY <2>2, <2>3, <2>9, CommandIsNoOp DEF WmtdSend, WmtdDone, WmtdCmdDone
  <2>10. CASE SendDirect \/ SendHeld \/ Density \/ CoreDump \/ ChipRaise \/ Isr
    BY <2>2, <2>3, <2>10
    DEF SendDirect, SendHeld, Density, CoreDump, ChipRaise, Isr, Asleep
  <2>11. CASE IdleTimer \/ EnableDone
    <3>1. flag' \cap AnswerFlags = flag \cap AnswerFlags
      BY <2>11 DEF IdleTimer, EnableDone, AnswerFlags
    <3> QED BY <2>3, <2>6, <2>11, <3>1
          DEF IdleTimer, EnableDone, psmdVars, wmtVars, envVars, Asleep
  <2>12. CASE ChipDies
    BY <2>6, <2>12 DEF ChipDies, psmVars, psmdVars, wmtVars, Asleep
  <2>13. CASE BeginDisable \/ BeginEnable
    BY <2>2, <2>3, <2>6, <2>13
    DEF BeginDisable, BeginEnable, psmVars, psmdVars, wmtVars, envVars, Asleep
  <2>14. CASE DoWakeupPut \/ DisableDone \/ EnableSeesAct \/ PollExpires
    BY <2>3, <2>6, <2>14
    DEF DoWakeupPut, DisableDone, EnableSeesAct, PollExpires, psmVars,
        psmdVars, wmtVars, envVars, Asleep
  <2>15. CASE OpPut
    <3>1. wmtq \in Seq(OpIds \cup {"CMD"})
      BY DEF TypeInv, TypeOK, WmtType
    <3>2. NoOps(Append(wmtq, "CMD"))
      BY <2>3, <3>1, QueueGrows, CommandIsNoOp
    <3>3. NoOps(wmtq')
      BY <2>3, <2>15, <3>2 DEF OpPut
    <3> QED BY <2>3, <2>15, <3>3
          DEF OpPut, Goal, psmVars, psmdVars, envVars, Asleep, OneAnswer, Answered
  <2>16. CASE ResetState
    <3>1. flag' \cap AnswerFlags = flag \cap AnswerFlags
      BY <2>16 DEF ResetState, AnswerFlags
    <3> QED BY <2>3, <2>6, <2>16, <3>1 DEF ResetState, psmdVars, wmtVars, Asleep
  <2>17. CASE UNCHANGED vars
    BY <2>3, <2>6, <2>17 DEF vars, psmVars, psmdVars, wmtVars, envVars, Asleep
  <2> QED
    BY <1>2, <2>1, <2>7, <2>8, <2>9, <2>10, <2>11, <2>12, <2>13, <2>14, <2>15,
       <2>16, <2>17
    DEF Next, Wmtd, Caller
<1> QED BY <1>1, <1>2 DEF Goal

\* wmtd keeps answering what it was given.
LEMMA WireStep ==
  ASSUME TypeInv, WireInv, [Next]_vars
  PROVE  WireInv'
<1>1. ASSUME UNCHANGED <<pcW, act>> PROVE WireInv'
  BY <1>1 DEF WireInv
<1>2. CASE WmtdSend
  BY <1>2 DEF WmtdSend, WireInv, Wake
<1>3. CASE WmtdDone \/ WmtdCmdDone
  BY <1>3 DEF WmtdDone, WmtdCmdDone, WireInv, Wake
<1>4. CASE Psmd
  BY <1>1, <1>4
  DEF Psmd, PsmdGet, PsmdSkip, PsmdMaySleep, PsmdSleep, PsmdWakeUp, PsmdNotify,
      PsmdSeesWakeup, PsmdActive, PsmdSeesSleep, PsmdSeesRollBack,
      PsmdSeesReset, PsmdTimeout, wmtVars
<1>5. CASE ~Psmd /\ ~WmtdSend /\ ~WmtdDone /\ ~WmtdCmdDone
  BY <1>1, <1>5
  DEF Next, SendDirect, SendHeld, Density, IdleTimer, Wmtd, WmtdDrop,
      ChipRaise, Isr, ChipDies, CoreDump, BeginDisable, BeginEnable, Caller,
      DoWakeupPut, DisableDone, OpPut, EnableSeesAct, EnableDone, PollExpires,
      ChipReset, SwReset, ResetState, BackUp, vars, wmtVars
<1> QED BY <1>2, <1>3, <1>4, <1>5

\* psmd leaves ACT for a SLEEP only, and nothing but a reset, which sets ACT,
\* comes between its test and its step.
LEMMA LeavingStep ==
  ASSUME TypeInv, LeavingInv, [Next]_vars
  PROVE  LeavingInv'
<1>1. ASSUME UNCHANGED <<pcD, cur>>, state' \in {state, "ACT"} PROVE LeavingInv'
  BY <1>1 DEF LeavingInv
<1>2. CASE PsmdMaySleep
  BY <1>2 DEF PsmdMaySleep, psmVars, LeavingInv
<1>3. CASE Psmd /\ ~PsmdMaySleep
  BY <1>3
  DEF Psmd, PsmdDone, PsmdGet, PsmdSkip, PsmdSleep, PsmdWakeUp, PsmdNotify,
      PsmdSeesWakeup, PsmdActive, PsmdSeesSleep, PsmdSeesRollBack,
      PsmdSeesReset, PsmdTimeout, LeavingInv
<1>4. CASE ~Psmd
  BY <1>1, <1>4
  DEF Next, SendDirect, SendHeld, Density, IdleTimer, Wmtd, WmtdDrop, WmtdSend,
      WmtdDone, WmtdCmdDone, ChipRaise, Isr, ChipDies, CoreDump, BeginDisable,
      BeginEnable, ForceAwake, Caller, DoWakeupPut, DisableDone, OpPut,
      EnableSeesAct, EnableDone, PollExpires, ChipReset, SwReset, ResetQueue,
      ResetState, BackUp, vars, psmVars, psmdVars
<1> QED BY <1>2, <1>3, <1>4

\* STP comes up with everything in order, and stays so until the next reset.
LEMMA UpStep ==
  ASSUME TypeInv, SleepInv, [Next]_vars, link' = "up"
  PROVE  Up'
<1>1. CASE BackUp
  <2>1. /\ pcW = "idle" /\ NoOps(wmtq) /\ ~Asleep /\ OneAnswer
        /\ "WAKEUP_EN" \notin flag
        /\ Answered => pcD = "wait"
    BY <1>1 DEF BackUp, SleepInv, BringUpInv
  <2>2. UNCHANGED <<pcW, wmtq, chip, flag, pcD>> /\ pcD \in {"idle", "wait"}
    BY <1>1 DEF BackUp, psmVars, psmdVars, wmtVars
  <2>3. NoneAtWmtd'
    BY <2>1, <2>2, CommandIsNoOp DEF NoneAtWmtd, NoOps
  <2>4. OpsUp'
    BY <2>3 DEF NoneAtWmtd, NoOps, OpsUp, OneOp, AsksAll
  <2>5. AnswersUp' /\ ~Asleep'
    BY <2>1, <2>2 DEF AnswersUp, OneAnswer, Answered, Asleep
  <2> QED BY <2>2, <2>4, <2>5 DEF Up, NotifyUp, WokenUp, ChipUp
<1>2. CASE ~BackUp
  <2>1. ~ChipReset /\ ~SwReset /\ ~ResetState
    BY DEF ChipReset, SwReset, ResetState
  <2>2. link = "up"
    BY <1>2, <2>1
    DEF Next, SendDirect, SendHeld, Density, IdleTimer, Psmd, PsmdGet,
        PsmdSkip, PsmdMaySleep, PsmdSleep, PsmdWakeUp, PsmdNotify,
        PsmdSeesWakeup, PsmdActive, PsmdSeesSleep, PsmdSeesRollBack,
        PsmdSeesReset, PsmdTimeout, Wmtd, WmtdDrop, WmtdSend, WmtdDone,
        WmtdCmdDone, ChipRaise, Isr, ChipDies, CoreDump, BeginDisable,
        BeginEnable, Caller, DoWakeupPut, DisableDone, OpPut, EnableSeesAct,
        EnableDone, PollExpires, vars, envVars
  <2>3. Up /\ WireInv /\ LeavingInv
    BY <2>2 DEF SleepInv
  <2> QED BY <2>2, <2>3, UpPsmd, UpWmtd, UpOthers
<1> QED BY <1>1, <1>2

\* The invariant about the sleeping chip holds through resets.
LEMMA SleepInvariant == Spec => []SleepInv
<1>1. Init => SleepInv
  <2> SUFFICES ASSUME Init PROVE SleepInv
    OBVIOUS
  <2>1. NoOps(<<>>) /\ OneOp(<<>>) /\ AsksAll(<<>>)
    BY DEF NoOps, OneOp, AsksAll
  <2>2. AnswersUp /\ NotifyUp /\ WokenUp /\ ChipUp
    BY DEF Init, AnswersUp, OneAnswer, Answered, AnswerFlags, NotifyUp, WokenUp,
           ChipUp, Asleep
  <2>3. OpsUp
    BY <2>1, CommandIsNoOp DEF Init, OpsUp, NoneAtWmtd
  <2>4. WireInv /\ LeavingInv /\ BringUpInv
    BY DEF Init, WireInv, Wake, LeavingInv, BringUpInv
  <2> QED BY <2>2, <2>3, <2>4 DEF SleepInv, Up
<1>2. TypeInv /\ SleepInv /\ [Next]_vars => SleepInv'
  BY WireStep, LeavingStep, BringUpStep, UpStep DEF SleepInv
<1> QED BY <1>1, <1>2, TypeInvariant, PTL DEF Spec

\* Nothing goes to the wire while STP is down.
LEMMA ReleaseDown ==
  ASSUME TypeInv, Release, link # "up"
  PROVE  wire' = wire
<1>1. SubSeq(fifo, 1, 0) = <<>>
  BY SubSeqEmpty DEF TypeInv, TypeOK, PsmType
<1>2. wire \o <<>> = wire
  BY ConcatEmptySeq DEF TypeInv, TypeOK, TxType
<1> QED BY <1>1, <1>2 DEF Release

\* Whatever puts data on the wire finds the chip awake, or dead.
LEMMA WireStepAwake ==
  ASSUME TypeInv, BlockInv, SleepInv, [Next]_vars, wire' # wire
  PROVE  chip \in {"awake", "dead"}
<1>1. SUFFICES ASSUME Asleep PROVE FALSE
  BY DEF Asleep, TypeInv, TypeOK, EnvType
<1>2. link = "up" => state # "ACT" /\ flag \cap {"WAKEUP_EN", "ROLL_BACK_EN"} = {}
  BY <1>1 DEF SleepInv, Up, ChipUp
<1>3. Release => link = "up"
  BY ReleaseDown
<1>4. ~SendDirect
  BY <1>2 DEF SendDirect, BlockInv, PsmLockFree
<1>5. ~PsmdSkip
  BY <1>2, <1>3 DEF PsmdSkip
<1>6. ~PsmdSleep
  BY <1>2, <1>3 DEF PsmdSleep, SleepInv, LeavingInv
<1>7. ~PsmdSeesWakeup
  BY <1>2, <1>3 DEF PsmdSeesWakeup
<1>8. ~PsmdSeesRollBack
  BY <1>2, <1>3 DEF PsmdSeesRollBack
<1> QED
  BY <1>4, <1>5, <1>6, <1>7, <1>8
  DEF Next, SendHeld, Density, IdleTimer, Psmd, PsmdGet, PsmdMaySleep,
      PsmdWakeUp, PsmdNotify, PsmdActive, PsmdSeesSleep, PsmdSeesReset,
      PsmdTimeout, Wmtd, WmtdDrop, WmtdSend, WmtdDone, WmtdCmdDone, ChipRaise,
      Isr, ChipDies, CoreDump, BeginDisable, BeginEnable, Caller, DoWakeupPut,
      DisableDone, OpPut, EnableSeesAct, EnableDone, PollExpires, ChipReset,
      SwReset, ResetState, BackUp, vars, txVars

\* No data packet, sent directly or released from the FIFO, reaches a chip that
\* sleeps or waits for its wake exchange: with lost answers, and through any
\* number of resets.
THEOREM SleepUndisturbed == Spec => NoDataToSleepingChip
<1>1. Init => BlockInv
  BY DEF Init, BlockInv
<1>2. TypeInv /\ BlockInv /\ SleepInv /\ [Next]_vars
      => [wire' # wire => chip \in {"awake", "dead"}]_vars
  BY WireStepAwake
<1> QED
  BY <1>1, <1>2, TypeInvariant, BlockStep, SleepInvariant, PTL
  DEF Spec, NoDataToSleepingChip

=============================================================================
