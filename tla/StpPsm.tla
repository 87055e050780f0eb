------------------------------- MODULE StpPsm -------------------------------
(***************************************************************************)
(* STP power-save management (conn_soc/core/psm_core.c): the psmd thread,  *)
(* its operation queue, the four-state machine, the FIFO that holds host   *)
(* data while the chip sleeps, and everything that runs against it: the    *)
(* transmit path of stp_core.c, the idle timer, the BGF wake interrupt,    *)
(* wmtd answering PWR_SV operations, the WMT callers that force the chip   *)
(* awake, and the whole-chip reset.  The firmware is external.             *)
(***************************************************************************)
EXTENDS Naturals, Sequences

CONSTANTS
  MaxPkt,      \* bound: packets the function drivers write
  FifoMax,     \* packets the hold FIFO takes (8 KiB in the code)
  ReleaseMax,  \* packets one _stp_psm_release_data() call sends (20)
  WakeTries,   \* attempts of _stp_psm_do_wakeup() (10)
  MaxJob,      \* bound: psm_disable()/psm_enable() calls
  MaxReset,    \* bound: whole-chip resets
  MaxWake,     \* bound: wake requests the chip raises on its own
  MaxDeath,    \* bound: firmware crashes (0 or 1)
  QuickPs,     \* stp_psm_is_quick_ps_support()
  Timeouts,    \* the 6 s PSM wait may expire although an answer will come
  FullWindow   \* the STP window may be full while held data is released

ASSUME StpPsmAssumption ==
  /\ MaxPkt \in Nat /\ MaxJob \in Nat /\ MaxReset \in Nat
  /\ MaxWake \in Nat /\ MaxDeath \in Nat
  /\ FifoMax \in Nat \ {0} /\ ReleaseMax \in Nat \ {0} /\ WakeTries \in Nat \ {0}
  /\ QuickPs \in BOOLEAN /\ Timeouts \in BOOLEAN /\ FullWindow \in BOOLEAN

VARIABLES
  state,     \* work_state
  flag,      \* set of the bits of stp_psm->flag
  last,      \* last_active_opId
  q,         \* rActiveOpQ, as the op ids it holds
  spin,      \* wq_spinlock: "stuck" once the clean-up loop never ends
  timer,     \* psm_timer is pending
  fifo,      \* hold_fifo
  wakelock,  \* the "MT662x" wakeup source is active
  sleepEn,   \* sleep_en
  pcD, cur,  \* psmd: where it is, and the op it executes
  wmtq,      \* wmtd's rActiveOpQ: PWR_SV actions and "CMD", an ordinary op
  pcW, act,  \* wmtd: what it puts on the wire, and au4OpData[0] of its op
  eint,      \* the BGF interrupt is enabled (gbgfIrqBle.counter)
  wakeReq,   \* gPsChipWakeReq
  chip,      \* external: the firmware
  link,      \* STP: "up" (ready), and the stages of a whole-chip reset
  coredump,  \* mtk_wcn_stp_coredump_start_get()
  pcP, job,  \* the thread inside psm_disable()/psm_enable(), and for whom
  tries,     \* attempts left of do_wakeup()
  next,      \* the packet a driver writes next
  wire,      \* history: packets handed to the transport
  nJob, nReset, nWake, nDeath

psmVars == <<state, flag, last, q, spin, timer, fifo, wakelock, sleepEn>>
psmdVars == <<pcD, cur>>
wmtVars == <<wmtq, pcW, act, eint, wakeReq>>
envVars == <<chip, link, coredump, nReset, nWake, nDeath>>
jobVars == <<pcP, job, tries, nJob>>
txVars == <<next, wire>>
vars == <<psmVars, psmdVars, wmtVars, envVars, jobVars, txVars>>

States == {"ACT", "ACT_INACT", "INACT", "INACT_ACT"}
Wake == {"WAKEUP", "HOST_AWAKE"}
OpIds == Wake \cup {"SLEEP"}
Flags == {"SLEEP_EN", "WAKEUP_EN", "ROLL_BACK_EN", "RESET_EN",
          "BLOCK_DATA_EN", "DISABLE_MONITOR", "TX_HIGH_DENSITY"}
WaitFlags == {"SLEEP_EN", "WAKEUP_EN", "ROLL_BACK_EN", "RESET_EN"}

PsmType ==
  /\ state \in States /\ flag \subseteq Flags
  /\ last \in OpIds \cup {"INVALID"} /\ q \in Seq(OpIds)
  /\ spin \in {"free", "stuck"} /\ fifo \in Seq(1..MaxPkt)
  /\ timer \in BOOLEAN /\ wakelock \in BOOLEAN /\ sleepEn \in BOOLEAN
PsmdType ==
  /\ pcD \in {"idle", "got", "sleep", "notify", "wait", "woken"}
  /\ cur \in OpIds \cup {"none"}
WmtType ==
  /\ wmtq \in Seq(OpIds \cup {"CMD"}) /\ pcW \in OpIds \cup {"idle", "CMD"}
  /\ act \in OpIds \cup {"none"} /\ eint \in BOOLEAN /\ wakeReq \in BOOLEAN
EnvType ==
  /\ chip \in {"awake", "asleep", "woken", "dead"} /\ coredump \in BOOLEAN
  /\ link \in {"up", "closing", "down", "starting", "init"}
  /\ nReset \in 0..MaxReset /\ nWake \in 0..MaxWake /\ nDeath \in 0..MaxDeath
JobType ==
  /\ pcP \in {"idle", "disput", "dispoll", "opput", "op", "held",
              "enput", "enpoll", "enable"}
  /\ job \in {"op", "hold"} /\ tries \in 0..WakeTries /\ nJob \in 0..MaxJob
TxType == next \in 1..MaxPkt + 1 /\ wire \in Seq(1..MaxPkt)

TypeOK == PsmType /\ PsmdType /\ WmtType /\ EnvType /\ JobType /\ TxType

(***************************************************************************)
(* stp_psm_init() has run, with the disable it ends in, and the chip has   *)
(* been brought up: monitor off, state ACT.                                *)
(***************************************************************************)
Init ==
  /\ state = "ACT" /\ flag = {"DISABLE_MONITOR"} /\ last = "WAKEUP"
  /\ q = <<>> /\ spin = "free" /\ timer = FALSE /\ fifo = <<>>
  /\ wakelock = FALSE /\ sleepEn = TRUE
  /\ pcD = "idle" /\ cur = "none"
  /\ wmtq = <<>> /\ pcW = "idle" /\ act = "none"
  /\ eint = TRUE /\ wakeReq = FALSE
  /\ chip = "awake" /\ link = "up" /\ coredump = FALSE
  /\ pcP = "idle" /\ job = "op" /\ tries = 0
  /\ next = 1 /\ wire = <<>>
  /\ nJob = 0 /\ nReset = 0 /\ nWake = 0 /\ nDeath = 0

-----------------------------------------------------------------------------
(* The operation queue. *)

SameKind(a, b) == (a = "SLEEP") = (b = "SLEEP")

\* Variant: only an identical op is redundant.
IsRedundantExact(op) ==
  last # "INVALID" /\ op = (IF q = <<>> THEN last ELSE q[Len(q)])

IsRedundant(op) ==
  /\ last # "INVALID"
  /\ SameKind(op, IF q = <<>> THEN last ELSE q[Len(q)])

\* No branch of the clean-up loop shortens a queue that ends in a WAKEUP and
\* a HOST_AWAKE, in either order: the loop spins with wq_spinlock held.
CleanUpSpins(s) ==
  LET n == Len(s) IN n > 2 /\ SameKind(s[n], s[n - 1]) /\ s[n] # s[n - 1]

\* The loop drops from the front: two ops while the last two alternate, one
\* while they are equal, until at most two are left.
CleanUp(s) ==
  LET n == Len(s)
      keep == CASE n <= 2 -> n
                [] n > 2 /\ SameKind(s[n], s[n - 1]) -> 2
                [] OTHER -> IF n % 2 = 0 THEN 2 ELSE 1
  IN SubSeq(s, n - keep + 1, n)

\* _stp_psm_put_act_op() of a new op (pool ownership: module StpPsmOps).
PutAct(op) ==
  /\ spin = "free"
  /\ IF IsRedundant(op)
       THEN UNCHANGED <<q, spin>>
       ELSE IF CleanUpSpins(Append(q, op))
              THEN q' = Append(q, op) /\ spin' = "stuck"
              ELSE q' = CleanUp(Append(q, op)) /\ UNCHANGED spin

\* _stp_psm_notify_wmt_sleep_wq()
PutSleepUnlessDisabled(f) ==
  IF f \cap {"TX_HIGH_DENSITY", "DISABLE_MONITOR"} = {}
    THEN PutAct("SLEEP") ELSE UNCHANGED <<q, spin>>

-----------------------------------------------------------------------------
(* Small helpers of the state machine. *)

\* Variant: the monitor is not restarted.
StartMonitorForgotten(f) == timer

StartMonitor(f) == IF "DISABLE_MONITOR" \in f THEN timer ELSE TRUE

\* Variant: the state changes and data is not blocked.
BlockForgotten(f) == f

\* _stp_psm_set_state(): leaving ACT blocks data.
Block(f) == f \cup {"BLOCK_DATA_EN"}

\* What one _stp_psm_release_data() call takes out of the FIFO.
Released == IF Len(fifo) < ReleaseMax THEN Len(fifo) ELSE ReleaseMax

\* Mutant: packets are sent and stay in the FIFO.
ReleaseKeeps ==
  /\ UNCHANGED fifo
  /\ wire' = wire \o SubSeq(fifo, 1, Released)

\* _stp_psm_release_data(): at most ReleaseMax packets leave the FIFO; the
\* result of stp_send_data_no_ps() is ignored, so those it refuses are lost.
Release ==
  /\ fifo' = SubSeq(fifo, Released + 1, Len(fifo))
  /\ \E n \in IF link # "up" THEN {0}
              ELSE IF FullWindow THEN 0..Released ELSE {Released} :
       wire' = wire \o SubSeq(fifo, 1, n)

\* Variant: HOST_AWAKE is not taken for an answer.
NotifyStpWakeupOnly(a, f) ==
  CASE state = "ACT_INACT" /\ a = "SLEEP" -> (f \ {"WAKEUP_EN"}) \cup {"SLEEP_EN"}
    [] state = "INACT_ACT" /\ a = "WAKEUP" -> (f \ {"SLEEP_EN"}) \cup {"WAKEUP_EN"}
    [] state \in {"ACT_INACT", "INACT_ACT"} /\ a = "ROLL_BACK" ->
         f \cup {"ROLL_BACK_EN"}
    [] OTHER -> f

\* _stp_psm_notify_stp() for the actions that answer psmd.
NotifyStp(a, f) ==
  CASE state = "ACT_INACT" /\ a = "SLEEP" -> (f \ {"WAKEUP_EN"}) \cup {"SLEEP_EN"}
    [] state = "INACT_ACT" /\ a \in Wake -> (f \ {"SLEEP_EN"}) \cup {"WAKEUP_EN"}
    [] state \in {"ACT_INACT", "INACT_ACT"} /\ a = "ROLL_BACK" ->
         f \cup {"ROLL_BACK_EN"}
    [] OTHER -> f

\* stp_psm_lock: psmd holds it from _stp_psm_handler() until it is done.
PsmLockFree == pcD \in {"idle", "got"}

-----------------------------------------------------------------------------
(* Transmit path and idle timer. *)

\* mtk_wcn_stp_send_data(), not blocked: what is still held goes first.
SendDirect ==
  /\ next <= MaxPkt /\ link = "up" /\ ~coredump /\ PsmLockFree
  /\ "BLOCK_DATA_EN" \notin flag
  /\ fifo' = SubSeq(fifo, Released + 1, Len(fifo))
  /\ wire' = wire \o SubSeq(fifo, 1, Released) \o <<next>>
  /\ next' = next + 1
  /\ IF QuickPs
       THEN PutSleepUnlessDisabled(flag) /\ UNCHANGED timer
       ELSE timer' = StartMonitor(flag) /\ UNCHANGED <<q, spin>>
  /\ UNCHANGED <<state, flag, last, wakelock, sleepEn>>
  /\ UNCHANGED <<psmdVars, wmtVars, envVars, jobVars>>

\* mtk_wcn_stp_send_data(), blocked: hold the packet, dropping everything held
\* before when the FIFO is full, and ask for a wake-up.
SendHeld ==
  /\ next <= MaxPkt /\ link = "up" /\ ~coredump /\ PsmLockFree
  /\ "BLOCK_DATA_EN" \in flag
  /\ fifo' = IF Len(fifo) < FifoMax THEN Append(fifo, next) ELSE <<next>>
  /\ next' = next + 1
  /\ PutAct("WAKEUP")
  /\ UNCHANGED <<state, flag, last, timer, wakelock, sleepEn, wire>>
  /\ UNCHANGED <<psmdVars, wmtVars, envVars, jobVars>>

\* stp_psm_disable_by_tx_rx_density(): the sampled throughput is high or low.
Density ==
  /\ QuickPs /\ link = "up"
  /\ \/ /\ flag' = flag \cup {"TX_HIGH_DENSITY"}
        /\ timer' = StartMonitor(flag)
     \/ flag' = flag \ {"TX_HIGH_DENSITY"} /\ UNCHANGED timer
  /\ UNCHANGED <<state, last, q, spin, fifo, wakelock, sleepEn>>
  /\ UNCHANGED <<psmdVars, wmtVars, envVars, jobVars, txVars>>

\* _stp_psm_stp_is_idle()
IdleTimer ==
  /\ timer /\ timer' = FALSE
  /\ flag' = flag \ {"TX_HIGH_DENSITY"}
  /\ PutSleepUnlessDisabled(flag')
  /\ UNCHANGED <<state, last, fifo, wakelock, sleepEn>>
  /\ UNCHANGED <<psmdVars, wmtVars, envVars, jobVars, txVars>>

-----------------------------------------------------------------------------
(* psmd: _stp_psm_proc(), _stp_psm_handler(), _stp_psm_notify_wmt(). *)

PsmdGet ==
  /\ pcD = "idle" /\ spin = "free" /\ q # <<>>
  /\ flag' = flag \ {"RESET_EN"}
  /\ cur' = Head(q) /\ last' = Head(q) /\ q' = Tail(q)
  /\ pcD' = "got"
  /\ UNCHANGED <<state, spin, timer, fifo, wakelock, sleepEn>>
  /\ UNCHANGED <<wmtVars, envVars, jobVars, txVars>>

\* The cases in which the op needs nothing from the chip.
PsmdSkip ==
  /\ pcD = "got"
  /\ \/ /\ cur = "SLEEP"
        /\ ~sleepEn \/ state # "ACT" \/ "DISABLE_MONITOR" \in flag
        /\ UNCHANGED <<fifo, wire>>
     \/ cur \in Wake /\ state = "ACT" /\ Release
     \/ cur \in Wake /\ state \in {"ACT_INACT", "INACT_ACT"}
        /\ UNCHANGED <<fifo, wire>>
  /\ pcD' = "idle" /\ cur' = "none"
  /\ UNCHANGED <<state, flag, last, q, spin, timer, wakelock, sleepEn, next>>
  /\ UNCHANGED <<wmtVars, envVars, jobVars>>

\* SLEEP in ACT: the DISABLE_MONITOR test comes before the state change, and
\* nothing that sets the flag takes stp_psm_lock.
PsmdMaySleep ==
  /\ pcD = "got" /\ cur = "SLEEP" /\ sleepEn
  /\ state = "ACT" /\ "DISABLE_MONITOR" \notin flag
  /\ pcD' = "sleep"
  /\ UNCHANGED <<psmVars, cur, wmtVars, envVars, jobVars, txVars>>

PsmdSleep ==
  /\ pcD = "sleep"
  /\ state' = "ACT_INACT" /\ flag' = Block(flag)
  /\ Release
  /\ pcD' = "notify"
  /\ UNCHANGED <<last, q, spin, timer, wakelock, sleepEn, cur, next>>
  /\ UNCHANGED <<wmtVars, envVars, jobVars>>

PsmdWakeUp ==
  /\ pcD = "got" /\ cur \in Wake /\ state = "INACT"
  /\ state' = "INACT_ACT" /\ flag' = Block(flag) /\ wakelock' = TRUE
  /\ pcD' = "notify"
  /\ UNCHANGED <<last, q, spin, timer, fifo, sleepEn, cur>>
  /\ UNCHANGED <<wmtVars, envVars, jobVars, txVars>>

\* wmt_lib_ps_handler(): a PWR_SV op for wmtd, or an answer on the spot.
PsmdNotify ==
  /\ pcD = "notify" /\ pcD' = "wait"
  /\ IF coredump /\ cur = "SLEEP"
       THEN flag' = NotifyStp("SLEEP", flag) /\ UNCHANGED <<wmtq, eint>>
     ELSE IF link # "up"
       THEN flag' = NotifyStp("ROLL_BACK", flag) /\ UNCHANGED <<wmtq, eint>>
     ELSE /\ UNCHANGED flag
          /\ wmtq' = IF coredump THEN wmtq ELSE Append(wmtq, cur)
          /\ eint' = (eint /\ cur # "WAKEUP")
  /\ UNCHANGED <<state, last, q, spin, timer, fifo, wakelock, sleepEn>>
  /\ UNCHANGED <<cur, pcW, act, wakeReq, envVars, jobVars, txVars>>

PsmdDone == pcD' = "idle" /\ cur' = "none"

\* _stp_psm_wait_wmt_event_wq(), branch by branch in the code's order.
PsmdSeesWakeup ==
  /\ pcD = "wait" /\ "WAKEUP_EN" \in flag
  /\ Release
  /\ flag' = flag \ {"WAKEUP_EN", "BLOCK_DATA_EN"}
  /\ pcD' = "woken"
  /\ UNCHANGED <<state, last, q, spin, timer, wakelock, sleepEn, next, cur>>
  /\ UNCHANGED <<wmtVars, envVars, jobVars>>

\* The rest of that branch: data passes before the state says ACT.
PsmdActive ==
  /\ pcD = "woken" /\ state' = "ACT"
  /\ IF QuickPs
       THEN PutSleepUnlessDisabled(flag) /\ UNCHANGED timer
       ELSE timer' = StartMonitor(flag) /\ UNCHANGED <<q, spin>>
  /\ PsmdDone
  /\ UNCHANGED <<flag, last, fifo, wakelock, sleepEn, txVars>>
  /\ UNCHANGED <<wmtVars, envVars, jobVars>>

PsmdSeesSleep ==
  /\ pcD = "wait" /\ "WAKEUP_EN" \notin flag /\ "SLEEP_EN" \in flag
  /\ flag' = Block(flag \ {"SLEEP_EN"})
  /\ state' = "INACT" /\ wakelock' = FALSE
  /\ PsmdDone
  /\ UNCHANGED <<last, q, spin, timer, fifo, sleepEn>>
  /\ UNCHANGED <<wmtVars, envVars, jobVars, txVars>>

PsmdSeesRollBack ==
  /\ pcD = "wait" /\ flag \cap {"WAKEUP_EN", "SLEEP_EN"} = {}
  /\ "ROLL_BACK_EN" \in flag
  /\ \/ /\ state = "ACT_INACT" /\ Release /\ state' = "ACT"
        /\ flag' = flag \ {"ROLL_BACK_EN", "BLOCK_DATA_EN"}
     \/ /\ state # "ACT_INACT"
        /\ IF state = "INACT_ACT"
             THEN state' = "INACT" /\ flag' = Block(flag \ {"ROLL_BACK_EN"})
             ELSE UNCHANGED state /\ flag' = flag \ {"ROLL_BACK_EN"}
        /\ UNCHANGED <<fifo, wire>>
  /\ PsmdDone
  /\ UNCHANGED <<last, q, spin, timer, wakelock, sleepEn, next>>
  /\ UNCHANGED <<wmtVars, envVars, jobVars>>

PsmdSeesReset ==
  /\ pcD = "wait" /\ flag \cap (WaitFlags \ {"RESET_EN"}) = {}
  /\ "RESET_EN" \in flag
  /\ PsmdDone
  /\ UNCHANGED <<psmVars, wmtVars, envVars, jobVars, txVars>>

\* No answer within STP_PSM_WAIT_EVENT_TIMEOUT: nothing but an error message.
NoAnswerComing == pcW \notin OpIds /\ \A i \in DOMAIN wmtq : wmtq[i] = "CMD"

PsmdTimeout ==
  /\ pcD = "wait" /\ flag \cap WaitFlags = {}
  /\ Timeouts \/ NoAnswerComing
  /\ PsmdDone
  /\ UNCHANGED <<psmVars, wmtVars, envVars, jobVars, txVars>>

Psmd ==
  \/ PsmdGet \/ PsmdSkip \/ PsmdMaySleep \/ PsmdSleep \/ PsmdWakeUp
  \/ PsmdNotify \/ PsmdSeesWakeup \/ PsmdSeesSleep \/ PsmdSeesRollBack
  \/ PsmdActive \/ PsmdSeesReset \/ PsmdTimeout

-----------------------------------------------------------------------------
(* wmtd executing its queue: wmtd_thread(), opfunc_pwr_sv(). *)

\* Variant: a masked interrupt is taken for one that fired.
ChipWakeReqMasked == wakeReq \/ ~eint

\* wmt_lib_ps_chip_wake_req(): the interrupt fired, or its line is asserted.
ChipWakeReq == wakeReq \/ chip = "woken"

\* While the whole chip resets, queued ops are answered -2 and not executed.
WmtdDrop ==
  /\ pcW = "idle" /\ wmtq # <<>> /\ link # "up"
  /\ wmtq' = Tail(wmtq)
  /\ UNCHANGED <<psmVars, psmdVars, pcW, act, eint, wakeReq>>
  /\ UNCHANGED <<envVars, jobVars, txVars>>

\* What a chip in state c does with command x: a sleeping chip answers the
\* WAKEUP pulse only, and dies (times out, asserts) on anything else.
Receives(c, x) ==
  CASE x = "SLEEP" -> IF c = "awake" THEN "asleep" ELSE "dead"
    [] x = "CMD" -> IF c = "awake" THEN "awake" ELSE "dead"
    [] x = "HOST_AWAKE" -> IF c = "asleep" THEN "dead" ELSE c
    [] OTHER -> c

\* The wake exchange is chosen when it is sent.
WmtdSend ==
  /\ pcW = "idle" /\ wmtq # <<>> /\ link = "up"
  /\ wmtq' = Tail(wmtq)
  /\ LET op == Head(wmtq)
     IN /\ act' = IF op = "CMD" THEN "none" ELSE op
        /\ pcW' = IF op \notin Wake THEN op
                  ELSE IF ChipWakeReq THEN "HOST_AWAKE" ELSE "WAKEUP"
  /\ chip' = Receives(chip, pcW')
  /\ UNCHANGED <<psmVars, psmdVars, eint, wakeReq>>
  /\ UNCHANGED <<link, coredump, nReset, nWake, nDeath, jobVars, txVars>>

\* wmt_core arms the wake interrupt when the chip has acknowledged the sleep.
ArmsInterrupt(x) == x = "SLEEP"

\* The event arrives, or the exchange failed: psm_cb() gets the queued action
\* either way.  The wake interrupt is armed by an acknowledged sleep.
WmtdDone ==
  /\ pcW \in OpIds /\ pcW' = "idle" /\ act' = "none"
  /\ flag' = NotifyStp(act, flag)
  /\ IF chip = "dead"
       THEN UNCHANGED <<chip, wakeReq, eint>>
       ELSE /\ wakeReq' = FALSE
            /\ IF ArmsInterrupt(pcW)
                 THEN eint' = TRUE
                 ELSE UNCHANGED eint
            /\ chip' = IF pcW = "SLEEP" THEN chip ELSE "awake"
  /\ UNCHANGED <<state, last, q, spin, timer, fifo, wakelock, sleepEn, wmtq>>
  /\ UNCHANGED <<psmdVars, link, coredump, nReset, nWake, nDeath, jobVars, txVars>>

WmtdCmdDone ==
  /\ pcW = "CMD" /\ pcW' = "idle"
  /\ UNCHANGED <<psmVars, psmdVars, wmtq, act, eint, wakeReq>>
  /\ UNCHANGED <<envVars, jobVars, txVars>>

Wmtd == WmtdDrop \/ WmtdSend \/ WmtdDone \/ WmtdCmdDone

-----------------------------------------------------------------------------
(* The firmware on its own, and the wake interrupt. *)

ChipRaise ==
  /\ chip = "asleep" /\ nWake < MaxWake
  /\ chip' = "woken" /\ nWake' = nWake + 1
  /\ UNCHANGED <<psmVars, psmdVars, wmtVars, link, coredump, nReset, nDeath>>
  /\ UNCHANGED <<jobVars, txVars>>

\* wmt_plat_bgf_irq_isr(), wmt_lib_ps_irq_cb(); the line is level triggered.
Isr ==
  /\ eint /\ chip = "woken"
  /\ eint' = FALSE /\ wakeReq' = TRUE
  /\ IF link # "up"
       THEN flag' = NotifyStp("ROLL_BACK", flag) /\ UNCHANGED <<q, spin>>
       ELSE PutAct("HOST_AWAKE") /\ UNCHANGED flag
  /\ UNCHANGED <<state, last, timer, fifo, wakelock, sleepEn>>
  /\ UNCHANGED <<psmdVars, wmtq, pcW, act, envVars, jobVars, txVars>>

ChipDies ==
  /\ chip # "dead" /\ nDeath < MaxDeath
  /\ chip' = "dead" /\ nDeath' = nDeath + 1
  /\ UNCHANGED <<psmVars, psmdVars, wmtVars, link, coredump, nReset, nWake>>
  /\ UNCHANGED <<jobVars, txVars>>

\* mtk_wcn_stp_ctx_save(), at the first packet of a core dump.
CoreDump ==
  /\ chip = "dead" /\ ~coredump /\ link = "up"
  /\ coredump' = TRUE /\ sleepEn' = FALSE
  /\ UNCHANGED <<state, flag, last, q, spin, timer, fifo, wakelock>>
  /\ UNCHANGED <<psmdVars, wmtVars, chip, link, nReset, nWake, nDeath>>
  /\ UNCHANGED <<jobVars, txVars>>

-----------------------------------------------------------------------------
(* psm_disable()/psm_enable(), serialised by gPsPolicyLock.  A disable serves *)
(* an op in flight (DISABLE_PSM_MONITOR) or a keep-awake reference.           *)

AfterDisable(j) == IF j = "op" THEN "opput" ELSE "held"

\* The head of _stp_psm_disable()/_stp_psm_enable() and of do_wakeup().
ForceAwake ==
  /\ spin = "free"
  /\ flag' = flag \cup {"DISABLE_MONITOR"} /\ timer' = FALSE /\ q' = <<>>
  /\ tries' = WakeTries
  /\ UNCHANGED <<state, last, spin, fifo, wakelock, sleepEn>>

BeginDisable ==
  /\ pcP = "idle" /\ nJob < MaxJob /\ nJob' = nJob + 1
  /\ \E j \in {"op", "hold"} :
       /\ job' = j
       /\ \/ link = "up" /\ ForceAwake /\ pcP' = "disput"
          \/ /\ link # "up" /\ pcP' = AfterDisable(j)
             /\ UNCHANGED <<psmVars, tries>>
  /\ UNCHANGED <<psmdVars, wmtVars, envVars, txVars>>

\* The op is over, the last reference is dropped, or the policy changes.
BeginEnable ==
  /\ \/ pcP = "idle" /\ nJob < MaxJob /\ nJob' = nJob + 1
     \/ pcP = "held" /\ UNCHANGED nJob
     \/ /\ pcP = "op" /\ pcW # "CMD" /\ UNCHANGED nJob
        /\ \A i \in DOMAIN wmtq : wmtq[i] # "CMD"
  /\ \/ link = "up" /\ ForceAwake /\ pcP' = "enput"
     \/ link # "up" /\ pcP' = "idle" /\ UNCHANGED <<psmVars, tries>>
  /\ UNCHANGED <<job, psmdVars, wmtVars, envVars, txVars>>

DoWakeupPut ==
  /\ pcP \in {"disput", "enput"}
  /\ PutAct("WAKEUP")
  /\ pcP' = IF pcP = "disput" THEN "dispoll" ELSE "enpoll"
  /\ UNCHANGED <<state, flag, last, timer, fifo, wakelock, sleepEn, job, tries, nJob>>
  /\ UNCHANGED <<psmdVars, wmtVars, envVars, txVars>>

\* _stp_psm_do_wait() sees ACT; nothing keeps the state after that.
DisableDone ==
  /\ pcP = "dispoll" /\ state = "ACT"
  /\ pcP' = AfterDisable(job)
  /\ UNCHANGED <<psmVars, psmdVars, wmtVars, envVars, job, tries, nJob, txVars>>

\* wmt_lib_put_act_op(): the command goes to wmtd.
OpPut ==
  /\ pcP = "opput" /\ pcP' = "op"
  /\ wmtq' = IF coredump THEN wmtq ELSE Append(wmtq, "CMD")
  /\ UNCHANGED <<psmVars, psmdVars, pcW, act, eint, wakeReq, job, tries, nJob>>
  /\ UNCHANGED <<envVars, txVars>>

EnableSeesAct ==
  /\ pcP = "enpoll" /\ state = "ACT" /\ pcP' = "enable"
  /\ UNCHANGED <<psmVars, psmdVars, wmtVars, envVars, job, tries, nJob, txVars>>

EnableDone ==
  /\ pcP = "enable" /\ pcP' = "idle"
  /\ flag' = flag \ {"DISABLE_MONITOR"} /\ wakelock' = TRUE /\ timer' = TRUE
  /\ UNCHANGED <<state, last, q, spin, fifo, sleepEn, job, tries, nJob>>
  /\ UNCHANGED <<psmdVars, wmtVars, envVars, txVars>>

Retry == tries > 1

\* 2 s without reaching ACT: try again, or give up with the monitor off.  A
\* keep-awake reference counts even when the disable failed.
PollExpires ==
  /\ pcP \in {"dispoll", "enpoll"} /\ state # "ACT"
  /\ tries' = tries - 1
  /\ pcP' = CASE Retry -> IF pcP = "dispoll" THEN "disput" ELSE "enput"
              [] ~Retry /\ pcP = "dispoll" /\ job = "hold" -> "held"
              [] OTHER -> "idle"
  /\ UNCHANGED <<psmVars, psmdVars, wmtVars, envVars, txVars, job, nJob>>

Caller == DoWakeupPut \/ DisableDone \/ OpPut \/ EnableSeesAct \/ EnableDone

-----------------------------------------------------------------------------
(* Whole-chip reset: wmt_lib_cmb_rst(), seen from the PSM. *)

\* stp_psm_reset() takes no stp_psm_lock.  Its first part clears the flags,
\* the timer and the queue ...
ResetQueue ==
  /\ spin = "free"
  /\ flag' = {"DISABLE_MONITOR"} /\ timer' = FALSE
  /\ q' = <<>> /\ last' = "INVALID"
  /\ wakelock' = FALSE /\ sleepEn' = TRUE
  /\ UNCHANGED <<state, spin, fifo>>

\* A reset STP starts itself (no ACK, firmware assert): READY is cleared, then
\* wmt_lib_cmb_rst() calls mtk_wcn_stp_enable(0), whose psm_reset() takes no
\* lock.  One an application asks for leaves READY set: module WmtPs has it.
ChipReset ==
  /\ link = "up" /\ nReset < MaxReset /\ nReset' = nReset + 1
  /\ ResetQueue /\ link' = "closing"
  /\ UNCHANGED <<psmdVars, wmtVars, chip, coredump, nWake, nDeath, jobVars, txVars>>

\* wmtd has executed HW_RST, so everything queued before it is gone;
\* wmt_lib_sw_rst() resets the PSM again.
SwReset ==
  /\ link = "down" /\ pcW = "idle" /\ wmtq = <<>>
  /\ ResetQueue /\ link' = "starting" /\ chip' = "awake"
  /\ UNCHANGED <<psmdVars, wmtVars, coredump, nReset, nWake, nDeath, jobVars, txVars>>

\* ... the second the state and the FIFO, and wakes psmd.
ResetState ==
  /\ \/ link = "closing" /\ link' = "down"
     \/ link = "starting" /\ link' = "init"
  /\ state' = "ACT" /\ fifo' = <<>> /\ flag' = flag \cup {"RESET_EN"}
  /\ UNCHANGED <<last, q, spin, timer, wakelock, sleepEn, psmdVars, wmtVars>>
  /\ UNCHANGED <<chip, coredump, nReset, nWake, nDeath, jobVars, txVars>>

\* The power cycle and the bring-up take seconds: psmd is not still between
\* two of its own steps.
BackUp ==
  /\ pcD \in {"idle", "wait"}
  /\ link = "init" /\ link' = "up" /\ coredump' = FALSE
  /\ UNCHANGED <<psmVars, psmdVars, wmtVars, chip, nReset, nWake, nDeath>>
  /\ UNCHANGED <<jobVars, txVars>>

-----------------------------------------------------------------------------
Next ==
  \/ SendDirect \/ SendHeld \/ Density \/ IdleTimer
  \/ Psmd \/ Wmtd
  \/ ChipRaise \/ Isr \/ ChipDies \/ CoreDump
  \/ BeginDisable \/ BeginEnable \/ Caller \/ PollExpires
  \/ ChipReset \/ SwReset \/ ResetState \/ BackUp

Spec == Init /\ [][Next]_vars

(***************************************************************************)
(* psmd, wmtd and the interrupt run when they can, the timer expires, and  *)
(* a thread inside psm_disable()/psm_enable() goes on.  Drivers need not   *)
(* write, callers need not call, the chip need not raise its line.         *)
(***************************************************************************)
Fairness ==
  /\ WF_vars(Psmd) /\ WF_vars(Wmtd) /\ WF_vars(Isr)
  /\ WF_vars(IdleTimer) /\ WF_vars(Caller)

FairSpec == Spec /\ Fairness

-----------------------------------------------------------------------------
(* Safety.  TypeOK is above.                                               *)

\* While stp_psm_lock is free and STP is up, a state other than ACT blocks
\* data: the transmit path tests the flag, never the state, and the two are
\* written apart, one of them by a reset that takes no lock.
BlockedUnlessActive ==
  PsmLockFree /\ link = "up" /\ state # "ACT" => "BLOCK_DATA_EN" \in flag

\* No data packet, sent directly or released from the FIFO, reaches a chip
\* that sleeps or waits for its wake exchange (a dead chip hears nothing).
NoDataToSleepingChip == [][wire' # wire => chip \in {"awake", "dead"}]_vars

\* What was sent, followed by what is still held, is in the order the drivers
\* wrote it, without duplicates.  It needs FifoMax =< 2 * ReleaseMax: with
\* more held than the two releases around a wake-up send, a packet sent
\* directly overtakes the rest (psm_core.c releases 20 packets a call).
SentInOrder ==
  LET all == wire \o fifo IN \A i, j \in DOMAIN all : i < j => all[i] < all[j]

\* A HOST_AWAKE exchange is only ever started with a chip that asked for one
\* (README, "The wrong wake exchange"), whatever op was queued.
HostAwakeOnlyWhenAsked ==
  [][pcW' = "HOST_AWAKE" /\ pcW # "HOST_AWAKE" => chip # "asleep"]_vars

\* _stp_psm_clean_up_redundant_active_op() ends: it runs under wq_spinlock.
CleanUpTerminates == spin # "stuck"

-----------------------------------------------------------------------------
(* Liveness, as long as the firmware lives (a dead one ends in a reset).   *)

\* Data held for a sleeping chip is sent, with nothing but the wake-up it
\* asked for to get it out.  It needs FifoMax =< ReleaseMax: what one release
\* leaves behind waits for the next packet or the next sleep.
HeldDataSent == fifo # <<>> ~> fifo = <<>> \/ chip = "dead"

\* A transition in progress ends: every PWR_SV op is answered, and psmd reads
\* the answer.
TransitionsEnd ==
  state \in {"ACT_INACT", "INACT_ACT"} ~> state \in {"ACT", "INACT"} \/ chip = "dead"

\* With the monitor enabled for good, an idle chip goes back to sleep: no path
\* leaves ACT without a pending timer or a SLEEP op that is not redundant.
IdleChipSleeps ==
  <>[]("DISABLE_MONITOR" \notin flag) => []<>(state = "INACT" \/ chip = "dead")

=============================================================================
