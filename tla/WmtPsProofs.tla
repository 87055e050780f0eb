----------------------------- MODULE WmtPsProofs -----------------------------
(***************************************************************************)
(* Proofs about the power-save policy, for any number of callers and       *)
(* holders and every kind of failure the model has.                        *)
(***************************************************************************)
EXTENDS WmtPs, FiniteSetTheorems, TLAPS

\* The threads inside a PSM call, by the call they made.
Disabling == {"disabling", "holding", "off", "closing"}
Enabling == {"enabling", "releasing", "on"}
\* The part of an op bracket under psm_lock, and the part with gPsOpBusy set.
Locked == {"disable", "disabling", "put", "wait", "enable", "enabling"}
Busy == {"put", "wait", "enable"}

\* The holders whose reference counts in gPsHold.
Refs == {h \in Holders : pc[h] \in {"holding", "held"}}

\* gPsHold is the number of references.
Counted == hold = Cardinality(Refs)

\* A thread is inside a PSM call exactly while it owns gPsPolicyLock; the
\* monitor is off during the call, and what allowed an enable goes on holding.
CallsLocked ==
  /\ policyLock = none <=> call = none
  /\ \A t \in Threads :
       /\ pc[t] \in Disabling => policyLock = t /\ call = "disable"
       /\ pc[t] \in Enabling => policyLock = t /\ call = "enable"
  /\ call # none => ~monitor
  /\ call = "enable" => psEnable /\ hold = 0 /\ ~opBusy

\* gPsOpBusy is set exactly in the middle of the bracket of psm_lock's owner,
\* and no thread is inside a PSM call then.
Bracketed ==
  /\ \A c \in Callers : pc[c] \in Locked => psmLock = c
  /\ \A c \in Callers : pc[c] \in Busy => opBusy
  /\ opBusy => psmLock \in Callers /\ pc[psmLock] \in Busy
  /\ opBusy => call = none

PolicyInv == TypeOK /\ Counted /\ CallsLocked /\ Bracketed /\ MonitorFollowsPolicy

\* TypeOK in the parts a prover can take at a time.
TypePc == pc \in [Threads -> Labels]
TypeFlags ==
  psEnable \in BOOLEAN /\ opBusy \in BOOLEAN /\ monitor \in BOOLEAN /\ ready \in BOOLEAN
TypeLocks ==
  /\ policyLock \in Threads \cup {none} /\ call \in Calls \cup {none}
  /\ psmLock \in Callers \cup {none}
TypeRest ==
  /\ hold \in Nat /\ psm \in {"ACT", "ACT_INACT", "INACT", "INACT_ACT"}
  /\ wmtq \in Seq(Commands) /\ exec \in Callers \cup {"HW_RST", "SW_RST", none}
  /\ chip \in {"on", "off", "opening", "reset", "start"}
  /\ nOp \in 0..MaxOp /\ nHold \in 0..MaxHold
  /\ nCtrl \in 0..MaxCtrl /\ nReset \in 0..MaxReset

-----------------------------------------------------------------------------
(* Counting references. *)

LEMMA RefsFinite == IsFiniteSet(Refs)
  BY WmtPsAssumption, FS_Subset DEF Refs

\* A reference taken or dropped changes gPsHold and the set alike.
LEMMA RefAdded ==
  ASSUME Counted, NEW h \in Holders, h \notin Refs, Refs' = Refs \cup {h}
  PROVE Cardinality(Refs') = hold + 1
  BY RefsFinite, FS_AddElement DEF Counted

LEMMA RefRemoved ==
  ASSUME Counted, NEW h \in Holders, h \in Refs, Refs' = Refs \ {h}
  PROVE Cardinality(Refs') = hold - 1
  BY RefsFinite, FS_RemoveElement DEF Counted

\* A held reference keeps gPsHold positive.
LEMMA RefPositive ==
  ASSUME Counted, NEW h \in Holders, h \in Refs
  PROVE hold \in Nat \ {0}
<1>1. Cardinality(Refs) \in Nat
  BY RefsFinite, FS_CardinalityType
<1>2. Cardinality(Refs) # 0
  BY RefsFinite, FS_EmptySet
<1> QED
  BY <1>1, <1>2 DEF Counted
-----------------------------------------------------------------------------
(* Every step keeps each part of PolicyInv. *)

\* Types.
LEMMA TypeStep ==
  ASSUME PolicyInv, [Next]_vars
  PROVE TypeOK'
<1> USE WmtPsAssumption DEF
  vars, policyVars, lockVars, psmVars, wmtVars, countVars, linkVars, Goto,
  NoCall, BeginCall, MayCall, TypeOK, TypePc, TypeFlags, TypeLocks, TypeRest,
  Threads, Labels, Calls, Commands, PolicyInv
<1>1. ASSUME NEW c \in Callers, OpLock(c) PROVE TypeOK'
  BY <1>1 DEF OpLock
<1>2. ASSUME NEW c \in Callers, OpDisable(c) PROVE TypeOK'
  <2>1. TypePc'
    BY <1>2 DEF OpDisable, DisableCalls, BusyUnlessFailed
  <2>2. TypeFlags'
    BY <1>2 DEF OpDisable, DisableCalls, BusyUnlessFailed
  <2>3. TypeLocks'
    BY <1>2 DEF OpDisable, DisableCalls, BusyUnlessFailed
  <2>4. TypeRest'
    BY <1>2 DEF OpDisable, DisableCalls, BusyUnlessFailed
  <2> QED
    BY <2>1, <2>2, <2>3, <2>4
<1>3. ASSUME NEW c \in Callers, OpDisabled(c) PROVE TypeOK'
  <2>1. TypePc'
    BY <1>3 DEF OpDisabled, EndCall, BusyUnlessFailed
  <2>2. TypeFlags'
    BY <1>3 DEF OpDisabled, EndCall, BusyUnlessFailed
  <2>3. TypeLocks'
    BY <1>3 DEF OpDisabled, EndCall, BusyUnlessFailed
  <2>4. TypeRest'
    BY <1>3 DEF OpDisabled, EndCall, BusyUnlessFailed
  <2> QED
    BY <2>1, <2>2, <2>3, <2>4
<1>4. ASSUME NEW c \in Callers, OpPut(c) PROVE TypeOK'
  BY <1>4 DEF OpPut
<1>5. ASSUME NEW c \in Callers, OpExpires(c) PROVE TypeOK'
  BY <1>5 DEF OpExpires
<1>6. ASSUME NEW c \in Callers, OpEnable(c) PROVE TypeOK'
  <2>1. TypePc'
    BY <1>6 DEF OpEnable, EnableCalls
  <2>2. TypeFlags'
    BY <1>6 DEF OpEnable, EnableCalls
  <2>3. TypeLocks'
    BY <1>6 DEF OpEnable, EnableCalls
  <2>4. TypeRest'
    BY <1>6 DEF OpEnable, EnableCalls
  <2> QED
    BY <2>1, <2>2, <2>3, <2>4
<1>7. ASSUME NEW c \in Callers, OpEnabled(c) PROVE TypeOK'
  <2>1. TypePc'
    BY <1>7 DEF OpEnabled, EndCall
  <2>2. TypeFlags'
    BY <1>7 DEF OpEnabled, EndCall
  <2>3. TypeLocks'
    BY <1>7 DEF OpEnabled, EndCall
  <2>4. TypeRest'
    BY <1>7 DEF OpEnabled, EndCall
  <2> QED
    BY <2>1, <2>2, <2>3, <2>4
<1>8. ASSUME NEW h \in Holders, Hold(h) PROVE TypeOK'
  <2>1. TypePc'
    BY <1>8 DEF Hold
  <2>2. TypeFlags'
    BY <1>8 DEF Hold
  <2>3. TypeLocks'
    BY <1>8 DEF Hold
  <2>4. TypeRest'
    BY <1>8 DEF Hold
  <2> QED
    BY <2>1, <2>2, <2>3, <2>4
<1>9. ASSUME NEW h \in Holders, HoldDone(h) PROVE TypeOK'
  <2>1. TypePc'
    BY <1>9 DEF HoldDone, EndCall
  <2>2. TypeFlags'
    BY <1>9 DEF HoldDone, EndCall
  <2>3. TypeLocks'
    BY <1>9 DEF HoldDone, EndCall
  <2>4. TypeRest'
    BY <1>9 DEF HoldDone, EndCall
  <2> QED
    BY <2>1, <2>2, <2>3, <2>4
<1>10. ASSUME NEW h \in Holders, Release(h) PROVE TypeOK'
  <2>1. hold \in Nat \ {0}
    BY <1>10, RefPositive DEF Release, Refs
  <2>2. TypePc'
    BY <1>10, <2>1 DEF Release, DropRef, EnableCalls
  <2>3. TypeFlags'
    BY <1>10 DEF Release, DropRef, EnableCalls
  <2>4. TypeLocks'
    BY <1>10 DEF Release, DropRef, EnableCalls
  <2>5. TypeRest'
    BY <1>10, <2>1 DEF Release, DropRef, EnableCalls
  <2> QED
    BY <2>2, <2>3, <2>4, <2>5
<1>11. ASSUME NEW h \in Holders, ReleaseDone(h) PROVE TypeOK'
  <2>1. TypePc'
    BY <1>11 DEF ReleaseDone, EndCall
  <2>2. TypeFlags'
    BY <1>11 DEF ReleaseDone, EndCall
  <2>3. TypeLocks'
    BY <1>11 DEF ReleaseDone, EndCall
  <2>4. TypeRest'
    BY <1>11 DEF ReleaseDone, EndCall
  <2> QED
    BY <2>1, <2>2, <2>3, <2>4
<1>12. CASE PsOff
  <2>1. TypePc'
    BY <1>12 DEF PsOff, DisableCalls
  <2>2. TypeFlags'
    BY <1>12 DEF PsOff, DisableCalls
  <2>3. TypeLocks'
    BY <1>12 DEF PsOff, DisableCalls
  <2>4. TypeRest'
    BY <1>12 DEF PsOff, DisableCalls
  <2> QED
    BY <2>1, <2>2, <2>3, <2>4
<1>13. CASE PsOffDone
  <2>1. TypePc'
    BY <1>13 DEF PsOffDone, EndCall
  <2>2. TypeFlags'
    BY <1>13 DEF PsOffDone, EndCall
  <2>3. TypeLocks'
    BY <1>13 DEF PsOffDone, EndCall
  <2>4. TypeRest'
    BY <1>13 DEF PsOffDone, EndCall
  <2> QED
    BY <2>1, <2>2, <2>3, <2>4
<1>14. CASE PsOn
  <2>1. TypePc'
    BY <1>14 DEF PsOn
  <2>2. TypeFlags'
    BY <1>14 DEF PsOn
  <2>3. TypeLocks'
    BY <1>14 DEF PsOn
  <2>4. TypeRest'
    BY <1>14 DEF PsOn
  <2> QED
    BY <2>1, <2>2, <2>3, <2>4
<1>15. CASE PsOnDone
  <2>1. TypePc'
    BY <1>15 DEF PsOnDone, EndCall
  <2>2. TypeFlags'
    BY <1>15 DEF PsOnDone, EndCall
  <2>3. TypeLocks'
    BY <1>15 DEF PsOnDone, EndCall
  <2>4. TypeRest'
    BY <1>15 DEF PsOnDone, EndCall
  <2> QED
    BY <2>1, <2>2, <2>3, <2>4
<1>16. CASE WmtdPwrSv
  BY <1>16 DEF WmtdPwrSv, WmtdIdle, InReset
<1>17. CASE WmtdDrop
  BY <1>17 DEF WmtdDrop, WmtdIdle, InReset, Answered
<1>18. CASE WmtdStart
  BY <1>18 DEF WmtdStart, WmtdIdle, InReset
<1>19. CASE WmtdRemove
  BY <1>19 DEF WmtdRemove
<1>20. CASE WmtdDropRef
  <2>1. pc[wifi] = "held" => hold \in Nat \ {0}
    BY RefPositive DEF Refs
  <2>2. TypePc'
    BY <1>20, <2>1 DEF WmtdDropRef, DropRef, EnableCalls
  <2>3. TypeFlags'
    BY <1>20 DEF WmtdDropRef, DropRef, EnableCalls
  <2>4. TypeLocks'
    BY <1>20 DEF WmtdDropRef, DropRef, EnableCalls
  <2>5. TypeRest'
    BY <1>20, <2>1 DEF WmtdDropRef, DropRef, EnableCalls
  <2> QED
    BY <2>2, <2>3, <2>4, <2>5
<1>21. CASE WmtdPolicyDone
  <2>1. TypePc'
    BY <1>21 DEF WmtdPolicyDone, EndCall
  <2>2. TypeFlags'
    BY <1>21 DEF WmtdPolicyDone, EndCall
  <2>3. TypeLocks'
    BY <1>21 DEF WmtdPolicyDone, EndCall
  <2>4. TypeRest'
    BY <1>21 DEF WmtdPolicyDone, EndCall
  <2> QED
    BY <2>1, <2>2, <2>3, <2>4
<1>22. CASE WmtdSwDeinit
  <2>1. TypePc'
    BY <1>22 DEF WmtdSwDeinit, DisableCalls
  <2>2. TypeFlags'
    BY <1>22 DEF WmtdSwDeinit, DisableCalls
  <2>3. TypeLocks'
    BY <1>22 DEF WmtdSwDeinit, DisableCalls
  <2>4. TypeRest'
    BY <1>22 DEF WmtdSwDeinit, DisableCalls
  <2> QED
    BY <2>1, <2>2, <2>3, <2>4
<1>23. CASE WmtdSwDeinitDone
  <2>1. TypePc'
    BY <1>23 DEF WmtdSwDeinitDone, EndCall
  <2>2. TypeFlags'
    BY <1>23 DEF WmtdSwDeinitDone, EndCall
  <2>3. TypeLocks'
    BY <1>23 DEF WmtdSwDeinitDone, EndCall
  <2>4. TypeRest'
    BY <1>23 DEF WmtdSwDeinitDone, EndCall
  <2> QED
    BY <2>1, <2>2, <2>3, <2>4
<1>24. CASE WmtdStpDeinit
  <2>1. TypePc'
    BY <1>24 DEF WmtdStpDeinit, Unready
  <2>2. TypeFlags'
    BY <1>24 DEF WmtdStpDeinit, Unready
  <2>3. TypeLocks'
    BY <1>24 DEF WmtdStpDeinit, Unready
  <2>4. TypeRest'
    BY <1>24 DEF WmtdStpDeinit, Unready
  <2> QED
    BY <2>1, <2>2, <2>3, <2>4
<1>25. CASE WmtdStpInit
  BY <1>25 DEF WmtdStpInit, Unready
<1>26. CASE WmtdDone
  BY <1>26 DEF WmtdDone, Answered
<1>27. CASE Sleep
  BY <1>27 DEF Sleep
<1>28. CASE WakeUp
  BY <1>28 DEF WakeUp
<1>29. CASE Reset
  <2>1. TypePc'
    BY <1>29 DEF Reset, Answered
  <2>2. TypeFlags'
    BY <1>29 DEF Reset, Answered
  <2>3. TypeLocks'
    BY <1>29 DEF Reset, Answered
  <2>4. TypeRest'
    BY <1>29 DEF Reset, Answered
  <2> QED
    BY <2>1, <2>2, <2>3, <2>4
<1>30. CASE HwRst
  BY <1>30 DEF HwRst, WmtdIdle
<1>31. CASE SwRst
  BY <1>31 DEF SwRst, WmtdIdle, Unready
<1>32. CASE StpReady
  BY <1>32 DEF StpReady
<1>33. CASE UNCHANGED vars
  BY <1>33
<1> QED
  BY <1>1, <1>2, <1>3, <1>4, <1>5, <1>6, <1>7, <1>8, <1>9, <1>10, <1>11, <1>12, <1>13, <1>14, <1>15, <1>16, <1>17, <1>18, <1>19, <1>20, <1>21, <1>22, <1>23, <1>24, <1>25, <1>26, <1>27, <1>28, <1>29, <1>30, <1>31, <1>32, <1>33 DEF
    Next, Caller, Holder, Dbg, Wmtd, Restart

\* The count of references.
LEMMA CountStep ==
  ASSUME PolicyInv, [Next]_vars
  PROVE Counted'
<1> USE WmtPsAssumption DEF
  vars, policyVars, lockVars, psmVars, wmtVars, countVars, linkVars, Goto,
  NoCall, BeginCall, MayCall, Counted, Refs, TypeOK, Threads, PolicyInv
<1>1. ASSUME NEW c \in Callers, OpLock(c) PROVE Counted'
  <2>1. Refs' = Refs /\ hold' = hold
    BY <1>1 DEF OpLock
  <2> QED
    BY <2>1
<1>2. ASSUME NEW c \in Callers, OpDisable(c) PROVE Counted'
  <2>1. Refs' = Refs /\ hold' = hold
    BY <1>2 DEF OpDisable, DisableCalls, BusyUnlessFailed
  <2> QED
    BY <2>1
<1>3. ASSUME NEW c \in Callers, OpDisabled(c) PROVE Counted'
  <2>1. Refs' = Refs /\ hold' = hold
    BY <1>3 DEF OpDisabled, EndCall, BusyUnlessFailed
  <2> QED
    BY <2>1
<1>4. ASSUME NEW c \in Callers, OpPut(c) PROVE Counted'
  <2>1. Refs' = Refs /\ hold' = hold
    BY <1>4 DEF OpPut
  <2> QED
    BY <2>1
<1>5. ASSUME NEW c \in Callers, OpExpires(c) PROVE Counted'
  <2>1. Refs' = Refs /\ hold' = hold
    BY <1>5 DEF OpExpires
  <2> QED
    BY <2>1
<1>6. ASSUME NEW c \in Callers, OpEnable(c) PROVE Counted'
  <2>1. Refs' = Refs /\ hold' = hold
    BY <1>6 DEF OpEnable, EnableCalls
  <2> QED
    BY <2>1
<1>7. ASSUME NEW c \in Callers, OpEnabled(c) PROVE Counted'
  <2>1. Refs' = Refs /\ hold' = hold
    BY <1>7 DEF OpEnabled, EndCall
  <2> QED
    BY <2>1
<1>8. ASSUME NEW h \in Holders, Hold(h) PROVE Counted'
  <2>1. h \notin Refs /\ Refs' = Refs \cup {h} /\ hold' = hold + 1
    BY <1>8 DEF Hold
  <2> QED
    BY <2>1, RefAdded
<1>9. ASSUME NEW h \in Holders, HoldDone(h) PROVE Counted'
  <2>1. Refs' = Refs /\ hold' = hold
    BY <1>9 DEF HoldDone, EndCall
  <2> QED
    BY <2>1
<1>10. ASSUME NEW h \in Holders, Release(h) PROVE Counted'
  <2>1. h \in Refs /\ Refs' = Refs \ {h} /\ hold' = hold - 1
    BY <1>10 DEF Release, DropRef, EnableCalls
  <2> QED
    BY <2>1, RefRemoved
<1>11. ASSUME NEW h \in Holders, ReleaseDone(h) PROVE Counted'
  <2>1. Refs' = Refs /\ hold' = hold
    BY <1>11 DEF ReleaseDone, EndCall
  <2> QED
    BY <2>1
<1>12. CASE PsOff
  <2>1. Refs' = Refs /\ hold' = hold
    BY <1>12 DEF PsOff, DisableCalls
  <2> QED
    BY <2>1
<1>13. CASE PsOffDone
  <2>1. Refs' = Refs /\ hold' = hold
    BY <1>13 DEF PsOffDone, EndCall
  <2> QED
    BY <2>1
<1>14. CASE PsOn
  <2>1. Refs' = Refs /\ hold' = hold
    BY <1>14 DEF PsOn
  <2> QED
    BY <2>1
<1>15. CASE PsOnDone
  <2>1. Refs' = Refs /\ hold' = hold
    BY <1>15 DEF PsOnDone, EndCall
  <2> QED
    BY <2>1
<1>16. CASE WmtdPwrSv
  <2>1. Refs' = Refs /\ hold' = hold
    BY <1>16 DEF WmtdPwrSv, WmtdIdle, InReset
  <2> QED
    BY <2>1
<1>17. CASE WmtdDrop
  <2>1. Refs' = Refs /\ hold' = hold
    BY <1>17 DEF WmtdDrop, WmtdIdle, InReset, Answered
  <2> QED
    BY <2>1
<1>18. CASE WmtdStart
  <2>1. Refs' = Refs /\ hold' = hold
    BY <1>18 DEF WmtdStart, WmtdIdle, InReset
  <2> QED
    BY <2>1
<1>19. CASE WmtdRemove
  <2>1. Refs' = Refs /\ hold' = hold
    BY <1>19 DEF WmtdRemove
  <2> QED
    BY <2>1
<1>20. CASE WmtdDropRef
  <2>1. CASE pc[wifi] = "held"
    <3>1. wifi \in Refs /\ Refs' = Refs \ {wifi} /\ hold' = hold - 1
      BY <1>20, <2>1 DEF WmtdDropRef, DropRef, EnableCalls
    <3> QED
      BY <3>1, RefRemoved
  <2>2. CASE pc[wifi] # "held"
    <3>1. Refs' = Refs /\ hold' = hold
      BY <1>20, <2>2 DEF WmtdDropRef, DropRef, EnableCalls
    <3> QED
      BY <3>1
  <2> QED
    BY <2>1, <2>2
<1>21. CASE WmtdPolicyDone
  <2>1. Refs' = Refs /\ hold' = hold
    BY <1>21 DEF WmtdPolicyDone, EndCall
  <2> QED
    BY <2>1
<1>22. CASE WmtdSwDeinit
  <2>1. Refs' = Refs /\ hold' = hold
    BY <1>22 DEF WmtdSwDeinit, DisableCalls
  <2> QED
    BY <2>1
<1>23. CASE WmtdSwDeinitDone
  <2>1. Refs' = Refs /\ hold' = hold
    BY <1>23 DEF WmtdSwDeinitDone, EndCall
  <2> QED
    BY <2>1
<1>24. CASE WmtdStpDeinit
  <2>1. Refs' = Refs /\ hold' = hold
    BY <1>24 DEF WmtdStpDeinit, Unready
  <2> QED
    BY <2>1
<1>25. CASE WmtdStpInit
  <2>1. Refs' = Refs /\ hold' = hold
    BY <1>25 DEF WmtdStpInit, Unready
  <2> QED
    BY <2>1
<1>26. CASE WmtdDone
  <2>1. Refs' = Refs /\ hold' = hold
    BY <1>26 DEF WmtdDone, Answered
  <2> QED
    BY <2>1
<1>27. CASE Sleep
  <2>1. Refs' = Refs /\ hold' = hold
    BY <1>27 DEF Sleep
  <2> QED
    BY <2>1
<1>28. CASE WakeUp
  <2>1. Refs' = Refs /\ hold' = hold
    BY <1>28 DEF WakeUp
  <2> QED
    BY <2>1
<1>29. CASE Reset
  <2>1. Refs' = Refs /\ hold' = hold
    BY <1>29 DEF Reset, Answered
  <2> QED
    BY <2>1
<1>30. CASE HwRst
  <2>1. Refs' = Refs /\ hold' = hold
    BY <1>30 DEF HwRst, WmtdIdle
  <2> QED
    BY <2>1
<1>31. CASE SwRst
  <2>1. Refs' = Refs /\ hold' = hold
    BY <1>31 DEF SwRst, WmtdIdle, Unready
  <2> QED
    BY <2>1
<1>32. CASE StpReady
  <2>1. Refs' = Refs /\ hold' = hold
    BY <1>32 DEF StpReady
  <2> QED
    BY <2>1
<1>33. CASE UNCHANGED vars
  BY <1>33
<1> QED
  BY <1>1, <1>2, <1>3, <1>4, <1>5, <1>6, <1>7, <1>8, <1>9, <1>10, <1>11, <1>12, <1>13, <1>14, <1>15, <1>16, <1>17, <1>18, <1>19, <1>20, <1>21, <1>22, <1>23, <1>24, <1>25, <1>26, <1>27, <1>28, <1>29, <1>30, <1>31, <1>32, <1>33 DEF
    Next, Caller, Holder, Dbg, Wmtd, Restart

\* Who is inside a PSM call.
LEMMA CallsStep ==
  ASSUME PolicyInv, [Next]_vars
  PROVE CallsLocked'
<1> USE WmtPsAssumption DEF
  vars, policyVars, lockVars, psmVars, wmtVars, countVars, linkVars, Goto,
  NoCall, BeginCall, MayCall, CallsLocked, Disabling, Enabling, Bracketed,
  PolicyInv, TypeOK, Threads
<1>1. ASSUME NEW c \in Callers, OpLock(c) PROVE CallsLocked'
  BY <1>1 DEF OpLock
<1>2. ASSUME NEW c \in Callers, OpDisable(c) PROVE CallsLocked'
  BY <1>2 DEF OpDisable, DisableCalls, BusyUnlessFailed
<1>3. ASSUME NEW c \in Callers, OpDisabled(c) PROVE CallsLocked'
  BY <1>3 DEF OpDisabled, EndCall, BusyUnlessFailed
<1>4. ASSUME NEW c \in Callers, OpPut(c) PROVE CallsLocked'
  BY <1>4 DEF OpPut
<1>5. ASSUME NEW c \in Callers, OpExpires(c) PROVE CallsLocked'
  BY <1>5 DEF OpExpires
<1>6. ASSUME NEW c \in Callers, OpEnable(c) PROVE CallsLocked'
  BY <1>6 DEF OpEnable, EnableCalls
<1>7. ASSUME NEW c \in Callers, OpEnabled(c) PROVE CallsLocked'
  BY <1>7 DEF OpEnabled, EndCall
<1>8. ASSUME NEW h \in Holders, Hold(h) PROVE CallsLocked'
  BY <1>8 DEF Hold
<1>9. ASSUME NEW h \in Holders, HoldDone(h) PROVE CallsLocked'
  BY <1>9 DEF HoldDone, EndCall
<1>10. ASSUME NEW h \in Holders, Release(h) PROVE CallsLocked'
  BY <1>10 DEF Release, DropRef, EnableCalls
<1>11. ASSUME NEW h \in Holders, ReleaseDone(h) PROVE CallsLocked'
  BY <1>11 DEF ReleaseDone, EndCall
<1>12. CASE PsOff
  BY <1>12 DEF PsOff, DisableCalls
<1>13. CASE PsOffDone
  BY <1>13 DEF PsOffDone, EndCall
<1>14. CASE PsOn
  BY <1>14 DEF PsOn
<1>15. CASE PsOnDone
  BY <1>15 DEF PsOnDone, EndCall
<1>16. CASE WmtdPwrSv
  BY <1>16 DEF WmtdPwrSv, WmtdIdle, InReset
<1>17. CASE WmtdDrop
  BY <1>17 DEF WmtdDrop, WmtdIdle, InReset, Answered
<1>18. CASE WmtdStart
  BY <1>18 DEF WmtdStart, WmtdIdle, InReset
<1>19. CASE WmtdRemove
  BY <1>19 DEF WmtdRemove
<1>20. CASE WmtdDropRef
  BY <1>20 DEF WmtdDropRef, DropRef, EnableCalls
<1>21. CASE WmtdPolicyDone
  BY <1>21 DEF WmtdPolicyDone, EndCall
<1>22. CASE WmtdSwDeinit
  BY <1>22 DEF WmtdSwDeinit, DisableCalls
<1>23. CASE WmtdSwDeinitDone
  BY <1>23 DEF WmtdSwDeinitDone, EndCall
<1>24. CASE WmtdStpDeinit
  BY <1>24 DEF WmtdStpDeinit, Unready
<1>25. CASE WmtdStpInit
  BY <1>25 DEF WmtdStpInit, Unready
<1>26. CASE WmtdDone
  BY <1>26 DEF WmtdDone, Answered
<1>27. CASE Sleep
  BY <1>27 DEF Sleep
<1>28. CASE WakeUp
  BY <1>28 DEF WakeUp
<1>29. CASE Reset
  BY <1>29 DEF Reset, Answered
<1>30. CASE HwRst
  BY <1>30 DEF HwRst, WmtdIdle
<1>31. CASE SwRst
  BY <1>31 DEF SwRst, WmtdIdle, Unready
<1>32. CASE StpReady
  BY <1>32 DEF StpReady
<1>33. CASE UNCHANGED vars
  BY <1>33
<1> QED
  BY <1>1, <1>2, <1>3, <1>4, <1>5, <1>6, <1>7, <1>8, <1>9, <1>10, <1>11, <1>12, <1>13, <1>14, <1>15, <1>16, <1>17, <1>18, <1>19, <1>20, <1>21, <1>22, <1>23, <1>24, <1>25, <1>26, <1>27, <1>28, <1>29, <1>30, <1>31, <1>32, <1>33 DEF
    Next, Caller, Holder, Dbg, Wmtd, Restart

\* The op bracket.
LEMMA BracketStep ==
  ASSUME PolicyInv, [Next]_vars
  PROVE Bracketed'
<1> USE WmtPsAssumption DEF
  vars, policyVars, lockVars, psmVars, wmtVars, countVars, linkVars, Goto,
  NoCall, BeginCall, MayCall, Bracketed, Locked, Busy, CallsLocked, Disabling,
  Enabling, PolicyInv, TypeOK, Threads
<1>1. ASSUME NEW c \in Callers, OpLock(c) PROVE Bracketed'
  BY <1>1 DEF OpLock
<1>2. ASSUME NEW c \in Callers, OpDisable(c) PROVE Bracketed'
  BY <1>2 DEF OpDisable, DisableCalls, BusyUnlessFailed
<1>3. ASSUME NEW c \in Callers, OpDisabled(c) PROVE Bracketed'
  BY <1>3 DEF OpDisabled, EndCall, BusyUnlessFailed
<1>4. ASSUME NEW c \in Callers, OpPut(c) PROVE Bracketed'
  BY <1>4 DEF OpPut
<1>5. ASSUME NEW c \in Callers, OpExpires(c) PROVE Bracketed'
  BY <1>5 DEF OpExpires
<1>6. ASSUME NEW c \in Callers, OpEnable(c) PROVE Bracketed'
  BY <1>6 DEF OpEnable, EnableCalls
<1>7. ASSUME NEW c \in Callers, OpEnabled(c) PROVE Bracketed'
  BY <1>7 DEF OpEnabled, EndCall
<1>8. ASSUME NEW h \in Holders, Hold(h) PROVE Bracketed'
  BY <1>8 DEF Hold
<1>9. ASSUME NEW h \in Holders, HoldDone(h) PROVE Bracketed'
  BY <1>9 DEF HoldDone, EndCall
<1>10. ASSUME NEW h \in Holders, Release(h) PROVE Bracketed'
  BY <1>10 DEF Release, DropRef, EnableCalls
<1>11. ASSUME NEW h \in Holders, ReleaseDone(h) PROVE Bracketed'
  BY <1>11 DEF ReleaseDone, EndCall
<1>12. CASE PsOff
  BY <1>12 DEF PsOff, DisableCalls
<1>13. CASE PsOffDone
  BY <1>13 DEF PsOffDone, EndCall
<1>14. CASE PsOn
  BY <1>14 DEF PsOn
<1>15. CASE PsOnDone
  BY <1>15 DEF PsOnDone, EndCall
<1>16. CASE WmtdPwrSv
  BY <1>16 DEF WmtdPwrSv, WmtdIdle, InReset
<1>17. CASE WmtdDrop
  BY <1>17 DEF WmtdDrop, WmtdIdle, InReset, Answered
<1>18. CASE WmtdStart
  BY <1>18 DEF WmtdStart, WmtdIdle, InReset
<1>19. CASE WmtdRemove
  BY <1>19 DEF WmtdRemove
<1>20. CASE WmtdDropRef
  BY <1>20 DEF WmtdDropRef, DropRef, EnableCalls
<1>21. CASE WmtdPolicyDone
  BY <1>21 DEF WmtdPolicyDone, EndCall
<1>22. CASE WmtdSwDeinit
  BY <1>22 DEF WmtdSwDeinit, DisableCalls
<1>23. CASE WmtdSwDeinitDone
  BY <1>23 DEF WmtdSwDeinitDone, EndCall
<1>24. CASE WmtdStpDeinit
  BY <1>24 DEF WmtdStpDeinit, Unready
<1>25. CASE WmtdStpInit
  BY <1>25 DEF WmtdStpInit, Unready
<1>26. CASE WmtdDone
  BY <1>26 DEF WmtdDone, Answered
<1>27. CASE Sleep
  BY <1>27 DEF Sleep
<1>28. CASE WakeUp
  BY <1>28 DEF WakeUp
<1>29. CASE Reset
  BY <1>29 DEF Reset, Answered
<1>30. CASE HwRst
  BY <1>30 DEF HwRst, WmtdIdle
<1>31. CASE SwRst
  BY <1>31 DEF SwRst, WmtdIdle, Unready
<1>32. CASE StpReady
  BY <1>32 DEF StpReady
<1>33. CASE UNCHANGED vars
  BY <1>33
<1> QED
  BY <1>1, <1>2, <1>3, <1>4, <1>5, <1>6, <1>7, <1>8, <1>9, <1>10, <1>11, <1>12, <1>13, <1>14, <1>15, <1>16, <1>17, <1>18, <1>19, <1>20, <1>21, <1>22, <1>23, <1>24, <1>25, <1>26, <1>27, <1>28, <1>29, <1>30, <1>31, <1>32, <1>33 DEF
    Next, Caller, Holder, Dbg, Wmtd, Restart

\* The monitor and the policy.
LEMMA MonitorStep ==
  ASSUME PolicyInv, [Next]_vars
  PROVE MonitorFollowsPolicy'
<1> USE WmtPsAssumption DEF
  vars, policyVars, lockVars, psmVars, wmtVars, countVars, linkVars, Goto,
  NoCall, BeginCall, MayCall, MonitorFollowsPolicy, CallsLocked, Disabling,
  Enabling, PolicyInv, TypeOK, Threads
<1>1. ASSUME NEW c \in Callers, OpLock(c) PROVE MonitorFollowsPolicy'
  BY <1>1 DEF OpLock
<1>2. ASSUME NEW c \in Callers, OpDisable(c) PROVE MonitorFollowsPolicy'
  BY <1>2 DEF OpDisable, DisableCalls, BusyUnlessFailed
<1>3. ASSUME NEW c \in Callers, OpDisabled(c) PROVE MonitorFollowsPolicy'
  BY <1>3 DEF OpDisabled, EndCall, BusyUnlessFailed
<1>4. ASSUME NEW c \in Callers, OpPut(c) PROVE MonitorFollowsPolicy'
  BY <1>4 DEF OpPut
<1>5. ASSUME NEW c \in Callers, OpExpires(c) PROVE MonitorFollowsPolicy'
  BY <1>5 DEF OpExpires
<1>6. ASSUME NEW c \in Callers, OpEnable(c) PROVE MonitorFollowsPolicy'
  BY <1>6 DEF OpEnable, EnableCalls
<1>7. ASSUME NEW c \in Callers, OpEnabled(c) PROVE MonitorFollowsPolicy'
  BY <1>7 DEF OpEnabled, EndCall
<1>8. ASSUME NEW h \in Holders, Hold(h) PROVE MonitorFollowsPolicy'
  <2>1. hold' = hold + 1 /\ hold' # 0 /\ UNCHANGED <<psEnable, opBusy, ready>>
    BY <1>8 DEF Hold
  <2>2. CASE hold' = 1 /\ MayCall /\ ready
    BY <1>8, <2>2 DEF Hold
  <2>3. CASE ~(hold' = 1 /\ MayCall /\ ready)
    <3>1. UNCHANGED monitor
      BY <1>8, <2>3 DEF Hold
    <3>2. ~(monitor /\ ready)
      <4>1. CASE hold = 0
        BY <4>1, <2>3, <2>1
      <4>2. CASE hold # 0
        BY <4>2
      <4> QED
        BY <4>1, <4>2
    <3> QED
      BY <2>1, <3>1, <3>2
  <2> QED
    BY <2>2, <2>3
<1>9. ASSUME NEW h \in Holders, HoldDone(h) PROVE MonitorFollowsPolicy'
  BY <1>9 DEF HoldDone, EndCall
<1>10. ASSUME NEW h \in Holders, Release(h) PROVE MonitorFollowsPolicy'
  <2>1. hold \in Nat \ {0}
    BY <1>10, RefPositive DEF Release, Refs
  <2> QED
    BY <1>10, <2>1 DEF Release, DropRef, EnableCalls
<1>11. ASSUME NEW h \in Holders, ReleaseDone(h) PROVE MonitorFollowsPolicy'
  BY <1>11 DEF ReleaseDone, EndCall
<1>12. CASE PsOff
  BY <1>12 DEF PsOff, DisableCalls
<1>13. CASE PsOffDone
  BY <1>13 DEF PsOffDone, EndCall
<1>14. CASE PsOn
  BY <1>14 DEF PsOn
<1>15. CASE PsOnDone
  BY <1>15 DEF PsOnDone, EndCall
<1>16. CASE WmtdPwrSv
  BY <1>16 DEF WmtdPwrSv, WmtdIdle, InReset
<1>17. CASE WmtdDrop
  BY <1>17 DEF WmtdDrop, WmtdIdle, InReset, Answered
<1>18. CASE WmtdStart
  BY <1>18 DEF WmtdStart, WmtdIdle, InReset
<1>19. CASE WmtdRemove
  BY <1>19 DEF WmtdRemove
<1>20. CASE WmtdDropRef
  <2>1. pc[wifi] = "held" => hold \in Nat \ {0}
    BY RefPositive DEF Refs
  <2> QED
    BY <1>20, <2>1 DEF WmtdDropRef, DropRef, EnableCalls
<1>21. CASE WmtdPolicyDone
  BY <1>21 DEF WmtdPolicyDone, EndCall
<1>22. CASE WmtdSwDeinit
  BY <1>22 DEF WmtdSwDeinit, DisableCalls
<1>23. CASE WmtdSwDeinitDone
  BY <1>23 DEF WmtdSwDeinitDone, EndCall
<1>24. CASE WmtdStpDeinit
  BY <1>24 DEF WmtdStpDeinit, Unready
<1>25. CASE WmtdStpInit
  BY <1>25 DEF WmtdStpInit, Unready
<1>26. CASE WmtdDone
  BY <1>26 DEF WmtdDone, Answered
<1>27. CASE Sleep
  BY <1>27 DEF Sleep
<1>28. CASE WakeUp
  BY <1>28 DEF WakeUp
<1>29. CASE Reset
  BY <1>29 DEF Reset, Answered
<1>30. CASE HwRst
  BY <1>30 DEF HwRst, WmtdIdle
<1>31. CASE SwRst
  BY <1>31 DEF SwRst, WmtdIdle, Unready
<1>32. CASE StpReady
  BY <1>32 DEF StpReady
<1>33. CASE UNCHANGED vars
  BY <1>33
<1> QED
  BY <1>1, <1>2, <1>3, <1>4, <1>5, <1>6, <1>7, <1>8, <1>9, <1>10, <1>11, <1>12, <1>13, <1>14, <1>15, <1>16, <1>17, <1>18, <1>19, <1>20, <1>21, <1>22, <1>23, <1>24, <1>25, <1>26, <1>27, <1>28, <1>29, <1>30, <1>31, <1>32, <1>33 DEF
    Next, Caller, Holder, Dbg, Wmtd, Restart

-----------------------------------------------------------------------------
(* The theorems. *)

LEMMA PolicyInvariant == Spec => []PolicyInv
<1>1. Init => PolicyInv
  <2> SUFFICES ASSUME Init PROVE PolicyInv
    OBVIOUS
  <2>1. Refs = {}
    BY DEF Init, Refs, Threads
  <2>2. Counted
    BY <2>1, FS_EmptySet DEF Init, Counted
  <2>3. TypeOK
    <3>1. TypePc
      BY DEF Init, TypePc, Threads, Labels
    <3>2. TypeFlags
      BY DEF Init, TypeFlags
    <3>3. TypeLocks /\ TypeRest
      BY WmtPsAssumption DEF Init, TypeLocks, TypeRest
    <3> QED
      BY <3>1, <3>2, <3>3 DEF TypeOK, TypePc, TypeFlags, TypeLocks, TypeRest
  <2>4. CallsLocked /\ Bracketed /\ MonitorFollowsPolicy
    BY WmtPsAssumption DEF Init, CallsLocked, Disabling, Enabling, Bracketed,
       Locked, Busy, MonitorFollowsPolicy, Threads
  <2> QED
    BY <2>2, <2>3, <2>4 DEF PolicyInv
<1>2. PolicyInv /\ [Next]_vars => PolicyInv'
  BY TypeStep, CountStep, CallsStep, BracketStep, MonitorStep DEF PolicyInv
<1> QED
  BY <1>1, <1>2, PTL DEF Spec

\* Every reachable state is well typed; gPsHold, for one, never goes below 0.
THEOREM TypeCorrect == Spec => []TypeOK
<1>1. PolicyInv => TypeOK
  BY DEF PolicyInv
<1> QED
  BY <1>1, PolicyInvariant, PTL

\* With STP up the monitor never runs against the policy, whatever the number
\* of callers and holders, the timeouts and the resets.
THEOREM MonitorSafe == Spec => []MonitorFollowsPolicy
<1>1. PolicyInv => MonitorFollowsPolicy
  BY DEF PolicyInv
<1> QED
  BY <1>1, PolicyInvariant, PTL

\* wmtd never waits for itself inside an op whose caller waits: gPsOpBusy is
\* set then, so no thread is inside a PSM call.
THEOREM NoWaitForItself == Spec => []NoWaitCycle
<1>1. PolicyInv => NoWaitCycle
  BY WmtPsAssumption DEF PolicyInv, NoWaitCycle, WmtdWaitsForPsm, Bracketed,
     Busy, CallsLocked, Disabling, Enabling, Threads
<1> QED
  BY <1>1, PolicyInvariant, PTL

\* The step that leaves the policy allowing the monitor, with no thread inside a
\* PSM call, has restarted it, or it was off before.
LEMMA ComesBackStep ==
  ASSUME PolicyInv, Next, PsmIdleAllowed', ~monitor', psm = "ACT", UNCHANGED linkVars
  PROVE PsmIdleAllowed /\ ~monitor
<1> USE WmtPsAssumption DEF
  policyVars, lockVars, psmVars, wmtVars, countVars, linkVars, Goto, NoCall,
  BeginCall, MayCall, PsmIdleAllowed, CallsLocked, Disabling, Enabling,
  PolicyInv, TypeOK, Threads
\* Most steps touch neither the policy nor the monitor.
<1>1. ASSUME UNCHANGED <<policyVars, policyLock, monitor>>, pc[wmtd] # "closed"
      PROVE PsmIdleAllowed /\ ~monitor
  BY <1>1
<1>2. ASSUME NEW c \in Callers, OpLock(c) \/ OpPut(c) \/ OpExpires(c)
      PROVE PsmIdleAllowed /\ ~monitor
  <2>1. UNCHANGED <<policyVars, policyLock, monitor>> /\ pc'[wmtd] = pc[wmtd]
    BY <1>2 DEF OpLock, OpPut, OpExpires
  <2> QED BY <1>1, <2>1
\* A bracket that begins sets gPsOpBusy.
<1>3. ASSUME NEW c \in Callers, OpDisable(c) \/ OpDisabled(c)  PROVE FALSE
  <2>1. CASE OpDisable(c)
    BY <2>1 DEF OpDisable, BusyUnlessFailed
  <2>2. CASE OpDisabled(c)
    BY <2>2 DEF OpDisabled, BusyUnlessFailed
  <2> QED BY <1>3, <2>1, <2>2
\* An enable is owed only when the policy allows it, and is made then.
<1>4. ASSUME NEW c \in Callers, OpEnable(c)  PROVE FALSE
  BY <1>4 DEF OpEnable, EnableCalls
<1>5. ASSUME NEW t \in Threads, pc[t] \in Enabling, EndCall(t)  PROVE FALSE
  BY <1>5 DEF EndCall
<1>6. ASSUME NEW c \in Callers, OpEnabled(c)  PROVE FALSE
  BY <1>5, <1>6 DEF OpEnabled
<1>7. ASSUME NEW h \in Holders, Hold(h)  PROVE FALSE
  BY <1>7 DEF Hold
<1>8. ASSUME NEW h \in Holders, HoldDone(h)  PROVE FALSE
  BY <1>8, RefPositive DEF HoldDone, Refs
<1>9. ASSUME NEW h \in Holders, NEW t \in Threads, NEW b, NEW o, DropRef(h, t, b, o),
             UNCHANGED <<psEnable, opBusy>>
      PROVE FALSE
  BY <1>9 DEF DropRef, EnableCalls
<1>10. ASSUME NEW h \in Holders, Release(h) \/ ReleaseDone(h)  PROVE FALSE
  BY <1>5, <1>9, <1>10 DEF Release, ReleaseDone
<1>11. CASE PsOff \/ PsOffDone \/ PsOn \/ PsOnDone
  <2>1. CASE PsOff \/ PsOffDone
    BY <2>1 DEF PsOff, PsOffDone
  <2>2. CASE PsOn
    BY <2>2 DEF PsOn
  <2>3. CASE PsOnDone
    BY <1>5, <2>3 DEF PsOnDone
  <2> QED BY <1>11, <2>1, <2>2, <2>3
<1>12. CASE WmtdPwrSv \/ WmtdDrop \/ WmtdStart \/ WmtdRemove
  <2>1. UNCHANGED <<policyVars, policyLock, monitor>> /\ pc[wmtd] = "idle"
    BY <1>12 DEF WmtdPwrSv, WmtdDrop, WmtdStart, WmtdRemove, WmtdIdle
  <2> QED BY <1>1, <2>1
<1>13. CASE WmtdDropRef
  <2>1. CASE DropRef(wifi, wmtd, "enabling", "done")
    BY <1>9, <1>13, <2>1 DEF WmtdDropRef
  <2>2. CASE NoCall /\ UNCHANGED hold
    BY <1>1, <1>13, <2>2 DEF WmtdDropRef
  <2> QED BY <1>13, <2>1, <2>2 DEF WmtdDropRef
<1>14. CASE WmtdPolicyDone
  BY <1>5, <1>14 DEF WmtdPolicyDone
\* The function that goes off last takes STP down.
<1>15. CASE WmtdSwDeinit \/ WmtdSwDeinitDone
  BY <1>15 DEF WmtdSwDeinit, WmtdSwDeinitDone
<1>16. CASE WmtdStpDeinit \/ WmtdStpInit \/ SwRst
  BY <1>16 DEF WmtdStpDeinit, WmtdStpInit, SwRst, Unready
<1>17. CASE WmtdDone
  BY <1>1, <1>17 DEF WmtdDone
<1>18. CASE Sleep \/ WakeUp \/ HwRst
  <2>1. UNCHANGED <<policyVars, policyLock, monitor, pc>>
    BY <1>18 DEF Sleep, WakeUp, HwRst
  <2> QED BY <1>1, <2>1
\* Resets change the link.
<1>19. CASE Reset \/ StpReady
  BY <1>19 DEF Reset, StpReady
<1> QED
  BY <1>2, <1>3, <1>4, <1>6, <1>7, <1>8, <1>10, <1>11, <1>12, <1>13, <1>14, <1>15,
     <1>16, <1>17, <1>18, <1>19 DEF Next, Caller, Holder, Dbg, Wmtd, Restart

\* Power saving comes back by itself: whoever makes the policy allow it again,
\* the end of an op, of the last reference or of wmt_dbg's veto, restarts the
\* monitor, unless the PSM call gave up or STP came or went in that step.
THEOREM PowerSavingComesBack == Spec => MonitorComesBack
<1>1. PolicyInv /\ [Next]_vars =>
        [PsmIdleAllowed' /\ ~monitor' =>
           \/ PsmIdleAllowed /\ ~monitor
           \/ psm # "ACT" \/ linkVars' # linkVars]_vars
  BY ComesBackStep
<1> QED
  BY <1>1, PolicyInvariant, PTL DEF Spec, MonitorComesBack

=============================================================================
