-------------------------------- MODULE WmtPs --------------------------------
(***************************************************************************)
(* The power-save policy of wmt_lib.c: who may keep the PSM monitor off,   *)
(* and the one mutex that serialises it.  Callers bracket a WMT operation  *)
(* with DISABLE_PSM_MONITOR() and ENABLE_PSM_MONITOR(); holders take       *)
(* keep-awake references (the GPS node, the Wi-Fi idle worker); wmt_dbg    *)
(* sets the policy; wmtd changes it from inside an operation.  The PSM is  *)
(* reduced to the state its callers wait for (module StpPsm has the rest). *)
(***************************************************************************)
EXTENDS Integers, Sequences, FiniteSets

CONSTANTS
  Callers,    \* threads that run WMT operations
  Holders,    \* owners of keep-awake references, the Wi-Fi worker included
  wifi,       \* the Wi-Fi worker: wlanStop() runs on wmtd
  dbg, wmtd,  \* the writer of /proc/driver/wmt_dbg; the wmtd thread
  none,
  MaxOp, MaxHold, MaxCtrl, MaxReset,  \* bounds: ops, references, ps_ctrl()
              \* calls, whole-chip resets
  Expires,    \* a PSM call may give up (20 s) before the PSM reaches ACT
  AppReset,   \* applications reset the chip too, without clearing READY
  OpTimeout   \* the caller may stop waiting before its op is done

ASSUME WmtPsAssumption ==
  /\ MaxOp \in Nat /\ MaxHold \in Nat /\ MaxCtrl \in Nat /\ MaxReset \in Nat
  /\ Expires \in BOOLEAN /\ OpTimeout \in BOOLEAN /\ AppReset \in BOOLEAN
  /\ IsFiniteSet(Holders) /\ Callers \cap Holders = {} /\ dbg # wmtd
  /\ {dbg, wmtd} \cap (Callers \cup Holders) = {}
  /\ none \notin Callers \cup Holders \cup {dbg, wmtd, "disable", "enable"}
  /\ wifi \in Holders
  /\ ({"HW_RST", "SW_RST", "SLEEP", "WAKEUP"} \cap (Callers \cup {none})) = {}

Threads == Callers \cup Holders \cup {dbg, wmtd}
Calls == {"disable", "enable"}
Commands == Callers \cup {"SLEEP", "WAKEUP"}
Labels == {"idle", "disable", "disabling", "put", "wait", "enable", "enabling",
           "holding", "held", "releasing", "off", "on",
           "remove", "closing", "closed", "done"}

VARIABLES
  psEnable,    \* gPsEnable
  hold,        \* gPsHold
  opBusy,      \* gPsOpBusy
  policyLock,  \* owner of gPsPolicyLock
  call,        \* the PSM call its owner is inside
  psmLock,     \* owner of gDevWmt.psm_lock
  pc,          \* where each thread is
  monitor,     \* the PSM monitor runs: DISABLE_MONITOR is clear
  psm,         \* work_state of the PSM
  wmtq, exec,  \* wmtd's queue, and the op it executes
  ready,       \* mtk_wcn_stp_is_ready()
  chip,        \* "on", "off", and the stages of a whole-chip reset: RST_ON is
               \* set in "reset" and "start"
  nOp, nHold, nCtrl, nReset

policyVars == <<psEnable, hold, opBusy>>
lockVars == <<policyLock, call>>
psmVars == <<monitor, psm>>
wmtVars == <<wmtq, exec>>
countVars == <<nOp, nHold, nCtrl, nReset>>
linkVars == <<ready, chip>>
vars == <<policyVars, lockVars, psmLock, pc, psmVars, wmtVars, linkVars, countVars>>

TypeOK ==
  /\ psEnable \in BOOLEAN /\ hold \in Nat /\ opBusy \in BOOLEAN
  /\ policyLock \in Threads \cup {none} /\ call \in Calls \cup {none}
  /\ psmLock \in Callers \cup {none}
  /\ pc \in [Threads -> Labels]
  /\ monitor \in BOOLEAN /\ psm \in {"ACT", "ACT_INACT", "INACT", "INACT_ACT"}
  /\ wmtq \in Seq(Commands) /\ exec \in Callers \cup {"HW_RST", "SW_RST", none}
  /\ ready \in BOOLEAN /\ chip \in {"on", "off", "opening", "reset", "start"}
  /\ nOp \in 0..MaxOp /\ nHold \in 0..MaxHold
  /\ nCtrl \in 0..MaxCtrl /\ nReset \in 0..MaxReset

\* A function is on, its FUNC_ON op is over, and the policy is either.
Init ==
  /\ psEnable \in BOOLEAN /\ hold = 0 /\ opBusy = FALSE
  /\ policyLock = none /\ call = none /\ psmLock = none
  /\ pc = [t \in Threads |-> "idle"]
  /\ monitor = psEnable /\ psm = "ACT"
  /\ wmtq = <<>> /\ exec = none /\ ready = TRUE /\ chip = "on"
  /\ nOp = 0 /\ nHold = 0 /\ nCtrl = 0 /\ nReset = 0

-----------------------------------------------------------------------------
(* gPsPolicyLock and the PSM calls made under it. *)

Goto(t, label) == pc' = [pc EXCEPT ![t] = label]

\* mtk_wcn_stp_psm_disable()/enable(): nothing unless STP is ready; both stop
\* the monitor first and then wait for ACT, under the lock.
BeginCall(t, c) ==
  /\ policyLock' = t /\ call' = c /\ monitor' = FALSE
  /\ UNCHANGED psm

NoCall == UNCHANGED <<lockVars, psmVars>>

\* The call returns: ACT is reached, or every attempt has expired.  Only an
\* enable that succeeded restarts the monitor.
EndCall(t) ==
  /\ policyLock = t
  /\ \/ psm = "ACT" /\ monitor' = (call = "enable")
     \/ psm # "ACT" /\ Expires /\ UNCHANGED monitor
  /\ policyLock' = none /\ call' = none
  /\ UNCHANGED psm

\* wmt_lib_ps_disable_locked() and wmt_lib_ps_enable_locked() with n references.
DisableCalls == psEnable /\ ready
EnableCalls(n) == psEnable /\ ready /\ n = 0

\* Variant: a policy change goes to the PSM while an op is in flight.
MayCallInOp == TRUE

\* The test of gPsOpBusy by the callers outside an op bracket.
MayCall == ~opBusy

\* Variant: the policy is not told of the op.
BusyUnlessFailedNever(ok) == FALSE

\* gPsOpBusy = !ret
BusyUnlessFailed(ok) == ok

-----------------------------------------------------------------------------
(* An op: DISABLE_PSM_MONITOR(), wmt_lib_put_act_op(), ENABLE_PSM_MONITOR(). *)

OpLock(c) ==
  /\ pc[c] = "idle" /\ psmLock = none /\ nOp < MaxOp
  /\ \A i \in DOMAIN wmtq : wmtq[i] # c
  /\ exec # c
  /\ psmLock' = c /\ nOp' = nOp + 1 /\ Goto(c, "disable")
  /\ UNCHANGED <<policyVars, lockVars, psmVars, wmtVars, linkVars, nHold, nCtrl, nReset>>

OpDisable(c) ==
  /\ pc[c] = "disable" /\ policyLock = none
  /\ \/ DisableCalls /\ BeginCall(c, "disable") /\ Goto(c, "disabling")
        /\ UNCHANGED opBusy
     \/ ~DisableCalls /\ NoCall /\ Goto(c, "put")
        /\ opBusy' = BusyUnlessFailed(TRUE)
  /\ UNCHANGED <<psEnable, hold, psmLock, wmtVars, linkVars, countVars>>

OpDisabled(c) ==
  /\ pc[c] = "disabling" /\ EndCall(c)
  /\ LET ok == psm = "ACT"
     IN /\ opBusy' = BusyUnlessFailed(ok)
        /\ psmLock' = IF ok THEN c ELSE none
        /\ Goto(c, IF ok THEN "put" ELSE "idle")
  /\ UNCHANGED <<psEnable, hold, wmtVars, linkVars, countVars>>

OpPut(c) ==
  /\ pc[c] = "put" /\ wmtq' = Append(wmtq, c) /\ Goto(c, "wait")
  /\ UNCHANGED <<policyVars, lockVars, psmLock, psmVars, exec, linkVars, countVars>>

\* The wait of wmt_lib_put_act_op() runs out; the op stays with wmtd.
OpExpires(c) ==
  /\ OpTimeout /\ pc[c] = "wait" /\ Goto(c, "enable")
  /\ UNCHANGED <<policyVars, lockVars, psmLock, psmVars, wmtVars, linkVars, countVars>>

OpEnable(c) ==
  /\ pc[c] = "enable" /\ policyLock = none
  /\ opBusy' = FALSE
  /\ \/ EnableCalls(hold) /\ BeginCall(c, "enable") /\ Goto(c, "enabling")
        /\ UNCHANGED psmLock
     \/ ~EnableCalls(hold) /\ NoCall /\ Goto(c, "idle") /\ psmLock' = none
  /\ UNCHANGED <<psEnable, hold, wmtVars, linkVars, countVars>>

OpEnabled(c) ==
  /\ pc[c] = "enabling" /\ EndCall(c)
  /\ psmLock' = none /\ Goto(c, "idle")
  /\ UNCHANGED <<policyVars, wmtVars, linkVars, countVars>>

-----------------------------------------------------------------------------
(* Keep-awake references. *)

\* mtk_wcn_wmt_psm_hold(): the first reference stops the monitor whatever
\* gPsEnable says, and counts although the PSM call may fail.
Hold(h) ==
  /\ pc[h] = "idle" /\ policyLock = none /\ nHold < MaxHold
  /\ hold' = hold + 1 /\ nHold' = nHold + 1
  /\ IF hold' = 1 /\ MayCall /\ ready
       THEN BeginCall(h, "disable") /\ Goto(h, "holding")
       ELSE NoCall /\ Goto(h, "held")
  /\ UNCHANGED <<psEnable, opBusy, psmLock, wmtVars, linkVars, nOp, nCtrl, nReset>>

HoldDone(h) ==
  /\ pc[h] = "holding" /\ EndCall(h) /\ Goto(h, "held")
  /\ UNCHANGED <<policyVars, psmLock, wmtVars, linkVars, countVars>>

\* Variant: the last reference dropped leaves the PSM off.
DropRefOnly(h, t, busy, over) ==
  /\ policyLock = none /\ hold' = hold - 1 /\ NoCall
  /\ pc' = [pc EXCEPT ![h] = "idle", ![t] = over]

\* mtk_wcn_wmt_psm_release() of h's reference, by thread t: the last one gives
\* control back to the policy.  t goes on at `busy' or at `over'.
DropRef(h, t, busy, over) ==
  /\ policyLock = none /\ hold' = hold - 1
  /\ IF MayCall /\ EnableCalls(hold - 1)
       THEN BeginCall(t, "enable") /\ pc' = [pc EXCEPT ![h] = "idle", ![t] = busy]
       ELSE NoCall /\ pc' = [pc EXCEPT ![h] = "idle", ![t] = over]

Release(h) ==
  /\ pc[h] = "held" /\ DropRef(h, h, "releasing", "idle")
  /\ UNCHANGED <<psEnable, opBusy, psmLock, wmtVars, linkVars, countVars>>

ReleaseDone(h) ==
  /\ pc[h] = "releasing" /\ EndCall(h) /\ Goto(h, "idle")
  /\ UNCHANGED <<policyVars, psmLock, wmtVars, linkVars, countVars>>

-----------------------------------------------------------------------------
(* wmt_lib_ps_ctrl(), from wmt_dbg_psm_ctrl(). *)

\* ps_ctrl(0): gPsEnable is cleared after the PSM call, whatever it returned.
PsOff ==
  /\ pc[dbg] = "idle" /\ policyLock = none /\ nCtrl < MaxCtrl
  /\ nCtrl' = nCtrl + 1
  /\ IF MayCall /\ DisableCalls
       THEN BeginCall(dbg, "disable") /\ Goto(dbg, "off") /\ UNCHANGED psEnable
       ELSE NoCall /\ psEnable' = FALSE /\ UNCHANGED pc
  /\ UNCHANGED <<hold, opBusy, psmLock, wmtVars, linkVars, nOp, nHold, nReset>>

PsOffDone ==
  /\ pc[dbg] = "off" /\ EndCall(dbg) /\ Goto(dbg, "idle")
  /\ psEnable' = FALSE
  /\ UNCHANGED <<hold, opBusy, psmLock, wmtVars, linkVars, countVars>>

PsOn ==
  /\ pc[dbg] = "idle" /\ policyLock = none /\ nCtrl < MaxCtrl
  /\ nCtrl' = nCtrl + 1
  /\ psEnable' = TRUE
  /\ IF MayCall /\ hold = 0 /\ ready
       THEN BeginCall(dbg, "enable") /\ Goto(dbg, "on")
       ELSE NoCall /\ UNCHANGED pc
  /\ UNCHANGED <<hold, opBusy, psmLock, wmtVars, linkVars, nOp, nHold, nReset>>

PsOnDone ==
  /\ pc[dbg] = "on" /\ EndCall(dbg) /\ Goto(dbg, "idle")
  /\ UNCHANGED <<policyVars, psmLock, wmtVars, linkVars, countVars>>

-----------------------------------------------------------------------------
(* wmtd: executes its queue, and changes the policy inside an op. *)

WmtdIdle == pc[wmtd] = "idle" /\ exec = none
InReset == chip \in {"reset", "start"}

\* The thread that waits for op x, if it still does, goes on.
Answered(x) == [t \in Threads |-> IF t = x /\ pc[t] = "wait" THEN "enable" ELSE pc[t]]

\* A PWR_SV op of psmd, in one step; it has no effect on a PSM that was reset.
WmtdPwrSv ==
  /\ WmtdIdle /\ wmtq # <<>> /\ Head(wmtq) \in {"SLEEP", "WAKEUP"}
  /\ wmtq' = Tail(wmtq)
  /\ psm' = CASE ~InReset /\ psm = "ACT_INACT" -> "INACT"
              [] ~InReset /\ psm = "INACT_ACT" -> "ACT"
              [] OTHER -> psm
  /\ UNCHANGED <<policyVars, lockVars, psmLock, pc, monitor, exec, linkVars, countVars>>

\* Variant: the caller of a dropped op is not woken.
WmtdDropSilently ==
  /\ WmtdIdle /\ InReset /\ wmtq # <<>> /\ Head(wmtq) \in Callers
  /\ wmtq' = Tail(wmtq)
  /\ UNCHANGED <<policyVars, lockVars, psmLock, pc, psmVars, exec, linkVars, countVars>>

\* With RST_ON set, an op of a caller is answered and not executed.
WmtdDrop ==
  /\ WmtdIdle /\ InReset /\ wmtq # <<>> /\ Head(wmtq) \in Callers
  /\ wmtq' = Tail(wmtq) /\ pc' = Answered(Head(wmtq))
  /\ UNCHANGED <<policyVars, lockVars, psmLock, psmVars, exec, linkVars, countVars>>

WmtdStart ==
  /\ WmtdIdle /\ ~InReset /\ wmtq # <<>> /\ Head(wmtq) \in Callers
  /\ exec' = Head(wmtq) /\ wmtq' = Tail(wmtq)
  /\ UNCHANGED <<policyVars, lockVars, psmLock, pc, psmVars, linkVars, countVars>>

\* wlanStop(), in the Wi-Fi off op or in HW_RST: it cancels the worker, waits
\* for the call the worker is inside, then drops its reference.
WmtdRemove ==
  /\ pc[wmtd] = "idle"
  /\ exec = "HW_RST" \/ (exec \in Callers /\ chip = "on")
  /\ Goto(wmtd, "remove")
  /\ UNCHANGED <<policyVars, lockVars, psmLock, psmVars, wmtVars, linkVars, countVars>>

WmtdDropRef ==
  /\ pc[wmtd] = "remove"
  /\ \/ pc[wifi] = "held" /\ DropRef(wifi, wmtd, "enabling", "done")
     \/ pc[wifi] = "idle" /\ NoCall /\ Goto(wmtd, "done") /\ UNCHANGED hold
  /\ UNCHANGED <<psEnable, opBusy, psmLock, wmtVars, linkVars, countVars>>

WmtdPolicyDone ==
  /\ pc[wmtd] = "enabling" /\ EndCall(wmtd) /\ Goto(wmtd, "done")
  /\ UNCHANGED <<policyVars, psmLock, wmtVars, linkVars, countVars>>

\* The op that turns the last function off: wmt_lib_ps_disable() in
\* sw_deinit(), skipped while an op is in flight ...
WmtdSwDeinit ==
  /\ exec \in Callers /\ pc[wmtd] \in {"idle", "done"} /\ chip = "on"
  /\ policyLock = none
  /\ IF MayCall /\ DisableCalls
       THEN BeginCall(wmtd, "disable") /\ Goto(wmtd, "closing")
       ELSE NoCall /\ Goto(wmtd, "closed")
  /\ UNCHANGED <<policyVars, psmLock, wmtVars, linkVars, countVars>>

WmtdSwDeinitDone ==
  /\ pc[wmtd] = "closing" /\ EndCall(wmtd) /\ Goto(wmtd, "closed")
  /\ UNCHANGED <<policyVars, psmLock, wmtVars, linkVars, countVars>>

\* stp_deinit() and the head of stp_init() clear READY and reset the PSM.
Unready == ready' = FALSE /\ monitor' = FALSE /\ psm' = "ACT"

\* ... then wmt_core_stp_deinit().
WmtdStpDeinit ==
  /\ pc[wmtd] = "closed" /\ Goto(wmtd, "done")
  /\ Unready /\ chip' = IF chip = "on" THEN "off" ELSE chip
  /\ UNCHANGED <<policyVars, lockVars, psmLock, wmtVars, countVars>>

\* The op that turns the first function on: wmt_core_stp_init().  The enable
\* in its sw_init() finds STP not ready and does nothing.
WmtdStpInit ==
  /\ exec \in Callers /\ pc[wmtd] = "idle" /\ chip = "off"
  /\ Unready /\ chip' = "opening"
  /\ UNCHANGED <<policyVars, lockVars, psmLock, pc, wmtVars, countVars>>

\* The op is done.
WmtdDone ==
  /\ exec # none /\ pc[wmtd] \in {"idle", "done"} /\ chip # "opening"
  /\ exec' = none /\ pc' = [Answered(exec) EXCEPT ![wmtd] = "idle"]
  /\ chip' = IF exec = "HW_RST" THEN "start" ELSE chip
  /\ UNCHANGED <<policyVars, lockVars, psmLock, psmVars, wmtq, ready, countVars>>

-----------------------------------------------------------------------------
(* The PSM, as far as its callers depend on it, and the whole-chip reset. *)

Sleep ==
  /\ monitor /\ psm = "ACT" /\ ready
  /\ psm' = "ACT_INACT" /\ wmtq' = Append(wmtq, "SLEEP")
  /\ UNCHANGED <<policyVars, lockVars, psmLock, pc, monitor, exec, linkVars, countVars>>

\* Asked by a PSM call, by data or by the chip.
WakeUp ==
  /\ psm = "INACT" /\ ready
  /\ psm' = "INACT_ACT" /\ wmtq' = Append(wmtq, "WAKEUP")
  /\ UNCHANGED <<policyVars, lockVars, psmLock, pc, monitor, exec, linkVars, countVars>>

\* wmt_lib_cmb_rst() sets RST_ON, resets the PSM and answers the current op,
\* which wmtd goes on executing.  STP clears READY before a reset it starts.
Reset ==
  /\ chip = "on" /\ nReset < MaxReset /\ nReset' = nReset + 1
  /\ chip' = "reset" /\ (ready' = FALSE \/ (AppReset /\ UNCHANGED ready))
  /\ monitor' = FALSE /\ psm' = "ACT" /\ pc' = Answered(exec)
  /\ UNCHANGED <<policyVars, lockVars, psmLock, wmtVars, nOp, nHold, nCtrl>>

HwRst ==
  /\ chip = "reset" /\ WmtdIdle /\ wmtq = <<>>
  /\ exec' = "HW_RST"
  /\ UNCHANGED <<policyVars, lockVars, psmLock, pc, psmVars, wmtq, linkVars, countVars>>

\* wmt_lib_sw_rst() and, in its op, the head of wmt_core_stp_init().
SwRst ==
  /\ chip = "start" /\ WmtdIdle /\ wmtq = <<>>
  /\ Unready /\ chip' = "opening" /\ exec' = "SW_RST"
  /\ UNCHANGED <<policyVars, lockVars, psmLock, pc, wmtq, countVars>>

\* mtk_wcn_stp_ready(1), which disables a PSM that is not.  The seconds of the
\* bring-up before it outlast a PSM call that finds ACT.
StpReady ==
  /\ chip = "opening" /\ policyLock = none
  /\ ready' = TRUE /\ chip' = "on" /\ monitor' = FALSE /\ psm' = "ACT"
  /\ exec' = IF exec = "SW_RST" THEN none ELSE exec
  /\ UNCHANGED <<policyVars, lockVars, psmLock, pc, wmtq, countVars>>

-----------------------------------------------------------------------------
Caller(c) ==
  \/ OpLock(c) \/ OpDisable(c) \/ OpDisabled(c) \/ OpPut(c) \/ OpExpires(c)
  \/ OpEnable(c) \/ OpEnabled(c)
Holder(h) == Hold(h) \/ HoldDone(h) \/ Release(h) \/ ReleaseDone(h)
Dbg == PsOff \/ PsOffDone \/ PsOn \/ PsOnDone
Wmtd ==
  \/ WmtdPwrSv \/ WmtdDrop \/ WmtdStart \/ WmtdRemove \/ WmtdDropRef
  \/ WmtdPolicyDone \/ WmtdSwDeinit \/ WmtdSwDeinitDone \/ WmtdStpDeinit
  \/ WmtdStpInit \/ WmtdDone
Restart == HwRst \/ SwRst \/ StpReady

Next ==
  \/ \E c \in Callers : Caller(c)
  \/ \E h \in Holders : Holder(h)
  \/ Dbg \/ Wmtd \/ Sleep \/ WakeUp \/ Reset \/ Restart

Spec == Init /\ [][Next]_vars

(***************************************************************************)
(* Threads inside a call go on, wmtd and the reset make progress, psmd     *)
(* wakes the chip, and the mutexes are handed over in turn.                *)
(***************************************************************************)
Fairness ==
  /\ \A c \in Callers :
       /\ WF_vars(OpDisabled(c) \/ OpPut(c) \/ OpEnabled(c))
       /\ SF_vars(OpDisable(c)) /\ SF_vars(OpEnable(c))
  /\ \A h \in Holders : WF_vars(HoldDone(h) \/ ReleaseDone(h))
  /\ WF_vars(PsOffDone \/ PsOnDone)
  /\ SF_vars(WmtdDropRef) /\ WF_vars(WakeUp)
  /\ WF_vars(WmtdPwrSv \/ WmtdDrop \/ WmtdStart \/ WmtdPolicyDone
             \/ WmtdSwDeinitDone \/ WmtdStpDeinit \/ WmtdDone)
  /\ WF_vars(Restart)

FairSpec == Spec /\ Fairness

-----------------------------------------------------------------------------
(* With STP up, the monitor runs only if the policy allows it, no reference *)
(* is held and no op is in flight, whatever changed the policy and when:    *)
(* the three are tested and set by different threads, some inside an op,    *)
(* and an enable waits seconds between its test and its effect.             *)
MonitorFollowsPolicy ==
  monitor /\ ready => psEnable /\ hold = 0 /\ ~opBusy

\* wmtd executes an op whose caller still waits for it: then it never waits
\* for a PSM transition, in its own PSM call or behind another thread's, that
\* only wmtd itself could complete.
WmtdWaitsForPsm ==
  psm # "ACT" /\ \/ pc[wmtd] \in {"enabling", "closing"}
                 \/ pc[wmtd] = "remove" /\ policyLock # none
NoWaitCycle ==
  exec \in Callers /\ pc[exec] = "wait" => ~WmtdWaitsForPsm

\* Power saving comes back by itself: with no thread inside a PSM call, the
\* policy allowing it and nothing asking for the chip, the monitor is off only
\* because STP goes down, was brought up again, or the PSM call gave up.
PsmIdleAllowed ==
  /\ ready /\ policyLock = none /\ pc[wmtd] # "closed"
  /\ psEnable /\ hold = 0 /\ ~opBusy
MonitorComesBack ==
  [][PsmIdleAllowed' /\ ~monitor' =>
       \/ PsmIdleAllowed /\ ~monitor
       \/ psm # "ACT" \/ linkVars' # linkVars]_vars

\* Every op bracket ends, and so does the wait for psm_lock and gPsPolicyLock
\* in it: no thread waits for wmtd with a lock that wmtd needs.
BracketEnds == \A c \in Callers : pc[c] # "idle" ~> pc[c] = "idle"

=============================================================================
