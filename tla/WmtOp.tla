-------------------------------- MODULE WmtOp --------------------------------
(***************************************************************************)
(* WMT operations (wmt_lib.c): a thread takes an op from the pool, puts it *)
(* into the active queue and waits for its answer; wmtd executes the ops   *)
(* in order.  The op goes back to the pool by whoever is responsible: the  *)
(* caller, also when its timeout expires while wmtd still has the op, or   *)
(* wmtd for an op nobody waits for.  A whole-chip reset, from the BTM      *)
(* thread or a writer of /proc/driver/wmt_dbg, answers for wmtd, empties   *)
(* the active queue and uses the same pool and queue for its own ops.      *)
(***************************************************************************)
EXTENDS Integers, Sequences, SequencesExt

CONSTANTS
  Ops,       \* the pool (WMT_OP_BUF_SIZE)
  Callers,   \* threads in mtk_wcn_wmt_func_ctrl()
  Resetters, \* threads that run wmt_lib_cmb_rst()
  Testers,   \* those of them with WMTRSTSRC_RESET_TEST
  Retries,   \* RETRYTIMES
  MaxCalls, MaxResets,  \* bounds
  NoOp

ASSUME WmtOpAssumption ==
  /\ NoOp \notin Ops /\ Callers \cap Resetters = {} /\ Testers \subseteq Resetters
  /\ Retries \in Nat \ {0}
  /\ MaxCalls \in Nat /\ MaxResets \in Nat

Threads == Callers \cup Resetters
ResetOps == {"GPIO", "HW_RST", "SW_RST"}
Ids == ResetOps \cup {"FUNC", "PWR_SV"}
Stages == {"idle", "got", "wait", "claim", "peek", "raise", "drain_hw", "GPIO",
           "HW_RST", "drain_sw", "SW_RST", "end", "leave"}

VARIABLES
  free,      \* how often each op is in the free queue
  active,    \* the active queue
  id, waits, res, sig,  \* of each op: opId, timeoutValue # 0, result, completion
  did,       \* wmtd executed its waiting caller's op with success
  pc, has,   \* where each thread is, the op it owns
  try, peek, \* of a reset: tries left, the current op it read
  wmtd, cur, \* [at, op, ok] of wmtd; pCurOP
  rstOn, coredump, ready,  \* WMT_STAT_RST_ON, coredump_start_get(), STP ready
  chip,      \* what of the reset was executed last: "", "HW_RST", "SW_RST"
  before,    \* callers whose op was queued before the reset
  calls, resets

opVars == <<id, waits, res, sig, did>>
rstVars == <<rstOn, coredump, ready, chip, before>>
ctxVars == <<try, peek, resets>>
vars == <<free, active, opVars, pc, has, ctxVars, wmtd, cur, rstVars, calls>>

TypeOK ==
  /\ free \in [Ops -> Nat] /\ active \in Seq(Ops)
  /\ id \in [Ops -> Ids] /\ res \in [Ops -> {"ok", "fail", "none"}]
  /\ waits \in [Ops -> BOOLEAN] /\ sig \in [Ops -> BOOLEAN] /\ did \in [Ops -> BOOLEAN]
  /\ pc \in [Threads -> Stages] /\ has \in [Threads -> Ops \cup {NoOp}]
  /\ try \in [Resetters -> 0..Retries] /\ peek \in [Resetters -> Ops \cup {NoOp}]
  /\ wmtd \in [at : {"idle", "took", "set", "run", "answer"}, op : Ops \cup {NoOp}, ok : BOOLEAN]
  /\ cur \in Ops \cup {NoOp}
  /\ rstOn \in BOOLEAN /\ coredump \in BOOLEAN /\ ready \in BOOLEAN
  /\ chip \in {"", "HW_RST", "SW_RST"} /\ before \subseteq Callers
  /\ calls \in 0..MaxCalls /\ resets \in 0..MaxResets

Init ==
  /\ free = [o \in Ops |-> 1] /\ active = <<>>
  /\ id = [o \in Ops |-> "FUNC"] /\ res = [o \in Ops |-> "ok"]
  /\ waits = [o \in Ops |-> FALSE] /\ sig = [o \in Ops |-> FALSE]
  /\ did = [o \in Ops |-> FALSE]
  /\ pc = [t \in Threads |-> "idle"] /\ has = [t \in Threads |-> NoOp]
  /\ try = [t \in Resetters |-> 0] /\ peek = [t \in Resetters |-> NoOp]
  /\ wmtd = [at |-> "idle", op |-> NoOp, ok |-> FALSE] /\ cur = NoOp
  /\ rstOn = FALSE /\ coredump = FALSE /\ ready = TRUE
  /\ chip = "" /\ before = {} /\ calls = 0 /\ resets = 0

-----------------------------------------------------------------------------
(* The pool and the active queue.                                          *)

\* Ops the active queue, wmtd or a reset still refers to.
Held(o) == o \in ToSet(active) \/ wmtd.op = o \/ o \in {peek[t] : t \in Resetters}

\* wmt_lib_get_free_op().  The free queue is a ring of 16: an op given back
\* comes out again after the ones before it, and is assumed not to be Held then.
Available == {o \in Ops : free[o] > 0}
Usable == {o \in Available : ~Held(o)}
NextOp == CHOOSE o \in Usable : TRUE   \* they are alike
Back(f, o) == [f EXCEPT ![o] = @ + 1]
Out(f, o) == [f EXCEPT ![o] = @ - 1]

\* wmt_lib_put_act_op(), up to the wait; -9 until someone answers.
FreshStale(o) == res[o]
Fresh(o) == "none"
Enqueue(o, i, w) ==
  /\ active' = Append(active, o)
  /\ id' = [id EXCEPT ![o] = i] /\ waits' = [waits EXCEPT ![o] = w]
  /\ res' = [res EXCEPT ![o] = IF w THEN Fresh(o) ELSE @]
  /\ sig' = [sig EXCEPT ![o] = IF w THEN FALSE ELSE @]
  /\ UNCHANGED did

\* osal_op_raise_signal()
Answer(o, r) == res' = [res EXCEPT ![o] = r] /\ sig' = [sig EXCEPT ![o] = TRUE]
Succeeded(t) == res[has[t]] = "ok"

\* The wait ends by a signal or by the timeout; the op goes back in any case.
GiveBack(t) == free' = Back(free, has[t]) /\ has' = [has EXCEPT ![t] = NoOp]
Forget(t) == did' = [did EXCEPT ![has[t]] = FALSE] /\ UNCHANGED <<id, waits, res>>
Answered(t) ==
  sig[has[t]] /\ sig' = [sig EXCEPT ![has[t]] = FALSE] /\ GiveBack(t) /\ Forget(t)
Expired(t) ==
  ~sig[has[t]] /\ UNCHANGED sig /\ GiveBack(t) /\ Forget(t)

-----------------------------------------------------------------------------
(* mtk_wcn_wmt_func_ctrl() and psmd's wmt_lib_ps_action().                 *)

Get(t) ==
  /\ pc[t] = "idle" /\ calls < MaxCalls
  /\ calls' = calls + 1
  /\ Usable # {}
  /\ free' = Out(free, NextOp) /\ has' = [has EXCEPT ![t] = NextOp]
  /\ pc' = [pc EXCEPT ![t] = "got"]
  /\ UNCHANGED <<active, opVars, ctxVars, wmtd, cur, rstVars>>

\* DISABLE_PSM_MONITOR() failed, or a core dump blocks the op.
GiveUp(t) ==
  /\ pc[t] = "got"
  /\ GiveBack(t) /\ pc' = [pc EXCEPT ![t] = "idle"]
  /\ UNCHANGED <<active, opVars, ctxVars, wmtd, cur, rstVars, calls>>

Put(t) ==
  /\ pc[t] = "got" /\ ~coredump
  /\ Enqueue(has[t], "FUNC", TRUE)
  /\ pc' = [pc EXCEPT ![t] = "wait"]
  /\ UNCHANGED <<free, has, ctxVars, wmtd, cur, rstVars, calls>>

Return(t) ==
  /\ pc[t] = "wait" /\ (Answered(t) \/ Expired(t))
  /\ pc' = [pc EXCEPT ![t] = "idle"] /\ before' = before \ {t}
  /\ UNCHANGED <<active, ctxVars, wmtd, cur, rstOn, coredump, ready, chip, calls>>

\* Nobody waits for psmd's op: without an op, or in a core dump, it is lost.
PsmdPut ==
  /\ calls < MaxCalls /\ calls' = calls + 1 /\ ~coredump
  /\ Usable # {} /\ free' = Out(free, NextOp) /\ Enqueue(NextOp, "PWR_SV", FALSE)
  /\ UNCHANGED <<pc, has, ctxVars, wmtd, cur, rstVars>>

-----------------------------------------------------------------------------
(* wmtd_thread()                                                           *)

Take ==
  /\ wmtd.at = "idle" /\ active # <<>>
  /\ wmtd' = [at |-> "took", op |-> Head(active), ok |-> FALSE] /\ active' = Tail(active)
  /\ UNCHANGED <<free, opVars, pc, has, ctxVars, cur, rstVars, calls>>

\* WMT_STAT_RST_ON is tested before pCurOP is set.
RefusedNever(o) == FALSE
Refused(o) == rstOn /\ id[o] \notin ResetOps
Test ==
  /\ wmtd.at = "took"
  /\ wmtd' = [wmtd EXCEPT !.at = IF Refused(wmtd.op) THEN "answer" ELSE IF rstOn THEN "run" ELSE "set"]
  /\ UNCHANGED <<free, active, opVars, pc, has, ctxVars, cur, rstVars, calls>>

SetCurrent ==
  /\ wmtd.at = "set"
  /\ cur' = wmtd.op /\ wmtd' = [wmtd EXCEPT !.at = "run"]
  /\ UNCHANGED <<free, active, opVars, pc, has, ctxVars, rstVars, calls>>

\* SW_RST makes STP unready while it runs (wmt_core_stp_init()).
Unready ==
  /\ wmtd.at = "run" /\ id[wmtd.op] = "SW_RST" /\ ready
  /\ ready' = FALSE
  /\ UNCHANGED <<free, active, opVars, pc, has, ctxVars, wmtd, cur, rstOn, coredump,
                 chip, before, calls>>

\* wmt_core_opid() returns; pCurOP is cleared before the answer.
Execute(ok) ==
  LET i == id[wmtd.op] IN
  /\ wmtd.at = "run" /\ (i = "SW_RST" => ~ready)
  /\ wmtd' = [wmtd EXCEPT !.at = "answer", !.ok = ok] /\ cur' = NoOp
  /\ did' = [did EXCEPT ![wmtd.op] = ok /\ \E t \in Threads : has[t] = wmtd.op]
  /\ ready' \in CASE i = "SW_RST" -> {ok} [] i = "FUNC" -> BOOLEAN [] OTHER -> {ready}
  /\ chip' = CASE i = "HW_RST" -> (IF ok THEN "HW_RST" ELSE "")
               [] i = "SW_RST" -> (IF ok /\ chip = "HW_RST" THEN "SW_RST" ELSE chip)
               [] OTHER -> chip
  /\ UNCHANGED <<free, active, id, waits, res, sig, pc, has, ctxVars, rstOn,
                 coredump, before, calls>>

\* The waiting caller frees its op, wmtd an op nobody waits for.
FreedByAll(o) == TRUE
FreedByWmtd(o) == ~waits[o]
Report ==
  LET o == wmtd.op IN
  /\ wmtd.at = "answer"
  /\ IF waits[o] THEN Answer(o, IF wmtd.ok THEN "ok" ELSE "fail") ELSE UNCHANGED <<res, sig>>
  /\ free' = IF FreedByWmtd(o) THEN Back(free, o) ELSE free
  /\ wmtd' = [at |-> "idle", op |-> NoOp, ok |-> FALSE]
  /\ UNCHANGED <<active, id, waits, did, pc, has, ctxVars, cur, rstVars, calls>>

\* The chip asserts: STP starts a core dump and the BTM thread will reset it.
ChipAsserts ==
  /\ ~coredump /\ resets < MaxResets
  /\ coredump' = TRUE
  /\ UNCHANGED <<free, active, opVars, pc, has, ctxVars, wmtd, cur, rstOn, ready, chip,
                 before, calls>>

-----------------------------------------------------------------------------
(* wmt_lib_cmb_rst()                                                       *)

Goto(t, stage) == pc' = [pc EXCEPT ![t] = stage]

Changing == cur # NoOp /\ id[cur] = "FUNC"

\* A test source is turned away while a function goes on or off.
RstEnter(t) ==
  /\ pc[t] = "idle" /\ resets < MaxResets
  /\ t \in Testers => ready /\ ~Changing
  /\ resets' = resets + 1 /\ Goto(t, "claim")
  /\ UNCHANGED <<free, active, opVars, has, try, peek, wmtd, cur, rstVars, calls>>

\* A reset already going on: WMTRSTRET_ONGOING.
RstClaim(t) ==
  /\ pc[t] = "claim"
  /\ IF rstOn THEN /\ Goto(t, "leave") /\ UNCHANGED <<rstOn, try, chip, before>>
              ELSE /\ Goto(t, "peek") /\ rstOn' = TRUE
                   /\ try' = [try EXCEPT ![t] = Retries]
                   /\ chip' = "" /\ before' = {c \in Callers : pc[c] = "wait"}
  /\ UNCHANGED <<free, active, opVars, has, peek, resets, wmtd, cur, coredump, ready, calls>>

\* The current op is read and answered with -1 while wmtd goes on with it.
RstPeek(t) ==
  /\ pc[t] = "peek"
  /\ peek' = [peek EXCEPT ![t] = cur] /\ Goto(t, "raise")
  /\ UNCHANGED <<free, active, opVars, has, try, resets, wmtd, cur, rstVars, calls>>

RstRaise(t) ==
  /\ pc[t] = "raise"
  /\ IF peek[t] # NoOp /\ waits[peek[t]] THEN Answer(peek[t], "fail") ELSE UNCHANGED <<res, sig>>
  /\ peek' = [peek EXCEPT ![t] = NoOp] /\ Goto(t, "drain_hw")
  /\ UNCHANGED <<free, active, id, waits, did, has, try, resets, wmtd, cur, rstVars, calls>>

\* wmt_lib_state_init(): one op of the active queue.
DrainSilent(o) == UNCHANGED <<res, sig>>
DrainAnswer(o) == Answer(o, "fail")
Drain(t) ==
  LET o == Head(active) IN
  /\ pc[t] \in {"drain_hw", "drain_sw"} /\ active # <<>>
  /\ active' = Tail(active)
  /\ IF waits[o] THEN DrainAnswer(o) /\ UNCHANGED free
                 ELSE free' = Back(free, o) /\ UNCHANGED <<res, sig>>
  /\ UNCHANGED <<id, waits, did, pc, has, ctxVars, wmtd, cur, rstVars, calls>>

Drained(t) ==
  /\ pc[t] \in {"drain_hw", "drain_sw"} /\ active = <<>>
  /\ Goto(t, IF pc[t] = "drain_hw" THEN "GPIO" ELSE "SW_RST")
  /\ UNCHANGED <<free, active, opVars, has, ctxVars, wmtd, cur, rstVars, calls>>

\* The result of GPIO_STATE is ignored; a failed HW_RST or SW_RST starts over.
NextTrySame(n) == n
NextTry(n) == n - 1
MoreTries(n) == n > 0
MayGoOn(t) == MoreTries(NextTry(try[t]))
AfterHwAlways(ok) == TRUE
AfterHw(ok) == ok
Finished(t, ok) ==
  LET i == pc[t] IN
  CASE i = "GPIO" -> Goto(t, "HW_RST") /\ UNCHANGED try
    [] i = "HW_RST" /\ AfterHw(ok) -> Goto(t, "drain_sw") /\ UNCHANGED try
    [] i = "SW_RST" /\ ok -> Goto(t, "end") /\ UNCHANGED try
    [] OTHER -> /\ try' = [try EXCEPT ![t] = NextTry(@)]
                /\ Goto(t, IF MayGoOn(t) THEN "drain_hw" ELSE "end")

RstPut(t) ==
  /\ pc[t] \in ResetOps /\ has[t] = NoOp
  /\ \/ /\ Usable # {} /\ free' = Out(free, NextOp) /\ has' = [has EXCEPT ![t] = NextOp]
        /\ Enqueue(NextOp, pc[t], TRUE) /\ UNCHANGED <<pc, try>>
     \/ /\ Available = {} /\ Finished(t, FALSE)
        /\ UNCHANGED <<free, active, opVars, has>>
  /\ UNCHANGED <<peek, resets, wmtd, cur, rstVars, calls>>

RstReturn(t) ==
  /\ pc[t] \in ResetOps /\ has[t] # NoOp /\ (Answered(t) \/ Expired(t))
  /\ Finished(t, Succeeded(t))
  /\ UNCHANGED <<active, peek, resets, wmtd, cur, rstVars, calls>>

RstEnd(t) ==
  /\ pc[t] = "end"
  /\ rstOn' = FALSE /\ coredump' = FALSE /\ before' = {} /\ Goto(t, "leave")
  /\ UNCHANGED <<free, active, opVars, has, ctxVars, wmtd, cur, ready, chip, calls>>

\* rstDone: RST_ON is cleared once more, by whoever leaves.
RstLeave(t) ==
  /\ pc[t] = "leave"
  /\ rstOn' = FALSE /\ try' = [try EXCEPT ![t] = 0] /\ Goto(t, "idle")
  /\ UNCHANGED <<free, active, opVars, has, peek, resets, wmtd, cur, coredump, ready,
                 chip, before, calls>>

-----------------------------------------------------------------------------

CallerStep(t) == GiveUp(t) \/ Put(t) \/ Return(t)
WmtdStep == Take \/ Test \/ SetCurrent \/ Unready \/ Report \/ \E ok \in BOOLEAN : Execute(ok)
RstStep(t) ==
  \/ RstClaim(t) \/ RstPeek(t) \/ RstRaise(t) \/ Drain(t) \/ Drained(t)
  \/ RstPut(t) \/ RstReturn(t) \/ RstEnd(t) \/ RstLeave(t)

Next ==
  \/ \E t \in Callers : Get(t) \/ CallerStep(t)
  \/ PsmdPut \/ WmtdStep \/ ChipAsserts
  \/ \E t \in Resetters : RstEnter(t) \/ RstStep(t)

\* Timeouts and the scheduler let every thread go on; wmt_core's commands to
\* the chip have timeouts of their own, so wmtd does not hang in one.
Fairness ==
  /\ WF_vars(WmtdStep)
  /\ \A t \in Callers : WF_vars(CallerStep(t))
  /\ \A t \in Resetters : WF_vars(RstStep(t))

Spec == Init /\ [][Next]_vars /\ Fairness

-----------------------------------------------------------------------------
(* Where an op is: in the free queue, with a thread, or on its way without *)
(* a waiting caller.                                                       *)
Owners(o) == {t \in Threads : has[t] = o}
Travels(o) == ~waits[o] /\ free[o] = 0 /\ (o \in ToSet(active) \/ wmtd.op = o)

\* No op is lost or in two hands, whoever answered, timed out or drained it.
PoolConserved ==
  \A o \in Ops :
    \/ free[o] = 1 /\ Owners(o) = {}
    \/ free[o] = 0 /\ \E t \in Threads : Owners(o) = {t}
    \/ Owners(o) = {} /\ Travels(o)

PoolInv == TypeOK /\ PoolConserved

\* A call returns success only if wmtd executed this call's op with success:
\* not with what an earlier use, a reset or a timeout left in the op.
AnswerIsOwn ==
  [][\A t \in Threads :
       has[t] # NoOp /\ has'[t] = NoOp /\ pc[t] # "got" /\ Succeeded(t) => did[has[t]]]_vars

Resetting(t) == pc[t] \in {"drain_hw", "drain_sw", "end"} \cup ResetOps

\* "when whole chip reset, only HW RST and SW RST cmd can execute": from the
\* HW_RST of a reset to its end.
OnlyResetOps ==
  \A t \in Resetters :
    Resetting(t) /\ try[t] > 0 /\ chip # "" /\ wmtd.at = "run" => id[wmtd.op] \in ResetOps

\* A reset that reports success has executed HW_RST and then SW_RST, without
\* a late HW_RST of an earlier try after it.
EndMeansReset == \A t \in Resetters : pc[t] = "end" /\ try[t] > 0 => chip = "SW_RST"

\* When this reset's own HW_RST is done, every call that waited before has its
\* answer: none of them is left behind a wait nobody ends.
HwDone(t) == pc[t] \in {"drain_sw", "SW_RST"} \/ (pc[t] = "end" /\ try[t] > 0)
ResetWakesAll == \A t \in Resetters : HwDone(t) => \A c \in before : sig[has[c]]

\* Every reset comes to its end, whatever fails or times out.
ResetEnds == \A t \in Resetters : pc[t] = "claim" ~> pc[t] = "idle"

=============================================================================
