-------------------------------- MODULE SaaFsm --------------------------------
(***************************************************************************)
(* Authentication and association with an AP (saa_fsm.c) for AIS: the      *)
(* frames it sends, the report of what became of each (TX done), the       *)
(* answers of the AP, the one timer of the station record, the end of the  *)
(* join told to AIS by a direct call, and the record freed and allocated   *)
(* again while reports and answers are still on their way.                 *)
(***************************************************************************)
EXTENDS Naturals, Sequences

CONSTANTS
  Algs,        \* authentication types the user allows: "open", "shared"
  RetryLimit,  \* ucTxAuthAssocRetryLimit
  MaxJoins,    \* bound: joins asked of SAA
  MaxShort,    \* bound: allocations that fail, frames dropped in the driver
  MaxLeaves,   \* bound: deauthentications and disconnections
  MaxAir       \* bound: answers on their way

ASSUME SaaFsmAssumption ==
  /\ Algs # {} /\ Algs \subseteq {"open", "shared"}
  /\ RetryLimit \in Nat \ {0}
  /\ MaxJoins \in Nat /\ MaxShort \in Nat /\ MaxLeaves \in Nat
  /\ MaxAir \in Nat

Frames == {"AUTH1", "AUTH3", "ASSOC1"}
AnswerTo == [AUTH1 |-> "AUTH2", AUTH3 |-> "AUTH4", ASSOC1 |-> "ASSOC2"]
Sending == [AUTH1 |-> "SEND_AUTH1", AUTH3 |-> "SEND_AUTH3", ASSOC1 |-> "SEND_ASSOC1"]
Waiting == [AUTH1 |-> "WAIT_AUTH2", AUTH3 |-> "WAIT_AUTH4", ASSOC1 |-> "WAIT_ASSOC2"]
SendStates == {Sending[f] : f \in Frames}
WaitStates == {Waiting[f] : f \in Frames}

VARIABLES
  rec,     \* the station record: its use, ucStaState, eAuthAssocState, ...
  saaTimer, \* rTxReqDoneOrRxRespTimer, by its handler
  box,     \* the message box
  ais,     \* AIS: it is in JOIN, its ucSeqNumOfReqMsg, the types left, ...
  tx,      \* frames whose TX done is to come; heard: the AP has answered it
  air,     \* external: answers of the AP on their way
  short,   \* allocations that failed, frames dropped
  leaves,  \* deauthentications and disconnections so far
  untold,  \* joins AIS gave up and had no memory to tell SAA so
  gone     \* the AP has deauthenticated us since the last join, and AIS is told

saaVars == <<rec, saaTimer, box, ais, tx, air, short, leaves, untold, gone>>

Answers == [f : {AnswerTo[f] : f \in Frames}, alg : Algs, ok : BOOLEAN]

SaaTypeOK ==
  /\ rec \in [used : BOOLEAN, sta : 1..3, retry : 0..RetryLimit, alg : Algs,
              seq : 0..MaxJoins, aa : {"IDLE", "RESOURCE"} \cup SendStates \cup WaitStates]
  /\ saaTimer \in {"none", "req", "resp"}
  /\ box \in Seq([m : {"START"}, seq : 1..MaxJoins]
                 \cup [m : {"SAA_ABORT", "AIS_ABORT"}])
  /\ ais \in [join : BOOLEAN, seq : 0..MaxJoins, left : SUBSET Algs, conn : BOOLEAN]
  /\ tx \in Seq([f : Frames, alg : Algs, heard : BOOLEAN])
  /\ air \in Seq(Answers)
  /\ short \in 0..MaxShort /\ leaves \in 0..MaxLeaves
  /\ untold \subseteq 0..MaxJoins /\ gone \in {"no", "told", "untold"}

-----------------------------------------------------------------------------
(* The end of a join.  t and b are the timer and the box so far. *)

Short(n) == short + n <= MaxShort /\ short' = short + n
Start(n) == [m |-> "START", seq |-> n]

\* cnmStaRecFree()
Free(r) == rec' = [r EXCEPT !.used = FALSE] /\ saaTimer' = "none"

\* aisFsmRunEventJoinComplete().  A join that fails is tried with the
\* authentication type left (aisFsmStateInit_RetryJOIN()), if there is memory
\* for the message; n allocations have failed in this step already.
JoinComplete(r, ok, t, b, n) ==
  \/ /\ ~(ais.join /\ ais.seq = r.seq)
     /\ rec' = r /\ saaTimer' = t /\ box' = b /\ Short(n) /\ UNCHANGED ais
  \/ /\ ais.join /\ ais.seq = r.seq /\ ok
     /\ rec' = [r EXCEPT !.sta = 3] /\ saaTimer' = t /\ box' = b /\ Short(n)
     /\ ais' = [ais EXCEPT !.join = FALSE, !.conn = TRUE]
  \/ /\ ais.join /\ ais.seq = r.seq /\ ~ok
     /\ "shared" \in ais.left /\ ais.seq < MaxJoins
     /\ rec' = [r EXCEPT !.alg = "shared"] /\ saaTimer' = t
     /\ box' = Append(b, Start(ais.seq + 1)) /\ Short(n)
     /\ ais' = [ais EXCEPT !.left = {}, !.seq = @ + 1]
  \/ /\ ais.join /\ ais.seq = r.seq /\ ~ok
     /\ \/ Short(n) /\ ("shared" \notin ais.left \/ ais.seq = MaxJoins)
        \/ Short(n + 1) /\ "shared" \in ais.left
     /\ Free(r) /\ box' = b
     /\ ais' = [ais EXCEPT !.join = FALSE, !.left = {}]

\* saaFsmSteps(AA_STATE_IDLE): saaFsmSendEventJoinComplete() may find no memory.
EnterIdle(r, ok, t, b, n) ==
  \/ JoinComplete([r EXCEPT !.aa = "IDLE"], ok, t, b, n)
  \/ /\ Short(n + 1) /\ rec' = [r EXCEPT !.aa = "RESOURCE"] /\ saaTimer' = t
     /\ box' = b /\ UNCHANGED ais

-----------------------------------------------------------------------------
(* saaFsmSteps() *)

\* Mutant: the tries are not counted.
TriedForever(r, k) == r
Tried(r, k) == [r EXCEPT !.retry = k]

\* Entering SAA_STATE_SEND_AUTH1, _AUTH3 or _ASSOC1.  A frame for which no
\* command is free is dropped inside the call, and its TX done enters the state
\* again: the next tries follow at once.  q are the frames so far.
EnterSend(f, r, t, b, q) ==
  LET s == [r EXCEPT !.aa = Sending[f], !.sta = IF f = "AUTH1" THEN 1 ELSE @]
  IN \/ /\ r.retry < RetryLimit
        /\ \E k \in r.retry + 1..RetryLimit :
             /\ rec' = Tried(s, k)
             /\ \/ /\ Short(k - r.retry - 1) /\ saaTimer' = t
                   /\ tx' = Append(q, [f |-> f, alg |-> r.alg, heard |-> FALSE])
                \/ Short(k - r.retry) /\ saaTimer' = "req" /\ tx' = q
        /\ box' = b /\ UNCHANGED ais
     \/ /\ EnterIdle(Tried(s, RetryLimit), FALSE, t, b, RetryLimit - r.retry)
        /\ tx' = q

SaaRecv(m) == box # <<>> /\ Head(box).m = m

\* saaFsmRunEventStart()
RunEventStart ==
  /\ SaaRecv("START")
  /\ IF rec.used
       THEN EnterSend(IF rec.sta = 1 THEN "AUTH1" ELSE "ASSOC1",
                      [rec EXCEPT !.aa = "IDLE", !.retry = 0, !.seq = Head(box).seq],
                      "none", Tail(box), tx)
       ELSE box' = Tail(box) /\ UNCHANGED <<rec, saaTimer, ais, tx, short>>
  /\ UNCHANGED <<air, leaves, untold, gone>>

\* saaFsmRunEventAbort()
RunEventAbort ==
  /\ SaaRecv("SAA_ABORT") /\ box' = Tail(box)
  /\ Free([rec EXCEPT !.retry = 0])
  /\ UNCHANGED <<ais, tx, air, short, leaves, untold, gone>>

\* Mutant: the timer of the answer is not started.
WaitUntimed == saaTimer' = "none"
WaitTimed == saaTimer' = "resp"

\* saaFsmRunEventTxDone(), by authCheckTxAuthFrame() and
\* assocCheckTxReAssocReqFrame() on the frame alone.
IsItsFrame(d) ==
  rec.used /\ rec.aa = Sending[d.f] /\ (d.f = "ASSOC1" \/ d.alg = rec.alg)

RunEventTxDone ==
  /\ tx # <<>>
  /\ LET d == Head(tx) IN
     \/ /\ ~IsItsFrame(d)
        /\ tx' = Tail(tx) /\ UNCHANGED <<rec, saaTimer, box, ais, short>>
     \/ /\ IsItsFrame(d)
        /\ rec' = [rec EXCEPT !.aa = Waiting[d.f]] /\ WaitTimed
        /\ tx' = Tail(tx) /\ UNCHANGED <<box, ais, short>>
     \/ IsItsFrame(d) /\ EnterSend(d.f, rec, saaTimer, box, Tail(tx))
  /\ UNCHANGED <<air, leaves, untold, gone>>

-----------------------------------------------------------------------------
(* The timer. *)

\* saaFsmRunEventTxReqTimeOut() and saaFsmRunEventRxRespTimeOut(): the frame of
\* the state is sent again; in another state nothing is done.
Expires(kind, states) ==
  /\ saaTimer = kind
  /\ \/ \E f \in Frames : rec.aa = states[f] /\ EnterSend(f, rec, "none", box, tx)
     \/ /\ \A f \in Frames : rec.aa # states[f]
        /\ saaTimer' = "none" /\ UNCHANGED <<rec, box, ais, tx, short>>
  /\ UNCHANGED <<air, leaves, untold, gone>>

RunEventTxReqTimeOut == Expires("req", Sending)
RunEventRxRespTimeOut == Expires("resp", Waiting)

-----------------------------------------------------------------------------
(* The answers of the AP. *)

\* authCheckRxAuthFrameStatus(): an authentication frame of another type, or
\* out of its turn, counts as a refusal.
Accepts(a, f) == a.f = AnswerTo[f] /\ a.alg = rec.alg /\ a.ok

\* saaFsmRunEventRxAuth(), a being the frame.
RxAuth(a) ==
  \/ \E f \in {"AUTH1", "AUTH3"} :
       LET r == [rec EXCEPT !.retry = 0] IN
       /\ rec.used /\ rec.aa \in {Sending[f], Waiting[f]}
       /\ \/ /\ Accepts(a, f) /\ f = "AUTH1" /\ rec.alg = "shared"
             /\ EnterSend("AUTH3", r, "none", box, tx)
          \/ /\ Accepts(a, f) /\ ~(f = "AUTH1" /\ rec.alg = "shared")
             /\ EnterSend("ASSOC1", [r EXCEPT !.sta = 2], "none", box, tx)
          \/ /\ ~Accepts(a, f)
             /\ EnterIdle(r, FALSE, "none", box, 0) /\ UNCHANGED tx
  \/ /\ ~rec.used \/ \A f \in {"AUTH1", "AUTH3"} : rec.aa \notin {Sending[f], Waiting[f]}
     /\ UNCHANGED <<rec, saaTimer, box, ais, tx, short>>

\* saaFsmRunEventRxAssoc(); the frame is not looked at beyond its status.
RxAssoc(a) ==
  \/ /\ rec.used /\ rec.aa \in {"SEND_ASSOC1", "WAIT_ASSOC2"}
     /\ EnterIdle([rec EXCEPT !.retry = 0], a.ok, "none", box, 0)
     /\ UNCHANGED tx
  \/ /\ ~rec.used \/ rec.aa \notin {"SEND_ASSOC1", "WAIT_ASSOC2"}
     /\ UNCHANGED <<rec, saaTimer, box, ais, tx, short>>

RunEventRx ==
  /\ air # <<>> /\ air' = Tail(air)
  /\ \/ Head(air).f = "ASSOC2" /\ RxAssoc(Head(air))
     \/ Head(air).f # "ASSOC2" /\ RxAuth(Head(air))
  /\ UNCHANGED <<leaves, untold, gone>>

\* Mutant: the deauthentication is not told to AIS.
DeauthUntold == box
DeauthTold == Append(box, [m |-> "AIS_ABORT"])

\* saaFsmRunEventRxDeauth(); _RxDisassoc() is alike for a record in class 3.
\* Without memory for the message AIS does not hear of it.
RunEventRxDeauth ==
  /\ leaves < MaxLeaves /\ leaves' = leaves + 1
  /\ rec.used /\ rec.sta >= 2
  /\ \E sta \in 1..rec.sta - 1 : rec' = [rec EXCEPT !.sta = sta]
  /\ \/ Short(0) /\ box' = DeauthTold /\ gone' = "told"
     \/ Short(1) /\ UNCHANGED box /\ gone' = "untold"
  /\ UNCHANGED <<saaTimer, ais, tx, air, untold>>

-----------------------------------------------------------------------------
(* AIS. *)

\* aisFsmSteps(AIS_STATE_JOIN).  Its channel was granted by a message that came
\* behind an earlier MID_AIS_SAA_FSM_ABORT.  The record is the one of the AP, or
\* a new one; MID_AIS_SAA_FSM_START may find no memory.
AisJoins ==
  /\ ~ais.join /\ ~ais.conn /\ ais.seq < MaxJoins
  /\ \A i \in DOMAIN box : box[i].m # "SAA_ABORT"
  /\ LET alg == IF "open" \in Algs THEN "open" ELSE "shared" IN
     /\ rec' = IF rec.used THEN [rec EXCEPT !.alg = alg]
               ELSE [rec EXCEPT !.used = TRUE, !.sta = 1, !.aa = "IDLE",
                                !.retry = 0, !.alg = alg, !.seq = 0]
     /\ \/ /\ Short(0) /\ box' = Append(box, Start(ais.seq + 1))
           /\ ais' = [ais EXCEPT !.join = TRUE, !.seq = @ + 1, !.left = Algs \ {alg}]
        \/ /\ Short(1) /\ ais' = [ais EXCEPT !.join = TRUE, !.left = Algs \ {alg}]
           /\ UNCHANGED box
  /\ gone' = "no"
  /\ UNCHANGED <<saaTimer, tx, air, leaves, untold>>

\* aisFsmStateAbort_JOIN(); when it finds no memory for the message SAA goes on
\* with the join.
SaaAbort(b) ==
  \/ Short(0) /\ box' = Append(b, [m |-> "SAA_ABORT"]) /\ UNCHANGED untold
  \/ Short(1) /\ box' = b /\ untold' = untold \cup {ais.seq}

\* aisFsmRunEventJoinTimeout() in AIS_STATE_JOIN
JoinTimeout ==
  /\ ais.join /\ ais' = [ais EXCEPT !.join = FALSE]
  /\ SaaAbort(box)
  /\ UNCHANGED <<rec, saaTimer, tx, air, leaves, gone>>

\* aisFsmRunEventAbort(): nicUpdateBss() frees the records of the network.
AisAborts ==
  /\ SaaRecv("AIS_ABORT")
  /\ Free(rec)
  /\ \/ ais.join /\ SaaAbort(Tail(box))
     \/ ~ais.join /\ box' = Tail(box) /\ UNCHANGED <<short, untold>>
  /\ ais' = [ais EXCEPT !.join = FALSE, !.conn = FALSE]
  /\ UNCHANGED <<tx, air, leaves, gone>>

\* The user, or the loss of the beacons, ends what there is.
Disconnect ==
  /\ leaves < MaxLeaves /\ leaves' = leaves + 1
  /\ box' = Append(box, [m |-> "AIS_ABORT"])
  /\ UNCHANGED <<rec, saaTimer, ais, tx, air, short, untold, gone>>

-----------------------------------------------------------------------------
(* The AP and the air. *)

ApAnswers ==
  /\ Len(air) < MaxAir
  /\ \E i \in DOMAIN tx, ok \in BOOLEAN :
       /\ ~tx[i].heard /\ tx' = [tx EXCEPT ![i].heard = TRUE]
       /\ air' = Append(air, [f |-> AnswerTo[tx[i].f], alg |-> tx[i].alg, ok |-> ok])
  /\ UNCHANGED <<rec, saaTimer, box, ais, short, leaves, untold, gone>>

AnswerLost ==
  /\ air # <<>> /\ air' = Tail(air)
  /\ UNCHANGED <<rec, saaTimer, box, ais, tx, short, leaves, untold, gone>>

SaaHandle == RunEventStart \/ RunEventAbort \/ AisAborts
SaaTimeout == RunEventTxReqTimeOut \/ RunEventRxRespTimeOut
SaaNext ==
  \/ SaaHandle \/ SaaTimeout \/ RunEventTxDone \/ RunEventRx \/ RunEventRxDeauth
  \/ AisJoins \/ JoinTimeout \/ Disconnect \/ ApAnswers \/ AnswerLost

SaaInit ==
  /\ rec = [used |-> FALSE, sta |-> 1, retry |-> 0, seq |-> 0, aa |-> "IDLE",
            alg |-> CHOOSE a \in Algs : TRUE]
  /\ saaTimer = "none" /\ box = <<>> /\ tx = <<>> /\ air = <<>>
  /\ ais = [join |-> FALSE, seq |-> 0, left |-> {}, conn |-> FALSE]
  /\ short = 0 /\ leaves = 0 /\ untold = {} /\ gone = "no"

\* The main thread serves its box and its timers, and the firmware reports what
\* became of each frame.  Nothing is assumed of the AP.
SaaFairness == WF_saaVars(SaaHandle) /\ WF_saaVars(SaaTimeout) /\ WF_saaVars(RunEventTxDone)

SaaSpec == SaaInit /\ [][SaaNext]_saaVars /\ SaaFairness

-----------------------------------------------------------------------------
(* Properties. *)

UnderWay == rec.used /\ rec.aa \in SendStates \cup WaitStates

\* Whatever frames, reports and answers of earlier joins are still about, a join
\* under way has something to come that moves it: the answer is timed, and a
\* frame is timed or its TX done is due.  Only a join that AIS gave up without
\* the memory to tell SAA so can stand still: the next join of AIS changes the
\* authentication type of the record under it (aisFsmStateInit_JOIN()).
JoinMoves ==
  UnderWay /\ rec.seq \notin untold =>
    /\ rec.aa \in WaitStates => saaTimer = "resp"
    /\ rec.aa \in SendStates => saaTimer = "req" \/ \E i \in DOMAIN tx : IsItsFrame(tx[i])

\* The timer of a record that is free, and may be cleared for another use, is
\* not running.
NoTimerOfFreed == saaTimer # "none" => rec.used

\* A connection is to a record in use and in class 3, unless the deauthentication
\* that took it is on its way to AIS, or could not be told for lack of memory.
ConnectionHasClass3 ==
  ais.conn =>
    /\ rec.used
    /\ \/ gone = "no" /\ rec.sta = 3
       \/ gone = "untold"
       \/ \E i \in DOMAIN box : box[i].m = "AIS_ABORT"

\* What the stages of a join, the timer and a connection demand of the record.
JoinInv == SaaTypeOK /\ JoinMoves /\ NoTimerOfFreed /\ ConnectionHasClass3

\* Joins end by the retry limit, without the join timer of AIS, and AIS is told
\* unless an allocation failed.
JoinEnds ==
  []<>((UnderWay => rec.seq \in untold) /\ (ais.join => short > 0))

=============================================================================
