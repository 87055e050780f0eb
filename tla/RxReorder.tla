----------------------------- MODULE RxReorder -----------------------------
(***************************************************************************)
(* The receive reordering of the Wi-Fi driver, src/wlan/nic/que_mgt.c, for *)
(* one (station, TID) and its block-ack agreement.  The chip passes on the *)
(* frames of an A-MPDU as they were received; the driver holds those that  *)
(* came too early until the hole before them is filled, the sender moves   *)
(* its window on (a later frame, a BAR), or the hole has been open for     *)
(* QM_RX_BA_ENTRY_MISS_TIMEOUT_MS.  The driver sees sequence numbers of 12 *)
(* bits (modulo SnCount here) and compares them on the circle; the model   *)
(* numbers the frames of the sender without wrapping, 0, 1, 2, ..., so     *)
(* that the properties can speak of their true order.  The comparisons on  *)
(* the circle are in SnCircle.                                             *)
(*                                                                         *)
(* The sender is the environment: it has the frames base .. base+Buf-1 in  *)
(* the air, which arrive in any order, again (a lost acknowledgement) or   *)
(* never (base moves on).  A frame the chip took and the driver dropped    *)
(* for want of a buffer (que_mgt.c:2744) is one that never arrives.        *)
(***************************************************************************)
EXTENDS SnCircle, Sequences, SequencesExt

CONSTANTS
  FirstSn,      \* number of the sender's first frame
  LastSn,       \* bound: its last frame
  MaxAdd        \* bound: agreements set up

ASSUME RxAssumption == FirstSn \in Nat /\ LastSn \in Nat /\ MaxAdd \in Nat

\* Frames given up in a row, with no later one received, before a sender
\* counts as lost: beyond half the circle no receiver tells old from new.
MaxGap == Half - RxWinSize - Buf

Frames == FirstSn .. LastSn
NoEntry == [valid |-> FALSE, start |-> 0, end |-> 0, waiting |-> FALSE]

VARIABLES
  ba,       \* RX_BA_ENTRY_T of the agreement
  queue,    \* rReOrderQue: the frames held, by their true numbers
  miss,     \* g_arMissTimeout: "off" (0), "running", "expired"
  host,     \* the frames handed to the network stack under this agreement
  dropped,  \* frames of it thrown away without having been handed up or held
  passed,   \* holes below this number were given up by the driver itself
  base,     \* sender: its oldest frame in the air
  first,    \* sender: SSN of the agreement
  seen,     \* sender: one past the newest frame or SSN the driver has seen
  adds      \* ADDBAs so far

driver == <<ba, queue, miss, host, dropped, passed>>
sender == <<base, first, seen, adds>>
rxReorderVars == <<driver, sender>>

---------------------------------------------------------------------------
(* The queue *)

\* qmInsertFallWithinReorderPkt: before the first held frame it is less than;
\* a frame that is held already is dropped.  The walk stops at whichever of
\* the two it meets first.
Meets(n, q) == {i \in DOMAIN q : SN(q[i]) = SN(n) \/ Less(SN(n), SN(q[i]))}
InsertAtTail(n, q) == Append(q, n)
Insert(n, q) ==
  IF Meets(n, q) = {} THEN Append(q, n)
  ELSE LET i == CHOOSE i \in Meets(n, q) : \A j \in Meets(n, q) : i =< j
       IN IF SN(q[i]) = SN(n) THEN q ELSE InsertAt(q, i, n)

\* One turn of the loops below: what becomes of the next held frame.
Indicate(acc, n) == [acc EXCEPT !.out = Append(@, n)]
Hold(acc, n) == [acc EXCEPT !.rest = Append(@, n)]
Advanced(acc, n) == [Indicate(acc, n) EXCEPT !.start = Next12(SN(n))]

\* Once a frame is held the loop has ended.
WithinTurn(acc, n) ==
  IF acc.rest # <<>> THEN Hold(acc, n)
  ELSE IF SN(n) = acc.start THEN Advanced(acc, n)
  ELSE IF acc.timeout THEN [Advanced(acc, n) EXCEPT !.timeout = FALSE, !.gave = n]
  ELSE Hold(acc, n)

AheadTurn(acc, n) ==
  IF acc.rest # <<>> THEN Hold(acc, n)
  ELSE IF SN(n) = acc.start THEN Advanced(acc, n)
  ELSE IF Less(SN(n), acc.start) THEN Indicate(acc, n)
  ELSE Hold(acc, n)

\* Before the first turn; then the loops, turn by turn through the held frames.
Begin(start, timeout) ==
  [start |-> start, timeout |-> timeout, out |-> <<>>, rest |-> <<>>, gave |-> 0]

WithinLoop(start, timeout, q) ==
  LET turn[i \in 0 .. Len(q)] ==
        IF i = 0 THEN Begin(start, timeout) ELSE WithinTurn(turn[i - 1], q[i])
  IN turn[Len(q)]

AheadLoop(start, q) ==
  LET turn[i \in 0 .. Len(q)] ==
        IF i = 0 THEN Begin(start, FALSE) ELSE AheadTurn(turn[i - 1], q[i])
  IN turn[Len(q)]

\* The end of the window left where it was.
PopNoUpdate(e, r) == [e EXCEPT !.start = r.start]
\* "After WinStart has been determined, update the WinEnd".
Window(e, r) == [e EXCEPT !.start = r.start, !.end = WinEnd(r.start)]

\* qmPopOutDueToFallAhead on the entry e with the held frames q.
PopAhead(e, q) ==
  LET r == AheadLoop(e.start, q)
  IN /\ ba' = Window(e, r)
     /\ queue' = r.rest
     /\ host' = host \o r.out

\* The start of the wait for a missing frame: kept while the old one runs,
\* unless it was used up by this call.
MissAfter(r) ==
  IF r.rest = <<>> THEN "off"
  ELSE IF miss = "off" \/ r.gave # 0 THEN "running"
  ELSE miss

\* qmPopOutDueToFallWithin; a hole given up is one the driver passes.
PopWithin(e, q, skip) ==
  LET r == WithinLoop(e.start, miss = "expired", q)
  IN /\ ba' = Window(e, r)
     /\ queue' = r.rest
     /\ host' = host \o r.out
     /\ miss' = MissAfter(r)
     /\ passed' = IF r.gave > skip THEN r.gave ELSE skip

---------------------------------------------------------------------------
(* qmProcessPktWithReordering: frame n of the chip, under the agreement *)

\* Case 1.  QM_RX_WIN_SSN_AUTO_ADVANCING: the first frame of the agreement
\* becomes the start of the window.
FallWithin(n) ==
  LET e == IF ba.waiting THEN [ba EXCEPT !.start = SN(n), !.waiting = FALSE] ELSE ba
  IN /\ PopWithin(e, Insert(n, queue), IF ba.waiting /\ n > passed THEN n ELSE passed)
     /\ UNCHANGED dropped

\* Case 2.
FallAhead(n) ==
  /\ PopAhead([ba EXCEPT !.waiting = FALSE, !.start = AheadStart(SN(n))], Append(queue, n))
  /\ UNCHANGED <<miss, dropped, passed>>

\* Case 3.  QM_RX_INIT_FALL_BEHIND_PASS: frames from before the agreement go
\* up as they are until its first frame has come.
FallBehind(n) ==
  /\ IF ba.waiting
     THEN host' = Append(host, n) /\ UNCHANGED dropped
     ELSE /\ dropped' = IF n \in ToSet(host) THEN dropped ELSE dropped \cup {n}
          /\ UNCHANGED host
  /\ UNCHANGED <<ba, queue, miss, passed>>

ProcessPkt(n) ==
  \/ Within(ba.start, ba.end, SN(n)) /\ FallWithin(n)
  \/ /\ ~Within(ba.start, ba.end, SN(n))
     /\ Ahead(ba.start, ba.end, SN(n))
     /\ FallAhead(n)
  \/ /\ ~Within(ba.start, ba.end, SN(n))
     /\ ~Ahead(ba.start, ba.end, SN(n))
     /\ FallBehind(n)

Seen(n) == seen' = IF n >= seen THEN n + 1 ELSE seen

\* A frame of the sender's window, for the first time or again.
Frame(n) ==
  /\ ba.valid
  /\ base >= first /\ n \in base .. base + Buf - 1
  /\ ProcessPkt(n)
  /\ Seen(n)
  /\ UNCHANGED <<base, first, adds>>

\* A frame from before the agreement: the sender sends those one at a time,
\* and the chip filters the repetitions.
OldFrame(n) ==
  /\ ba.valid
  /\ base < first /\ n = base
  /\ ProcessPkt(n)
  /\ Seen(n)
  /\ base' = base + 1
  /\ UNCHANGED <<first, adds>>

\* The sender's oldest frame is acknowledged, or given up.
Advance ==
  /\ base < LastSn
  /\ base + 1 - seen =< MaxGap
  /\ base' = base + 1
  /\ UNCHANGED <<driver, first, seen, adds>>

\* qmProcessBarFrame: the sender announces that it gave up what is below base.
BarFrame ==
  /\ ba.valid
  /\ base >= first
  /\ IF Less(ba.start, SN(base))
     THEN PopAhead([ba EXCEPT !.start = SN(base)], queue)
     ELSE UNCHANGED <<ba, queue, host>>
  /\ Seen(base - 1)
  /\ UNCHANGED <<miss, dropped, passed, base, first, adds>>

---------------------------------------------------------------------------
(* Agreements *)

Entry(ssn) == [valid |-> TRUE, start |-> SN(ssn), end |-> WinEnd(SN(ssn)), waiting |-> TRUE]

\* qmHandleEventRxAddBa, qmAddRxBaEntry: an agreement there is already is
\* deleted first, its held frames go up; the new one starts a log of its own.
AddBa(ssn) ==
  /\ adds < MaxAdd
  /\ ssn \in {base, base + 1}
  /\ ba' = Entry(ssn)
  /\ queue' = <<>>
  /\ miss' = "off"
  /\ host' = <<>>
  /\ dropped' = {}
  /\ passed' = ssn
  /\ first' = ssn
  /\ seen' = ssn
  /\ adds' = adds + 1
  /\ UNCHANGED base

\* qmHandleEventRxDelBa, qmDelRxBaEntry: the held frames go up.
DelBa ==
  /\ ba.valid
  /\ host' = host \o queue
  /\ ba' = NoEntry
  /\ queue' = <<>>
  /\ UNCHANGED <<miss, dropped, passed, sender>>

\* qmDeactivateStaRec: the held frames are thrown away.
DeactivateStaRec ==
  /\ ba.valid
  /\ ba' = NoEntry
  /\ queue' = <<>>
  /\ UNCHANGED <<miss, host, dropped, passed, sender>>

\* QM_RX_BA_ENTRY_MISS_TIMEOUT_MS pass.
MissTimeout ==
  /\ miss = "running"
  /\ miss' = "expired"
  /\ UNCHANGED <<ba, queue, host, dropped, passed, sender>>

RxInit ==
  /\ ba = NoEntry
  /\ queue = <<>>
  /\ miss = "off"
  /\ host = <<>>
  /\ dropped = {}
  /\ passed = FirstSn
  /\ base = FirstSn
  /\ first = FirstSn
  /\ seen = FirstSn
  /\ adds = 0

RxNext ==
  \/ \E n \in Frames : Frame(n) \/ OldFrame(n) \/ AddBa(n)
  \/ Advance
  \/ BarFrame
  \/ DelBa
  \/ DeactivateStaRec
  \/ MissTimeout

RxSpec == RxInit /\ [][RxNext]_rxReorderVars

---------------------------------------------------------------------------
(* Properties *)

\* Held frames are distinct, in the true order of the sender, and inside the
\* window, whose first place is free: a held frame waits for a missing one,
\* never for a turn of its own.
HeldInWindow ==
  /\ \A i, j \in DOMAIN queue : i < j => queue[i] < queue[j]
  /\ \A i \in DOMAIN queue :
       /\ ba.valid
       /\ Within(ba.start, ba.end, SN(queue[i]))
       /\ SN(queue[i]) # ba.start

\* Under one agreement the network stack gets every frame at most once and
\* in the order of the sender, through the wrap of the sequence numbers,
\* repetitions, holes given up, BARs and the end of the agreement.
InOrder == \A i, j \in DOMAIN host : i < j => host[i] < host[j]

\* What is held and what went up are in order.
OrderInv == HeldInWindow /\ InOrder

\* A frame that arrives and is neither handed up nor held lies below a hole
\* the driver itself gave up (its time ran out, or it took the first frame of
\* the agreement for its start): a frame ahead, a BAR and the wrap never make
\* the driver throw away what the sender still sends.
DroppedWasGivenUp == \A n \in dropped : n < passed

=============================================================================
