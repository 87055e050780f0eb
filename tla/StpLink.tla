------------------------------- MODULE StpLink -------------------------------
(***************************************************************************)
(* The STP link in full mode (stp_core.c), from one mtk_wcn_stp_enable(1)  *)
(* to the next: a window protocol over BTIF.  The receiver takes only the  *)
(* packet it expects; the sender repeats everything outstanding when its   *)
(* timer expires and gives the chip up after RetryLimit repetitions.  The  *)
(* wires keep the order but lose and damage what they carry.  The chip is  *)
(* external and taken to follow the host's own protocol, but for the       *)
(* receive rings, which it has no need to fill.                            *)
(***************************************************************************)
EXTENDS Integers, Sequences, FiniteSets, SequencesExt

CONSTANTS
  Modulus,    \* MTKSTP_SEQ_SIZE
  WinSize,    \* MTKSTP_WINSIZE
  RetryLimit, \* MTKSTP_RETRY_LIMIT
  RingSize,   \* packets a receive ring of the host holds
  Loads,      \* bound: packets sent, per side
  MaxErrors,  \* bound: items lost or damaged
  MaxWire,    \* bound: items on a wire when the timer expires
  MaxOps      \* bound: retry ops on their way

Sides == {"host", "chip"}

ASSUME StpLinkAssumption ==
  /\ Modulus \in Nat \ {0} /\ WinSize \in 1..(Modulus - 1)
  /\ RetryLimit \in Nat /\ RingSize \in Nat \ {0} /\ Loads \subseteq [Sides -> Nat]

Peer(s) == IF s = "host" THEN "chip" ELSE "host"
Seqs == 0..(Modulus - 1)

VARIABLES
  txseq, rxack, winspace, txack, expected, \* sequence of stp_core_ctx, per side
  retry,    \* retry_times
  timer,    \* tx_timer is running
  retryOp,  \* STP_OPID_BTM_RETRY ops on their way
  txbuf,    \* number of the packet stored under each sequence number
  parser,   \* SYNC or RESYNC1
  rxOk,     \* fgRxOk = 0
  failCnt,  \* stp_process_packet_fail_count
  wire,     \* what each side sent and its peer has not read
  sent,     \* packets each side sent so far
  log,      \* packets of each side its peer took, in the order taken
  ring,     \* unread packets in the host's receive ring
  load,     \* which bound this behaviour has
  down,     \* firmware assert and whole-chip reset were requested
  errors

txVars == <<txseq, winspace, txbuf, sent, load>>
ackVars == <<rxack, winspace, retry, timer>>
rxVars == <<txack, expected, rxOk, failCnt, log, ring>>
vars == <<txseq, rxack, winspace, txack, expected, retry, timer, retryOp, txbuf, parser,
          rxOk, failCnt, wire, sent, log, ring, load, down, errors>>

Items ==
  [kind : {"data"}, seq : Seqs, ack : Seqs, no : Nat] \cup [kind : {"ack"}, ack : Seqs]
    \cup [kind : {"resync"}]

TypeOK ==
  /\ {txseq[s] : s \in Sides} \cup {rxack[s] : s \in Sides} \subseteq Seqs
  /\ {txack[s] : s \in Sides} \cup {expected[s] : s \in Sides} \subseteq Seqs
  /\ winspace \in [Sides -> 0..WinSize]
  /\ retry \in [Sides -> 0..(RetryLimit + 1)] /\ failCnt \in [Sides -> 0..RetryLimit]
  /\ timer \in [Sides -> BOOLEAN] /\ retryOp \in [Sides -> Nat]
  /\ txbuf \in [Sides -> [Seqs -> Nat]] /\ parser \in [Sides -> {"SYNC", "RESYNC1"}]
  /\ rxOk \in [Sides -> BOOLEAN] /\ \A s \in Sides : ToSet(wire[s]) \subseteq Items
  /\ sent \in [Sides -> Nat] /\ load \in Loads /\ \A s \in Sides : ToSet(log[s]) \subseteq Nat
  /\ ring \in 0..RingSize /\ down \in BOOLEAN /\ errors \in Nat

\* stp_rest_ctx_state()
Init ==
  /\ txseq = [s \in Sides |-> 0] /\ expected = [s \in Sides |-> 0]
  /\ txack = [s \in Sides |-> Modulus - 1] /\ rxack = [s \in Sides |-> Modulus - 1]
  /\ winspace = [s \in Sides |-> WinSize] /\ retry = [s \in Sides |-> 0]
  /\ timer = [s \in Sides |-> FALSE] /\ retryOp = [s \in Sides |-> 0]
  /\ txbuf = [s \in Sides |-> [q \in Seqs |-> 0]] /\ parser = [s \in Sides |-> "SYNC"]
  /\ rxOk = [s \in Sides |-> TRUE] /\ failCnt = [s \in Sides |-> 0]
  /\ wire = [s \in Sides |-> <<>>] /\ sent = [s \in Sides |-> 0]
  /\ log = [s \in Sides |-> <<>>] /\ ring = 0
  /\ load \in Loads /\ down = FALSE /\ errors = 0

-----------------------------------------------------------------------------
(* Sending.                                                                *)

\* INDEX_INC
Inc(q) == (q + 1) % Modulus

\* Sequence numbers sent after a and before b, in order.
Between(a, b) == [i \in 1..((b - a - 1) % Modulus) |-> (a + i) % Modulus]
Outstanding(s) == Between(rxack[s], txseq[s])

\* stp_send_tx_queue(): the header's ack is brought up to date first.
Packet(s, q, buf) == [kind |-> "data", seq |-> q, ack |-> txack[s], no |-> buf[q]]
Transmit(s, items) == wire' = [wire EXCEPT ![s] = @ \o items]

\* stp_send_data(); without window or room in the TX queue nothing happens.
HasWindow(s) == winspace[s] > 0
Send(s) ==
  LET q == txseq[s]
      buf == [txbuf[s] EXCEPT ![q] = sent[s] + 1] IN
  /\ ~down /\ HasWindow(s) /\ sent[s] < load[s]
  /\ txbuf' = [txbuf EXCEPT ![s] = buf] /\ sent' = [sent EXCEPT ![s] = @ + 1]
  /\ Transmit(s, <<Packet(s, q, buf)>>)
  /\ txseq' = [txseq EXCEPT ![s] = Inc(q)]
  /\ winspace' = [winspace EXCEPT ![s] = @ - 1]
  /\ timer' = [timer EXCEPT ![s] = TRUE]
  /\ UNCHANGED <<rxack, retry, retryOp, parser, rxVars, load, down, errors>>

\* stp_tx_timeout_handler() gives the work to the BTM thread.
TimerFires(s) ==
  /\ ~down /\ timer[s] /\ Len(wire[s]) <= MaxWire /\ retryOp[s] < MaxOps
  /\ timer' = [timer EXCEPT ![s] = FALSE] /\ retryOp' = [retryOp EXCEPT ![s] = @ + 1]
  /\ UNCHANGED <<txVars, rxack, retry, parser, rxVars, wire, down, errors>>

\* stp_do_tx_timeout(), possibly after the last ack came in.
ResendFromLast(s) == IF Outstanding(s) = <<>> THEN <<>> ELSE <<Last(Outstanding(s))>>
Resend(s) == Outstanding(s)
GivesUp(n) == n > RetryLimit
Retry(s) ==
  /\ ~down /\ retryOp[s] > 0
  /\ retryOp' = [retryOp EXCEPT ![s] = @ - 1]
  /\ IF Resend(s) # <<>>
     THEN Transmit(s, <<[kind |-> "resync"]>> \o
                        [i \in 1..Len(Resend(s)) |-> Packet(s, Resend(s)[i], txbuf[s])])
     ELSE UNCHANGED wire
  /\ IF winspace[s] = WinSize
     THEN timer' = [timer EXCEPT ![s] = FALSE] /\ UNCHANGED <<retry, down>>
     ELSE /\ retry' = [retry EXCEPT ![s] = @ + 1]
          /\ down' = GivesUp(retry[s] + 1)
          /\ timer' = [timer EXCEPT ![s] = ~down']
  /\ UNCHANGED <<txVars, rxack, parser, rxVars, errors>>

-----------------------------------------------------------------------------
(* Receiving.                                                              *)

Incoming(s) == wire[Peer(s)]
Rest(s) == [wire EXCEPT ![Peer(s)] = Tail(@)]

\* stp_process_rxack(): only what was sent and not acknowledged counts.
Accepts(s, a) == a \in ToSet(Outstanding(s))
TimerAfterAckNever(s, space) == FALSE
TimerAfterAck(s, space) == space # WinSize
Freed(s, a) == (a - rxack[s]) % Modulus
ProcessRxack(s, a) ==
  IF ~Accepts(s, a) THEN UNCHANGED ackVars
  ELSE /\ rxack' = [rxack EXCEPT ![s] = a]
       /\ winspace' = [winspace EXCEPT ![s] = @ + Freed(s, a)]
       /\ retry' = [retry EXCEPT ![s] = 0]
       /\ timer' = [timer EXCEPT ![s] = TimerAfterAck(s, winspace'[s])]

\* A header-only packet.
ReceiveAck(s) ==
  /\ ~down /\ Incoming(s) # <<>> /\ parser[s] = "SYNC"
  /\ Head(Incoming(s)).kind = "ack"
  /\ ProcessRxack(s, Head(Incoming(s)).ack)
  /\ wire' = Rest(s)
  /\ UNCHANGED <<txseq, txbuf, sent, load, retryOp, parser, rxVars, down, errors>>

\* stp_send_ack()
Ack(s, a) == wire' = [Rest(s) EXCEPT ![s] = Append(@, [kind |-> "ack", ack |-> a])]

\* Without room in the ring the packet is dropped after it was acknowledged,
\* and a GPS ring is flushed; one for an inactive function is dropped too.
Failed(s) == failCnt[s] + 1
CountFailure(s) ==
  /\ failCnt' = [failCnt EXCEPT ![s] = IF GivesUp(Failed(s)) THEN 0 ELSE Failed(s)]
  /\ down' = GivesUp(Failed(s))
Enqueue(s) ==
  \/ /\ s = "host" => ring < RingSize
     /\ ring' \in IF s = "host" THEN {ring, ring + 1} ELSE {ring}
     /\ rxOk' = [rxOk EXCEPT ![s] = TRUE] /\ failCnt' = [failCnt EXCEPT ![s] = 0]
     /\ UNCHANGED down
  \/ /\ s = "host" /\ ring = RingSize
     /\ ring' \in {0, ring}
     /\ rxOk' = [rxOk EXCEPT ![s] = FALSE]
     /\ CountFailure(s)

\* stp_process_packet(): in sequence; what its header acknowledges first.
InSequenceAny(s, item) == item.seq \in {expected[s], Inc(expected[s])}
InSequence(s, item) == item.seq = expected[s]
AckOfNext(item) == Inc(item.seq)
AckOf(item) == item.seq
TakePacket(s) ==
  LET item == Head(Incoming(s)) IN
  /\ ~down /\ Incoming(s) # <<>> /\ parser[s] = "SYNC"
  /\ item.kind = "data" /\ InSequence(s, item)
  /\ ProcessRxack(s, item.ack)
  /\ txack' = [txack EXCEPT ![s] = AckOf(item)]
  /\ expected' = [expected EXCEPT ![s] = Inc(@)]
  /\ Ack(s, AckOf(item))
  /\ log' = [log EXCEPT ![Peer(s)] = Append(@, item.no)]
  /\ Enqueue(s)
  /\ UNCHANGED <<txseq, txbuf, sent, load, retryOp, parser, errors>>

\* Out of sequence: the previous ack again, unless the previous packet found
\* no room; the ack in its header is not looked at.
RepeatAck(s) ==
  LET item == Head(Incoming(s)) IN
  /\ ~down /\ Incoming(s) # <<>> /\ parser[s] = "SYNC"
  /\ item.kind = "data" /\ ~InSequence(s, item)
  /\ IF rxOk[s] THEN Ack(s, txack[s]) ELSE wire' = Rest(s)
  /\ CountFailure(s)
  /\ UNCHANGED <<txVars, rxack, retry, timer, retryOp, parser, txack, expected, rxOk, log,
                 ring, errors>>

\* BTIF lost the item, or damaged it.  On a checksum or CRC error the rest of
\* what was read is purged, and all that follows is skipped up to the next
\* resync pattern.
Error == errors < MaxErrors /\ errors' = errors + 1
Lost(s) ==
  /\ ~down /\ Incoming(s) # <<>> /\ Error
  /\ wire' = Rest(s)
  /\ UNCHANGED <<txVars, rxack, retry, timer, retryOp, parser, rxVars, down>>

Damaged(s) ==
  /\ ~down /\ Incoming(s) # <<>> /\ Error
  /\ \E k \in 2..(Len(Incoming(s)) + 1) :
       wire' = [wire EXCEPT ![Peer(s)] = SubSeq(@, k, Len(@))]
  /\ parser' = [parser EXCEPT ![s] = "RESYNC1"]
  /\ UNCHANGED <<txVars, rxack, retry, timer, retryOp, rxVars, down>>

LeavesResync(item) == item.kind = "resync"
Skip(s) ==
  LET item == Head(Incoming(s)) IN
  /\ ~down /\ Incoming(s) # <<>>
  /\ parser[s] = "RESYNC1" \/ item.kind = "resync"
  /\ parser' = [parser EXCEPT ![s] = IF LeavesResync(item) THEN "SYNC" ELSE @]
  /\ wire' = Rest(s)
  /\ UNCHANGED <<txVars, rxack, retry, timer, retryOp, rxVars, down, errors>>

Receive(s) == ReceiveAck(s) \/ TakePacket(s) \/ RepeatAck(s) \/ Skip(s)

\* A function reads its packets.
Read ==
  /\ ~down /\ ring > 0 /\ ring' = ring - 1
  /\ UNCHANGED <<txVars, rxack, retry, timer, retryOp, parser, txack, expected, rxOk,
                 failCnt, wire, log, down, errors>>

-----------------------------------------------------------------------------

Next ==
  \/ \E s \in Sides : Send(s) \/ TimerFires(s) \/ Retry(s) \/ Receive(s) \/ Lost(s) \/ Damaged(s)
  \/ Read

\* The receive workers, timers and BTM threads do not all stop while one of
\* them can go on; nobody has to send, and no function has to read.
Fairness == WF_vars(\E s \in Sides : Receive(s) \/ TimerFires(s) \/ Retry(s))

Spec == Init /\ [][Next]_vars /\ Fairness

-----------------------------------------------------------------------------
Confirmed(s) == sent[s] - Len(Outstanding(s))

\* The window counts exactly the packets between rxack and txseq; it is what
\* keeps an ack for one packet from being read as one for another.
WindowExact == \A s \in Sides : winspace[s] = WinSize - Len(Outstanding(s))

\* What a side holds for acknowledged its peer has taken, also when the
\* sequence numbers have come round.
AckedWasTaken == \A s \in Sides : Confirmed(s) <= Len(log[s])

\* Outstanding packets have a timer running or its work queued, or nobody
\* would repeat them: the timer and the BTM thread race with acks and sends.
RetryArmed ==
  \A s \in Sides : ~down /\ winspace[s] < WinSize => timer[s] \/ retryOp[s] > 0

\* The bookkeeping of the window, together.
LinkInv == TypeOK /\ WindowExact /\ AckedWasTaken /\ RetryArmed

\* Outstanding packets are acknowledged in the end, or the link is given up:
\* each side has nothing outstanding again and again.
Settles == \A s \in Sides : []<>(winspace[s] = WinSize \/ down)

\* The link is two FIFOs (LinkChannel).
Channel == INSTANCE LinkChannel WITH
  taken <- log, confirmed <- [s \in Sides |-> Confirmed(s)]
IsChannel == Channel!ChSpec

=============================================================================
