-------------------------------- MODULE RxPipe --------------------------------
(***************************************************************************)
(* What BTIF promises STP of the bytes the chip sends, which are numbered   *)
(* 1, 2, 3, ...: STP gets them in order, each once and none left out.       *)
(* Bytes are given up only when MaxPending of them wait, those STP is       *)
(* working on included, or while no receive callback is registered.  To     *)
(* give up bytes STP is working on leaves the pipe dirty: what it hands     *)
(* over is then rubbish, until it has recovered.                            *)
(***************************************************************************)
EXTENDS Naturals, Sequences, FiniteSetsExt

CONSTANT MaxPending

VARIABLES
  received,  \* bytes the chip has sent
  taken,     \* the last byte handed over or given up
  top,       \* the highest byte STP ever had
  out,       \* the bytes STP is working on
  up,        \* a receive callback is registered
  dirty

pipeVars == <<received, taken, top, out, up, dirty>>

PipeInit ==
  /\ received = 0 /\ taken = 0 /\ top = 0 /\ out = <<>>
  /\ up = FALSE /\ dirty = FALSE

PipeReceive ==
  /\ received' = received + 1 /\ UNCHANGED <<taken, top, out, up, dirty>>

PipeConnect == up' = ~up /\ UNCHANGED <<received, taken, top, out, dirty>>

PipeHand ==
  /\ up /\ ~dirty
  /\ \E m \in taken + 1 .. received :
       /\ out' = out \o [i \in 1..m - taken |-> taken + i]
       /\ taken' = m /\ top' = m
  /\ UNCHANGED <<received, up, dirty>>

\* STP has parsed what it was given.
PipeDone == out' = <<>> /\ UNCHANGED <<received, taken, top, up, dirty>>

PipeDrop ==
  /\ ~up \/ (received - taken) + Len(out) >= MaxPending
  /\ taken' \in top..received /\ dirty' \in {dirty, TRUE}
  /\ dirty' \/ taken' >= taken
  /\ UNCHANGED <<received, top, out, up>>

PipeRubbish ==
  /\ dirty /\ out' \in Seq(0..received)
  /\ top' = Max({top} \cup {out'[i] : i \in DOMAIN out'})
  /\ taken' \in top'..received
  /\ UNCHANGED <<received, up, dirty>>

PipeRecover ==
  /\ dirty /\ dirty' = FALSE
  /\ taken' \in top..received /\ out' \in {out, <<>>}
  /\ UNCHANGED <<received, top, up>>

PipeNext ==
  PipeReceive \/ PipeConnect \/ PipeHand \/ PipeDone \/ PipeDrop
  \/ PipeRubbish \/ PipeRecover

Pipe == PipeInit /\ [][PipeNext]_pipeVars
=============================================================================
