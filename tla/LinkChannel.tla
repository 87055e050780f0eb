----------------------------- MODULE LinkChannel -----------------------------
(***************************************************************************)
(* What the STP link promises its users (stp_core.c): in each direction a  *)
(* FIFO that neither loses, repeats nor reorders, with at most WinSize     *)
(* packets that the sender does not know to have arrived; or a link that   *)
(* is down.  Packets are numbered from 1 by their sender.                  *)
(***************************************************************************)
EXTENDS Integers, Sequences

CONSTANTS Sides, WinSize

VARIABLES
  sent,       \* packets each side has sent
  taken,      \* each side's packets its peer has taken, as taken
  confirmed,  \* packets each side knows to have arrived
  down

chVars == <<sent, taken, confirmed, down>>

ChInit ==
  /\ sent = [s \in Sides |-> 0] /\ confirmed = [s \in Sides |-> 0]
  /\ taken = [s \in Sides |-> <<>>] /\ down = FALSE

ChSend(s) ==
  /\ ~down /\ sent[s] - confirmed[s] < WinSize
  /\ sent' = [sent EXCEPT ![s] = @ + 1]
  /\ UNCHANGED <<taken, confirmed, down>>

\* Side s hears from its peer p: the next of p's packets, what has arrived of
\* its own, or both.
ChHear(s, p) ==
  /\ ~down
  /\ \/ UNCHANGED taken
     \/ /\ Len(taken[p]) < sent[p]
        /\ taken' = [taken EXCEPT ![p] = Append(@, Len(@) + 1)]
  /\ \E n \in confirmed[s]..Len(taken[s]) : confirmed' = [confirmed EXCEPT ![s] = n]
  /\ down' \in BOOLEAN
  /\ UNCHANGED sent

ChFail == ~down /\ down' = TRUE /\ UNCHANGED <<sent, taken, confirmed>>

ChNext ==
  \/ \E s \in Sides : ChSend(s)
  \/ \E s, p \in Sides : s # p /\ ChHear(s, p)
  \/ ChFail

ChSpec == ChInit /\ [][ChNext]_chVars

\* What follows from it: what is confirmed was taken, what was taken was sent.
ChOrder ==
  \A s \in Sides :
    /\ confirmed[s] <= Len(taken[s]) /\ Len(taken[s]) <= sent[s]
    /\ sent[s] - confirmed[s] <= WinSize
    /\ \A i \in 1..Len(taken[s]) : taken[s][i] = i
=============================================================================
