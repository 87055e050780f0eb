------------------------------ MODULE SnCircle ------------------------------
(***************************************************************************)
(* The sequence numbers of received Wi-Fi frames, que_mgt.c: 12 bits that  *)
(* wrap (SnCount of them here), the window of a block-ack agreement on     *)
(* their circle, and the comparisons that place a frame within it, ahead   *)
(* of it or behind it, as the code tests them.                             *)
(***************************************************************************)
EXTENDS Integers

CONSTANTS
  SnCount,      \* MAX_SEQ_NO_COUNT (4096)
  Buf,          \* buffer size of the ADDBA
  IncSize       \* CFG_RX_BA_INC_SIZE (4)

Half == SnCount \div 2          \* HALF_SEQ_NO_COUNT
RxWinSize == Buf + IncSize

\* A window may not reach half way round the circle, and the sender's must
\* leave room to tell a frame ahead from one behind.
ASSUME SnAssumption ==
  /\ SnCount \in Nat /\ SnCount = 2 * Half
  /\ Buf \in Nat \ {0} /\ IncSize \in Nat \ {0}
  /\ RxWinSize + Buf < Half

SN(n) == n % SnCount
Next12(s) == (s + 1) % SnCount
WinEnd(start) == (start + RxWinSize - 1) % SnCount

\* qmCompareSnIsLessThan: a comes before b on the shorter way round.
Less(a, b) ==
  /\ ~(a + Half =< b)
  /\ \/ b + Half < a
     \/ a < b

\* The three tests of "Case 1: Fall within".
Within(start, end, sn) ==
  \/ start =< sn /\ sn =< end
  \/ end < start /\ start =< sn
  \/ sn =< end /\ end < start

\* Without its third test, for an end that has wrapped already.
AheadOneWrap(start, end, sn) ==
  /\ start < end
  /\ \/ end < sn /\ sn < start + Half
     \/ sn < start /\ sn + SnCount < start + Half
\* The three tests of "Case 2: Fall ahead".
Ahead(start, end, sn) ==
  \/ start < end /\ end < sn /\ sn < start + Half
  \/ sn < start /\ start < end /\ sn + SnCount < start + Half
  \/ end < sn /\ sn < start /\ sn + SnCount < start + Half

\* The start of the window that makes frame sn its last.
AheadStart(sn) == (sn - RxWinSize + SnCount + 1) % SnCount

=============================================================================
