----------------------------- MODULE ScanService -----------------------------
(***************************************************************************)
(* What the scan FSM (scan_fsm.c) promises AIS, P2P and the OBSS scan,     *)
(* with nothing assumed of the numbers they give their scans.  The scans   *)
(* taken are given to the chip one after the other, in the order they were *)
(* taken.  The one under way is reported done, once and to its requester,  *)
(* only on an end of the chip that has its number, and each end is used    *)
(* up.  A scan that is cancelled is never reported done.                   *)
(***************************************************************************)
EXTENDS Naturals, Sequences, SequencesExt

CONSTANT Scans   \* records with the number of the scan in seq

VARIABLES
  line,      \* the scans taken: the first is under way, the others wait
  given,     \* the chip will be given, or has, these and has not ended them
  ends,      \* the ends it has reported, of the scan under way or another
  answers    \* answers on their way to the requesters

serviceVars == <<line, given, ends, answers>>

ServiceInit == line = <<>> /\ given = {} /\ ends = <<>> /\ answers = <<>>

\* The first of what is left is under way now.
GoOn(rest) == given' = IF rest = <<>> THEN given ELSE given \cup {Head(rest)}

\* A scan is taken once.  (The first conjunct only spares TLC the others.)
New(s) == s \notin given \cup ToSet(ends) \cup ToSet(line)
TakeScan ==
  /\ Len(line') > Len(line)
  /\ \E s \in Scans :
       /\ line' = Append(line, s) /\ New(s)
       /\ given' = IF line = <<>> THEN given \cup {s} ELSE given
  /\ UNCHANGED <<ends, answers>>

ChipFinishes ==
  /\ \E s \in given : given' = given \ {s} /\ ends' = Append(ends, s)
  /\ UNCHANGED <<line, answers>>

\* The chip gives up scans that are not under way (any more).
ChipDrops ==
  /\ \E gone \in SUBSET given :
       /\ line # <<>> => Head(line) \notin gone
       /\ given' = given \ gone
  /\ UNCHANGED <<line, ends, answers>>

ItsEnd == line # <<>> /\ ends # <<>> /\ Head(ends).seq = Head(line).seq
ReportDone ==
  /\ ItsEnd /\ ends' = Tail(ends)
  /\ line' = Tail(line) /\ GoOn(Tail(line))
  /\ answers' = Append(answers, [scan |-> Head(line), how |-> "done"])

OtherEnd ==
  /\ ends # <<>> /\ ~ItsEnd /\ ends' = Tail(ends)
  /\ UNCHANGED <<line, given, answers>>

\* The requester need not hear of a scan it has cancelled.
CancelScan ==
  /\ \E i \in DOMAIN line :
       /\ line' = RemoveAt(line, i)
       /\ IF i = 1 THEN GoOn(Tail(line)) ELSE UNCHANGED given
       /\ answers' \in {answers, Append(answers, [scan |-> line[i], how |-> "cancelled"])}
  /\ UNCHANGED ends

HearAnswer ==
  /\ answers # <<>> /\ answers' = Tail(answers) /\ UNCHANGED <<line, given, ends>>

ServiceNext ==
  \/ TakeScan \/ ChipFinishes \/ ChipDrops \/ ReportDone \/ OtherEnd \/ CancelScan
  \/ HearAnswer

Service == ServiceInit /\ [][ServiceNext]_serviceVars
=============================================================================
