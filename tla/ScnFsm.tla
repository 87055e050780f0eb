-------------------------------- MODULE ScnFsm --------------------------------
(***************************************************************************)
(* The scan FSM (scan_fsm.c): one scan at the firmware, the others in      *)
(* rPendingMsgList.  AIS, P2P and the 20/40 MHz coexistence (OBSS) scan of  *)
(* rlm_obss.c ask for scans through the message box; AIS cancels by a      *)
(* direct call, P2P by a message.  The firmware reports the end of a scan  *)
(* by its number alone, which AIS, P2P and OBSS count without each other,   *)
(* so that two scans may have the same one.                                *)
(***************************************************************************)
EXTENDS Naturals, Sequences, FiniteSets, SequencesExt

CONSTANTS
  MaxScans,    \* bound: scans that are asked for
  Firsts,      \* the numbers AIS and P2P may have reached: 0 at boot
  MaxTimeouts  \* bound: OS scans that time out

Requesters == {"AIS", "P2P", "OBSS"}
Wraps == 256            \* UINT_8 ucSeqNum
ObssNumber == 51        \* 0x33, rlmObssTriggerScan()
Numbers == 0..Wraps - 1
\* id tells scans of the same number apart; no code reads it.
Scans == [who : Requesters, seq : Numbers, id : 1..MaxScans]
NoScan == [who |-> "none", seq |-> 0, id |-> 0]

ASSUME ScnFsmAssumption ==
  /\ MaxScans \in Nat /\ MaxTimeouts \in Nat
  /\ Firsts \subseteq Numbers

\* The OBSS scan is asked for in the name of the AIS network.
Net(who) == IF who = "OBSS" THEN "AIS" ELSE who

VARIABLES
  state,      \* eCurrentState
  cur,        \* rScanParam: the scan under way, or the last one
  list,       \* rPendingMsgList
  mbox,       \* the message box, as far as it is about scans
  cmds,       \* commands on their way to the firmware
  chip,       \* external: the scan of the firmware
  events,     \* external: scan-done events not yet read
  waits,      \* the requesters that wait for the end of a scan
  num,        \* ucSeqNumOfScanReq, ucSeqNumOfScnMsg
  timer,      \* rObssScanTimer is started
  asked, timeouts,
  mistaken    \* history: the scans that the end of another was taken for

fsmVars == <<state, cur, list>>
chipVars == <<chip, events>>
askVars == <<waits, num, timer, asked, timeouts>>
vars == <<fsmVars, mbox, cmds, chipVars, askVars, mistaken>>

TypeOK ==
  /\ state \in {"IDLE", "SCANNING"} /\ cur \in Scans \cup {NoScan}
  /\ list \in Seq(Scans)
  /\ mbox \in Seq([m : {"REQ"}, scan : Scans] \cup [m : {"CANCEL"}, seq : Numbers]
                  \cup [m : {"DONE"}, to : Requesters, scan : Scans,
                        how : {"done", "cancelled"}])
  /\ cmds \in Seq([c : {"REQ", "CANCEL"}, scan : Scans])
  /\ chip \in SUBSET Scans /\ events \in Seq(Scans)
  /\ waits \subseteq {"AIS", "P2P"} /\ num \in [{"AIS", "P2P"} -> Numbers]
  /\ timer \in BOOLEAN /\ asked \in 0..MaxScans /\ timeouts \in 0..MaxTimeouts
  /\ mistaken \subseteq Scans

-----------------------------------------------------------------------------
(* scnFsmSteps() and what it calls. *)

Request(s) == [m |-> "REQ", scan |-> s]
Command(c, s) == [c |-> c, scan |-> s]

\* scnFsmGenerateScanDoneMsg(): the handler is chosen by the scan under way.
Done(s, how) ==
  [m |-> "DONE", to |-> IF cur.who = "OBSS" THEN "OBSS" ELSE Net(s.who),
   scan |-> s, how |-> how]

\* Mutant: the next scan is taken from the list and not sent.
ToIdleUnsent(sent) ==
  IF list = <<>> THEN state' = "IDLE" /\ cmds' = sent /\ UNCHANGED <<cur, list>>
  ELSE /\ state' = "SCANNING" /\ cmds' = sent
       /\ cur' = Head(list) /\ list' = Tail(list)

\* Steps(SCAN_STATE_IDLE): the next of the list is started; sent are the
\* commands so far.
ToIdle(sent) ==
  IF list = <<>> THEN state' = "IDLE" /\ cmds' = sent /\ UNCHANGED <<cur, list>>
  ELSE /\ state' = "SCANNING"
       /\ cur' = Head(list) /\ list' = Tail(list)
       /\ cmds' = Append(sent, Command("REQ", Head(list)))

\* A cancel names a scan by number and network.
Named(s, seq, net) == s.seq = seq /\ Net(s.who) = net

\* Mutant: scnFsmMsgAbort() sends no CMD_SCAN_CANCEL.
CancelCommandForgotten == cmds
CancelCommand == Append(cmds, Command("CANCEL", cur))

\* Mutant: the pending scan is answered and stays in the list.
RemovePendingForgotten(i) == list
RemovePending(i) == RemoveAt(list, i)

\* The place of a scan in the list: the first of its name.
Place(seq, net) ==
  {i \in DOMAIN list : /\ Named(list[i], seq, net)
                        /\ \A j \in 1..i - 1 : ~Named(list[j], seq, net)}

\* scnFsmMsgAbort(), box being the messages so far.  One that is not known any
\* more, or not yet, is not cancelled.
MsgAbort(seq, net, box) ==
  \/ /\ state = "SCANNING" /\ Named(cur, seq, net)
     /\ mbox' = Append(box, Done(cur, "cancelled"))
     /\ ToIdle(CancelCommand)
  \/ /\ state = "SCANNING" /\ ~Named(cur, seq, net)
     /\ \E i \in Place(seq, net) :
          /\ mbox' = Append(box, Done(list[i], "cancelled"))
          /\ list' = RemovePending(i)
     /\ UNCHANGED <<state, cur, cmds>>
  \/ /\ state = "IDLE" \/ (~Named(cur, seq, net) /\ Place(seq, net) = {})
     /\ mbox' = box /\ UNCHANGED <<fsmVars, cmds>>

-----------------------------------------------------------------------------
(* The requesters. *)

MayAsk == asked < MaxScans /\ asked' = asked + 1
NewScan(r, number) == [who |-> r, seq |-> number, id |-> asked + 1]
NextNumber(r) == num' = [num EXCEPT ![r] = (@ + 1) % Wraps]

\* aisFsmSteps(SCAN) and p2pFuncRequestScan()
AskScan(r) ==
  /\ MayAsk /\ r \notin waits
  /\ NextNumber(r) /\ waits' = waits \cup {r}
  /\ mbox' = Append(mbox, Request(NewScan(r, num'[r])))
  /\ UNCHANGED <<fsmVars, cmds, chipVars, timer, timeouts, mistaken>>

\* aisFsmStateAbort_SCAN(), AIS leaving its scan state.
AisCancels ==
  /\ "AIS" \in waits /\ waits' = waits \ {"AIS"}
  /\ MsgAbort(num["AIS"], "AIS", mbox)
  /\ UNCHANGED <<chipVars, num, timer, asked, timeouts, mistaken>>

\* aisFsmRunEventScanDoneTimeOut() cancels too; in LOOKING_FOR, AIS goes on to
\* wait for the answer.
AisTimesOut ==
  /\ timeouts < MaxTimeouts /\ timeouts' = timeouts + 1
  /\ MsgAbort(num["AIS"], "AIS", mbox)
  /\ UNCHANGED <<chipVars, waits, num, timer, asked, mistaken>>

\* p2pFuncCancelScan(): a scan with the number 0 is not cancelled.
P2pCancels ==
  /\ "P2P" \in waits /\ waits' = waits \ {"P2P"}
  /\ IF num["P2P"] = 0 THEN UNCHANGED <<mbox, num>>
     ELSE /\ NextNumber("P2P")
          /\ mbox' = Append(mbox, [m |-> "CANCEL", seq |-> num["P2P"]])
  /\ UNCHANGED <<fsmVars, cmds, chipVars, timer, asked, timeouts, mistaken>>

\* rlmObssScanTimeout()
ObssTimeout ==
  /\ MayAsk /\ timer /\ timer' = FALSE
  /\ mbox' = Append(mbox, Request(NewScan("OBSS", ObssNumber)))
  /\ UNCHANGED <<fsmVars, cmds, chipVars, waits, num, timeouts, mistaken>>

-----------------------------------------------------------------------------
(* The handlers of the messages. *)

Recv(name) == mbox # <<>> /\ Head(mbox).m = name

\* scnFsmMsgStart()
MsgStart ==
  /\ Recv("REQ") /\ mbox' = Tail(mbox)
  /\ LET s == Head(mbox).scan IN
     IF state = "IDLE"
       THEN /\ state' = "SCANNING" /\ cur' = s
            /\ cmds' = Append(cmds, Command("REQ", s)) /\ UNCHANGED list
       ELSE list' = Append(list, s) /\ UNCHANGED <<state, cur, cmds>>
  /\ UNCHANGED <<chipVars, askVars, mistaken>>

P2pAbort ==
  /\ Recv("CANCEL")
  /\ MsgAbort(Head(mbox).seq, "P2P", Tail(mbox))
  /\ UNCHANGED <<chipVars, askVars, mistaken>>

\* aisFsmRunEventScanDone(), p2pFsmRunEventScanDone(), rlmObssScanDone()
ScanDone ==
  /\ Recv("DONE") /\ mbox' = Tail(mbox)
  /\ LET d == Head(mbox) IN
     IF d.to = "OBSS" THEN timer' = TRUE /\ UNCHANGED waits
     ELSE /\ waits' = IF d.scan.seq = num[d.to] THEN waits \ {d.to} ELSE waits
          /\ UNCHANGED timer
  /\ UNCHANGED <<fsmVars, cmds, chipVars, num, asked, timeouts, mistaken>>

\* scnEventScanDone(): a done event is taken for the scan under way if the
\* numbers are the same, whose end it is or not.
ScanDoneEvent ==
  /\ events # <<>> /\ events' = Tail(events)
  /\ IF state = "SCANNING" /\ Head(events).seq = cur.seq
       THEN /\ mbox' = Append(mbox, Done(cur, "done")) /\ ToIdle(cmds)
            /\ mistaken' = IF Head(events) = cur THEN mistaken ELSE mistaken \cup {cur}
       ELSE UNCHANGED <<fsmVars, mbox, cmds, mistaken>>
  /\ UNCHANGED <<chip, askVars>>

-----------------------------------------------------------------------------
(* The firmware: a command to cancel holds a number alone. *)

ChipCommand ==
  /\ cmds # <<>> /\ cmds' = Tail(cmds)
  /\ chip' = IF Head(cmds).c = "REQ" THEN chip \cup {Head(cmds).scan}
             ELSE {s \in chip : s.seq # Head(cmds).scan.seq}
  /\ UNCHANGED <<fsmVars, mbox, events, askVars, mistaken>>

ChipEnds ==
  /\ \E s \in chip : chip' = chip \ {s} /\ events' = Append(events, s)
  /\ UNCHANGED <<fsmVars, mbox, cmds, askVars, mistaken>>

Handle == MsgStart \/ P2pAbort \/ ScanDone
Next ==
  \/ \E r \in {"AIS", "P2P"} : AskScan(r)
  \/ AisCancels \/ AisTimesOut \/ P2pCancels \/ ObssTimeout
  \/ Handle \/ ScanDoneEvent \/ ChipCommand \/ ChipEnds

Init ==
  /\ state = "IDLE" /\ cur = NoScan /\ list = <<>> /\ mbox = <<>> /\ cmds = <<>>
  /\ chip = {} /\ events = <<>> /\ waits = {} /\ num \in [{"AIS", "P2P"} -> Firsts]
  /\ timer = TRUE /\ asked = 0 /\ timeouts = 0 /\ mistaken = {}

\* The main thread handles what is in the box and reads the events; the
\* firmware takes its commands and ends its scans.
Fairness ==
  WF_vars(Handle) /\ WF_vars(ScanDoneEvent) /\ WF_vars(ChipCommand) /\ WF_vars(ChipEnds)

Spec == Init /\ [][Next]_vars /\ Fairness

-----------------------------------------------------------------------------
(* Properties. *)

InFlight(s) == \E i \in DOMAIN cmds : cmds[i] = Command("REQ", s)

\* The scan under way is at the firmware: its command, the scan itself or its
\* end is still to come, so that SCANNING ends.
ChipWorksForIt ==
  state = "SCANNING" => InFlight(cur) \/ cur \in chip \/ cur \in ToSet(events)

\* The firmware is given one scan at a time: a second one only after the
\* command to cancel the first.  The exception: a scan that the end of another
\* of its number was taken for (scnEventScanDone() compares the numbers alone)
\* stays with the firmware uncancelled, and the next is given to it all the same.
OneScanAtChip ==
  Cardinality(chip \ mistaken) <= 1
    /\ \A s \in chip \ mistaken : \A i \in DOMAIN cmds :
         cmds[i].c = "REQ" => \E j \in 1..i : cmds[j] = Command("CANCEL", s)

\* Whatever is cancelled, timed out and queued, all scans end, and P2P, which
\* has no other way out of its scan, is answered.
AllScansEnd == []<>(state = "IDLE" /\ list = <<>> /\ "P2P" \notin waits)

\* The answers in a box: a message for another than its requester is none.
Own(d) == d.m = "DONE" /\ d.to = d.scan.who
WithAnswer(answers, d) ==
  IF Own(d) THEN Append(answers, [scan |-> d.scan, how |-> d.how]) ELSE answers
OwnAnswers(box) ==
  LET own[i \in 0..Len(box)] == IF i = 0 THEN <<>> ELSE WithAnswer(own[i - 1], box[i])
  IN own[Len(box)]

\* The FSM is the service: whatever the numbers, scans are given to the
\* firmware one by one in the order of their requests, each end it reports
\* ends one scan of that number at most, and a cancelled scan is not reported
\* done.
Line == IF state = "SCANNING" THEN <<cur>> \o list ELSE <<>>
Given == chip \cup {s \in {cmds[i].scan : i \in DOMAIN cmds} : InFlight(s)}
Promise == INSTANCE ScanService WITH
  line <- Line, given <- Given, ends <- events, answers <- OwnAnswers(mbox)
IsScanService == Promise!Service
=============================================================================
