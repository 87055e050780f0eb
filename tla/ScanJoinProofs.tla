---------------------------- MODULE ScanJoinProofs ----------------------------
(***************************************************************************)
(* Theorems about the scan FSM, for every number of scans and every number *)
(* AIS and P2P start from, scans of the same number included: type         *)
(* correctness; that the scan under way is never lost: the firmware will   *)
(* be given it, has it, or has reported its end; that the firmware is      *)
(* given one scan at a time, but for those that the end of another was     *)
(* taken for; and that the FSM is the service of ScanService.  And about   *)
(* the join of an AP, for every retry limit and any number of joins,       *)
(* failed allocations and answers: a join under way always has something   *)
(* to come that moves it, and a connection is to a record in class 3.      *)
(***************************************************************************)
EXTENDS ScnFsm, SaaFsm, SequenceTheorems, FiniteSetTheorems, WellFoundedInduction, TLAPS

Messages == [m : {"REQ"}, scan : Scans] \cup [m : {"CANCEL"}, seq : Numbers]
            \cup [m : {"DONE"}, to : Requesters, scan : Scans, how : {"done", "cancelled"}]
Commands == [c : {"REQ", "CANCEL"}, scan : Scans]

\* The scan under way and the lists are what they should be.
FsmType ==
  /\ state \in {"IDLE", "SCANNING"} /\ cur \in Scans \cup {NoScan}
  /\ state = "SCANNING" => cur \in Scans
  /\ list \in Seq(Scans)
BoxType == mbox \in Seq(Messages)
ChipType == cmds \in Seq(Commands) /\ chip \in SUBSET Scans /\ events \in Seq(Scans)
AskType ==
  /\ waits \subseteq {"AIS", "P2P"} /\ num \in [{"AIS", "P2P"} -> Numbers]
  /\ timer \in BOOLEAN /\ asked \in 0..MaxScans /\ timeouts \in 0..MaxTimeouts
Types == FsmType /\ BoxType /\ ChipType /\ AskType /\ mistaken \subseteq Scans

\* An answer that the FSM gives for a scan is a message of the box.
LEMMA DoneType ==
  ASSUME NEW s \in Scans, NEW how \in {"done", "cancelled"}
  PROVE  Done(s, how) \in Messages
<1>1. s.who \in Requesters
  BY DEF Scans
<1>2. (IF cur.who = "OBSS" THEN "OBSS" ELSE Net(s.who)) \in Requesters
  BY <1>1 DEF Requesters, Net
<1> QED BY <1>2 DEF Done, Messages

\* A scan that is asked for has an id of its own.
LEMMA NewScanType ==
  ASSUME Types, MayAsk, NEW r \in Requesters, NEW q \in Numbers
  PROVE  NewScan(r, q) \in Scans
BY ScnFsmAssumption DEF Types, AskType, MayAsk, NewScan, Scans

\* A list without one of its scans is a list of scans.
LEMMA RemoveType ==
  ASSUME list \in Seq(Scans), NEW i \in DOMAIN list
  PROVE  RemovePending(i) \in Seq(Scans)
<1>1. Len(list) \in Nat /\ i \in 1..Len(list) /\ \A k \in 1..Len(list) : list[k] \in Scans
  BY LenProperties, ElementOfSeq
<1>2. SubSeq(list, 1, i - 1) \in Seq(Scans) /\ SubSeq(list, i + 1, Len(list)) \in Seq(Scans)
  BY <1>1, SubSeqProperties
<1> QED BY <1>2, ConcatProperties DEF RemovePending, RemoveAt

\* Going on to the next scan keeps the types.
LEMMA ToIdleType ==
  ASSUME FsmType, NEW sent \in Seq(Commands), ToIdle(sent)
  PROVE  FsmType' /\ cmds' \in Seq(Commands)
<1>1. CASE list = <<>>
  BY <1>1 DEF FsmType, ToIdle
<1>2. CASE list # <<>>
  <2>1. Head(list) \in Scans /\ Tail(list) \in Seq(Scans)
    BY <1>2, HeadTailProperties DEF FsmType
  <2>2. Command("REQ", Head(list)) \in Commands
    BY <2>1 DEF Command, Commands
  <2>3. /\ state' = "SCANNING" /\ cur' = Head(list) /\ list' = Tail(list)
        /\ cmds' = Append(sent, Command("REQ", Head(list)))
    BY <1>2 DEF ToIdle
  <2>4. Append(sent, Command("REQ", Head(list))) \in Seq(Commands)
    BY <2>2, AppendProperties
  <2> QED BY <2>1, <2>3, <2>4 DEF FsmType
<1> QED BY <1>1, <1>2

\* So does cancelling a scan, wherever it is.
LEMMA MsgAbortType ==
  ASSUME Types, NEW seq, NEW net, NEW bx \in Seq(Messages), MsgAbort(seq, net, bx)
  PROVE  FsmType' /\ BoxType' /\ cmds' \in Seq(Commands)
<1>1. CASE state = "SCANNING" /\ Named(cur, seq, net)
           /\ mbox' = Append(bx, Done(cur, "cancelled")) /\ ToIdle(CancelCommand)
  <2>1. cur \in Scans
    BY <1>1 DEF Types, FsmType
  <2>2. BoxType'
    BY <1>1, <2>1, DoneType DEF BoxType
  <2>3. CancelCommand \in Seq(Commands)
    BY <2>1 DEF Types, ChipType, CancelCommand, Command, Commands
  <2> QED BY <1>1, <2>2, <2>3, ToIdleType DEF Types
<1>2. CASE \E i \in Place(seq, net) :
             /\ mbox' = Append(bx, Done(list[i], "cancelled"))
             /\ list' = RemovePending(i)
             /\ UNCHANGED <<state, cur, cmds>>
  <2> PICK i \in Place(seq, net) :
             /\ mbox' = Append(bx, Done(list[i], "cancelled"))
             /\ list' = RemovePending(i)
             /\ UNCHANGED <<state, cur, cmds>>
    BY <1>2
  <2>1. i \in DOMAIN list /\ list \in Seq(Scans)
    BY DEF Place, Types, FsmType
  <2>2. list[i] \in Scans /\ list' \in Seq(Scans)
    BY <2>1, RemoveType, ElementOfSeq, LenProperties
  <2>3. BoxType'
    BY <2>2, DoneType DEF BoxType
  <2> QED BY <2>2, <2>3 DEF Types, FsmType, ChipType
<1>3. CASE mbox' = bx /\ UNCHANGED <<fsmVars, cmds>>
  BY <1>3 DEF Types, FsmType, BoxType, ChipType, fsmVars
<1> QED BY <1>1, <1>2, <1>3 DEF MsgAbort

-----------------------------------------------------------------------------
\* The firmware will still be given the scan under way ...
Ordered ==
  \E i \in 1..Len(cmds) :
    /\ cmds[i] = Command("REQ", cur)
    /\ \A j \in 1..Len(cmds) : i < j => cmds[j].c # "CANCEL"
\* ... or it has it, or has ended it, and nothing takes it away.
Kept ==
  /\ cur \in chip \/ cur \in ToSet(events)
  /\ \A j \in 1..Len(cmds) : cmds[j].c # "CANCEL"
NeverLost == state = "SCANNING" => Ordered \/ Kept

Inv == Types /\ NeverLost

\* A scan that is started is ordered behind all commands that were given.
LEMMA StartOrders ==
  ASSUME NEW sent \in Seq(Commands), NEW s \in Scans,
         cur' = s, cmds' = Append(sent, Command("REQ", s))
  PROVE  Ordered'
<1>1. Len(sent) \in Nat /\ Len(cmds') = Len(sent) + 1 /\ cmds'[Len(sent) + 1] = Command("REQ", s)
  BY LenProperties, AppendProperties
<1> QED BY <1>1 DEF Ordered, Command

\* Whatever was sent before, going on to the next scan loses none.
LEMMA ToIdleKeeps ==
  ASSUME FsmType, NEW sent \in Seq(Commands), ToIdle(sent)
  PROVE  NeverLost'
<1>1. CASE list = <<>>
  BY <1>1 DEF ToIdle, NeverLost
<1>2. CASE list # <<>>
  <2>1. Head(list) \in Scans
    BY <1>2, HeadTailProperties DEF FsmType
  <2>2. cur' = Head(list) /\ cmds' = Append(sent, Command("REQ", Head(list)))
    BY <1>2 DEF ToIdle
  <2> QED BY <2>1, <2>2, StartOrders DEF NeverLost
<1> QED BY <1>1, <1>2

\* Cancelling a scan, known or not, loses no other.
LEMMA MsgAbortKeeps ==
  ASSUME Inv, NEW seq, NEW net, NEW bx, MsgAbort(seq, net, bx), UNCHANGED <<chip, events>>
  PROVE  NeverLost'
<1>1. CASE state = "SCANNING" /\ ToIdle(CancelCommand)
  <2>1. CancelCommand \in Seq(Commands)
    BY <1>1 DEF Inv, Types, FsmType, ChipType, CancelCommand, Command, Commands
  <2> QED BY <1>1, <2>1, ToIdleKeeps DEF Inv, Types
<1>2. CASE UNCHANGED <<state, cur, cmds>>
  BY <1>2 DEF Inv, NeverLost, Ordered, Kept
<1> QED BY <1>1, <1>2 DEF MsgAbort, fsmVars

\* A new command for the firmware, or the end of a scan of it, is the only
\* other thing that touches what the FSM waits for.
LEMMA ChipCommandKeeps ==
  ASSUME Inv, ChipCommand
  PROVE  NeverLost'
<1> SUFFICES ASSUME state = "SCANNING"  PROVE Ordered' \/ Kept'
  BY DEF NeverLost, ChipCommand, fsmVars
<1>1. /\ cmds \in Seq(Commands) /\ cmds # <<>> /\ cmds' = Tail(cmds)
      /\ cur' = cur /\ events' = events
      /\ chip' = IF Head(cmds).c = "REQ" THEN chip \cup {Head(cmds).scan} ELSE {s \in chip : s.seq # Head(cmds).scan.seq}
  BY DEF Inv, Types, ChipType, ChipCommand, fsmVars
<1>2. /\ Len(cmds) \in Nat \ {0} /\ Len(cmds') = Len(cmds) - 1 /\ Head(cmds) = cmds[1]
      /\ \A k \in 1..Len(cmds') : cmds'[k] = cmds[k + 1]
  BY <1>1, HeadTailProperties, LenProperties
<1>3. Head(cmds) \in Commands
  BY <1>1, HeadTailProperties
<1>4. CASE Kept
  <2>1. \A j \in 1..Len(cmds') : cmds'[j].c # "CANCEL"
    BY <1>2, <1>4 DEF Kept
  <2>2. Head(cmds).c # "CANCEL"
    BY <1>2, <1>4 DEF Kept
  <2>3. cur \in chip => cur \in chip'
    BY <1>1, <1>3, <2>2 DEF Commands
  <2> QED BY <1>1, <1>4, <2>1, <2>3 DEF Kept, ToSet
<1>5. CASE Ordered
  <2> PICK i \in 1..Len(cmds) :
        /\ cmds[i] = Command("REQ", cur)
        /\ \A j \in 1..Len(cmds) : i < j => cmds[j].c # "CANCEL"
    BY <1>5 DEF Ordered
  <2>1. CASE i = 1
    <3>1. cur \in chip'
      BY <1>1, <1>2, <2>1 DEF Command
    <3>2. \A j \in 1..Len(cmds') : cmds'[j].c # "CANCEL"
      BY <1>2, <2>1
    <3> QED BY <1>1, <3>1, <3>2 DEF Kept, Command
  <2>2. CASE i > 1
    <3>1. i - 1 \in 1..Len(cmds') /\ cmds'[i - 1] = Command("REQ", cur)
      BY <1>2, <2>2
    <3>2. \A j \in 1..Len(cmds') : i - 1 < j => cmds'[j].c # "CANCEL"
      BY <1>2, <2>2
    <3> QED BY <1>1, <3>1, <3>2 DEF Ordered, Command
  <2> QED BY <2>1, <2>2
<1> QED BY <1>4, <1>5 DEF Inv, NeverLost

\* A done event, of the scan under way or another, leaves the one then under way.
LEMMA ScanDoneEventKeeps ==
  ASSUME Inv, ScanDoneEvent
  PROVE  NeverLost'
<1>1. /\ events \in Seq(Scans) /\ events # <<>> /\ events' = Tail(events) /\ chip' = chip
      /\ cmds \in Seq(Commands) /\ FsmType
  BY DEF Inv, Types, ChipType, ScanDoneEvent
<1>2. CASE ToIdle(cmds)
  BY <1>1, <1>2, ToIdleKeeps
<1>3. CASE ~(state = "SCANNING" /\ Head(events).seq = cur.seq) /\ UNCHANGED <<fsmVars, mbox, cmds>>
  <2> SUFFICES ASSUME state = "SCANNING", Kept  PROVE Kept'
    BY <1>3 DEF Inv, NeverLost, Ordered, fsmVars
  <2>1. Head(events) # cur
    BY <1>3
  <2>2. /\ Len(events) \in Nat \ {0} /\ Len(events') = Len(events) - 1 /\ Head(events) = events[1]
        /\ \A k \in 1..Len(events') : events'[k] = events[k + 1]
    BY <1>1, HeadTailProperties, LenProperties
  <2>3. ASSUME NEW k \in 1..Len(events), events[k] = cur
        PROVE  k - 1 \in 1..Len(events') /\ events'[k - 1] = cur
    BY <2>1, <2>2, <2>3
  <2>4. DOMAIN events = 1..Len(events) /\ DOMAIN events' = 1..Len(events')
    BY <1>1, HeadTailProperties, LenProperties
  <2>5. cur \in ToSet(events) => cur \in ToSet(events')
    <3> SUFFICES ASSUME cur \in ToSet(events)  PROVE cur \in ToSet(events')
      OBVIOUS
    <3> PICK k \in 1..Len(events) : events[k] = cur
      BY <2>4 DEF ToSet
    <3> QED BY <2>3, <2>4 DEF ToSet
  <2> QED BY <1>1, <1>3, <2>5 DEF Kept, fsmVars
<1> QED BY <1>2, <1>3 DEF ScanDoneEvent

\* A scan that ends is one whose end is still to be read.
LEMMA ChipEndsKeeps ==
  ASSUME Inv, ChipEnds
  PROVE  NeverLost'
<1> PICK s \in chip : chip' = chip \ {s} /\ events' = Append(events, s)
  BY DEF ChipEnds
<1>1. events \in Seq(Scans) /\ s \in Scans /\ UNCHANGED <<state, cur, cmds>>
  BY DEF Inv, Types, ChipType, ChipEnds, fsmVars
<1>2. /\ Len(events) \in Nat /\ Len(events') = Len(events) + 1 /\ events'[Len(events) + 1] = s
      /\ \A k \in 1..Len(events) : events'[k] = events[k]
  BY <1>1, AppendProperties, LenProperties
<1>3. s \in ToSet(events') /\ \A x \in ToSet(events) : x \in ToSet(events')
  BY <1>1, <1>2 DEF ToSet
<1>4. Kept => Kept'
  BY <1>1, <1>3 DEF Kept
<1> QED BY <1>1, <1>4 DEF Inv, NeverLost, Ordered

\* A request starts a scan, behind all commands, or joins the list.
LEMMA MsgStartKeeps ==
  ASSUME Inv, MsgStart
  PROVE  Types' /\ NeverLost'
<1> DEFINE s == Head(mbox).scan
<1>1. mbox \in Seq(Messages) /\ mbox # <<>> /\ mbox' = Tail(mbox)
      /\ cmds \in Seq(Commands) /\ list \in Seq(Scans) /\ Head(mbox).m = "REQ"
      /\ mistaken \subseteq Scans /\ UNCHANGED <<chipVars, askVars, mistaken>>
  BY DEF Inv, Types, FsmType, BoxType, ChipType, MsgStart, Recv
<1>2. Head(mbox) \in Messages /\ Tail(mbox) \in Seq(Messages)
  BY <1>1, HeadTailProperties
<1>3. s \in Scans
  BY <1>1, <1>2 DEF Messages
<1>4. Command("REQ", s) \in Commands
  BY <1>3 DEF Command, Commands
<1>5. CASE /\ state' = "SCANNING" /\ cur' = s
           /\ cmds' = Append(cmds, Command("REQ", s)) /\ UNCHANGED list
  <2>1. NeverLost'
    BY <1>1, <1>3, <1>5, StartOrders DEF NeverLost
  <2>2. Append(cmds, Command("REQ", s)) \in Seq(Commands)
    BY <1>1, <1>4, AppendProperties
  <2>3. FsmType' /\ ChipType'
    BY <1>1, <1>3, <1>5, <2>2 DEF Inv, Types, FsmType, ChipType, chipVars
  <2> QED BY <1>1, <1>2, <2>1, <2>3 DEF Inv, Types, BoxType, AskType, askVars
<1>6. CASE list' = Append(list, s) /\ UNCHANGED <<state, cur, cmds>>
  <2>1. Append(list, s) \in Seq(Scans)
    BY <1>1, <1>3, AppendProperties
  <2>2. NeverLost'
    BY <1>1, <1>6 DEF Inv, NeverLost, Ordered, Kept, chipVars
  <2> QED BY <1>1, <1>2, <1>6, <2>1, <2>2
       DEF Inv, Types, FsmType, BoxType, ChipType, AskType, chipVars, askVars
<1> QED BY <1>5, <1>6 DEF MsgStart

\* Every step keeps the types.
LEMMA TypeStep ==
  ASSUME Inv, Next
  PROVE  Types'
<1> USE DEF Inv
<1>0. /\ Types /\ mbox \in Seq(Messages) /\ cmds \in Seq(Commands) /\ events \in Seq(Scans)
      /\ chip \in SUBSET Scans /\ num \in [{"AIS", "P2P"} -> Numbers]
  BY DEF Types, BoxType, ChipType, AskType
<1>12. \A r \in {"AIS", "P2P"} : (num[r] + 1) % Wraps \in Numbers
  <2>1. \A k \in Nat : k % 256 \in 0..255
    OBVIOUS
  <2>2. \A r \in {"AIS", "P2P"} : num[r] \in Numbers
    BY <1>0
  <2> QED BY <2>1, <2>2 DEF Wraps, Numbers
<1>1. ASSUME NEW r \in {"AIS", "P2P"}, AskScan(r)  PROVE Types'
  <2>1. num' \in [{"AIS", "P2P"} -> Numbers]
    BY <1>0, <1>12, <1>1 DEF AskScan, NextNumber
  <2>2. Request(NewScan(r, num'[r])) \in Messages
    BY <1>1, <2>1, NewScanType DEF AskScan, Request, Messages, Requesters
  <2>3. mbox' \in Seq(Messages)
    BY <1>0, <1>1, <2>2, AppendProperties DEF AskScan
  <2>4. asked' \in 0..MaxScans
    BY <1>0, <1>1, ScnFsmAssumption DEF AskScan, MayAsk, Types, AskType
  <2> QED BY <1>0, <1>1, <2>1, <2>3, <2>4
       DEF AskScan, Types, FsmType, BoxType, ChipType, AskType, fsmVars, chipVars
<1>2. CASE AisCancels
  BY <1>0, <1>2, MsgAbortType DEF AisCancels, Types, BoxType, ChipType, AskType, chipVars
<1>3. CASE AisTimesOut
  <2>1. timeouts' \in 0..MaxTimeouts
    BY <1>3, ScnFsmAssumption DEF AisTimesOut, Types, AskType
  <2> QED BY <1>0, <1>3, <2>1, MsgAbortType
       DEF AisTimesOut, Types, BoxType, ChipType, AskType, chipVars
<1>4. CASE P2pCancels
  <2>1. num' \in [{"AIS", "P2P"} -> Numbers]
    BY <1>0, <1>12, <1>4 DEF P2pCancels, NextNumber
  <2>2. [m |-> "CANCEL", seq |-> num["P2P"]] \in Messages
    BY <1>0 DEF Messages
  <2>4. mbox' = mbox \/ mbox' = Append(mbox, [m |-> "CANCEL", seq |-> num["P2P"]])
    BY <1>4 DEF P2pCancels
  <2>5. Append(mbox, [m |-> "CANCEL", seq |-> num["P2P"]]) \in Seq(Messages)
    <3> HIDE DEF Messages
    <3> DEFINE c == [m |-> "CANCEL", seq |-> num["P2P"]]
    <3>1. c \in Messages
      BY <2>2
    <3> HIDE DEF c
    <3>2. Append(mbox, c) \in Seq(Messages)
      BY <1>0, <3>1, AppendProperties
    <3> QED BY <3>2 DEF c
  <2>3. mbox' \in Seq(Messages)
    BY <1>0, <2>4, <2>5
  <2> QED BY <1>0, <1>4, <2>1, <2>3
       DEF P2pCancels, Types, FsmType, BoxType, ChipType, AskType, fsmVars, chipVars
<1>5. CASE ObssTimeout
  <2>1. Request(NewScan("OBSS", ObssNumber)) \in Messages
    <3>1. ObssNumber \in Numbers
      BY DEF ObssNumber, Numbers, Wraps
    <3> QED BY <1>5, <3>1, NewScanType DEF ObssTimeout, Request, Messages, Requesters
  <2>2. mbox' \in Seq(Messages)
    BY <1>0, <1>5, <2>1, AppendProperties DEF ObssTimeout
  <2>3. asked' \in 0..MaxScans
    BY <1>0, <1>5, ScnFsmAssumption DEF ObssTimeout, MayAsk, Types, AskType
  <2> QED BY <1>0, <1>5, <2>2, <2>3
       DEF ObssTimeout, Types, FsmType, BoxType, ChipType, AskType, fsmVars, chipVars
<1>6. CASE MsgStart
  BY <1>6, MsgStartKeeps
<1>7. CASE P2pAbort
  <2>1. Tail(mbox) \in Seq(Messages)
    BY <1>0, <1>7, HeadTailProperties DEF P2pAbort, Recv
  <2> QED BY <1>0, <1>7, <2>1, MsgAbortType
       DEF P2pAbort, Types, BoxType, ChipType, AskType, chipVars, askVars
<1>8. CASE ScanDone
  <2>1. mbox' \in Seq(Messages)
    BY <1>0, <1>8, HeadTailProperties DEF ScanDone, Recv
  <2>2. waits' \subseteq {"AIS", "P2P"} /\ timer' \in BOOLEAN
    BY <1>8 DEF ScanDone, Types, AskType
  <2> QED BY <1>0, <1>8, <2>1, <2>2
       DEF ScanDone, Types, FsmType, BoxType, ChipType, AskType, fsmVars, chipVars
<1>9. CASE ScanDoneEvent
  <2>1. events' \in Seq(Scans)
    BY <1>0, <1>9, HeadTailProperties DEF ScanDoneEvent
  <2>2. CASE state = "SCANNING" /\ mbox' = Append(mbox, Done(cur, "done")) /\ ToIdle(cmds)
    <3>1. Done(cur, "done") \in Messages
      BY <1>0, <2>2, DoneType DEF Types, FsmType
    <3>2. mbox' \in Seq(Messages)
      BY <1>0, <2>2, <3>1, AppendProperties
    <3>3. FsmType' /\ cmds' \in Seq(Commands)
      BY <1>0, <2>2, ToIdleType DEF Types
    <3>4. mistaken' \subseteq Scans
      BY <1>0, <1>9, <2>2 DEF ScanDoneEvent, Types, FsmType
    <3> QED BY <1>0, <1>9, <2>1, <3>2, <3>3, <3>4
         DEF ScanDoneEvent, Types, BoxType, ChipType, AskType, askVars
  <2>3. CASE UNCHANGED <<fsmVars, mbox, cmds, mistaken>>
    BY <1>0, <1>9, <2>1, <2>3
    DEF ScanDoneEvent, Types, FsmType, BoxType, ChipType, AskType, fsmVars, askVars
  <2> QED BY <1>9, <2>2, <2>3 DEF ScanDoneEvent
<1>10. CASE ChipCommand
  <2>1. Head(cmds) \in Commands /\ cmds' \in Seq(Commands)
    BY <1>0, <1>10, HeadTailProperties DEF ChipCommand
  <2>2. chip' \in SUBSET Scans
    BY <1>0, <1>10, <2>1 DEF ChipCommand, Commands
  <2> QED BY <1>0, <1>10, <2>1, <2>2
       DEF ChipCommand, Types, FsmType, BoxType, ChipType, AskType, fsmVars, askVars
<1>11. CASE ChipEnds
  <2>1. events' \in Seq(Scans) /\ chip' \in SUBSET Scans
    BY <1>0, <1>11, AppendProperties DEF ChipEnds
  <2> QED BY <1>0, <1>11, <2>1
       DEF ChipEnds, Types, FsmType, BoxType, ChipType, AskType, fsmVars, askVars
<1> QED BY <1>1, <1>2, <1>3, <1>4, <1>5, <1>6, <1>7, <1>8, <1>9, <1>10, <1>11 DEF Next, Handle

\* Every step leaves the scan under way with the firmware.
LEMMA KeepStep ==
  ASSUME Inv, Next
  PROVE  NeverLost'
<1>1. CASE UNCHANGED <<fsmVars, cmds, chipVars>>
  BY <1>1 DEF Inv, NeverLost, Ordered, Kept, fsmVars, chipVars
<1>2. (\E r \in {"AIS", "P2P"} : AskScan(r)) \/ P2pCancels \/ ObssTimeout \/ ScanDone
      => UNCHANGED <<fsmVars, cmds, chipVars>>
  BY DEF AskScan, P2pCancels, ObssTimeout, ScanDone
<1>3. CASE AisCancels
  BY <1>3, MsgAbortKeeps DEF AisCancels, chipVars
<1>4. CASE AisTimesOut
  BY <1>4, MsgAbortKeeps DEF AisTimesOut, chipVars
<1>5. CASE P2pAbort
  BY <1>5, MsgAbortKeeps DEF P2pAbort, chipVars
<1> QED BY <1>1, <1>2, <1>3, <1>4, <1>5, MsgStartKeeps, ScanDoneEventKeeps, ChipCommandKeeps,
           ChipEndsKeeps DEF Next, Handle

\* The invariant from which both theorems follow.
LEMMA Invariance == Spec => []Inv
<1>1. Init => Inv
  BY ScnFsmAssumption, EmptySeq
  DEF Init, Inv, Types, FsmType, BoxType, ChipType, AskType, NeverLost, NoScan
<1>2. Inv /\ [Next]_vars => Inv'
  <2>1. CASE UNCHANGED vars
    BY <2>1 DEF Inv, Types, FsmType, BoxType, ChipType, AskType, NeverLost, Ordered, Kept,
                vars, fsmVars, chipVars, askVars
  <2> QED BY <2>1, TypeStep, KeepStep DEF Inv
<1> QED BY <1>1, <1>2, PTL DEF Spec

\* The state of the scan FSM, its list, the box and the numbers keep their
\* types: the 8-bit numbers wrap.
THEOREM TypeCorrect == Spec => []TypeOK
<1>1. Inv => TypeOK
  BY DEF Inv, Types, FsmType, BoxType, ChipType, AskType, TypeOK, Messages, Commands
<1> QED BY <1>1, Invariance, PTL

\* Whatever is queued, cancelled and timed out, and even when two scans have
\* the same number, SCANNING means that the firmware has the scan, will be
\* given it, or has reported its end: the FSM does not wait for nothing.
THEOREM ScanNeverLost == Spec => []ChipWorksForIt
<1>1. Inv => ChipWorksForIt
  <2> SUFFICES ASSUME Inv, state = "SCANNING", Ordered  PROVE InFlight(cur)
    BY DEF Inv, NeverLost, Kept, ChipWorksForIt
  <2>1. DOMAIN cmds = 1..Len(cmds)
    BY LenProperties DEF Inv, Types, ChipType
  <2> QED BY <2>1 DEF Ordered, InFlight
<1> QED BY <1>1, Invariance, PTL
-----------------------------------------------------------------------------
(* Where a scan is.  No two scans have one id, and scans are asked for,     *)
(* queued, started and given to the firmware in the order of their ids.     *)

Requests == {k \in 1..Len(mbox) : mbox[k].m = "REQ"}
Sent == {k \in 1..Len(cmds) : cmds[k].c = "REQ"}

\* The scans that wait were asked for after the last one that was started.
Queued ==
  /\ cur.id <= asked
  /\ \A i \in 1..Len(list) : cur.id < list[i].id /\ list[i].id <= asked
  /\ \A j \in Requests : cur.id < mbox[j].scan.id /\ mbox[j].scan.id <= asked
  /\ \A i, k \in 1..Len(list) : i < k => list[i].id < list[k].id
  /\ \A j, k \in Requests : j < k => mbox[j].scan.id < mbox[k].scan.id
  /\ \A i \in 1..Len(list), j \in Requests : list[i].id < mbox[j].scan.id

\* A scan that was started is in a command, at the firmware or ended, and in
\* one of the three.
OnePlace ==
  /\ \A x \in chip : x.id <= cur.id
  /\ \A e \in 1..Len(events) : events[e].id <= cur.id
  /\ \A k \in Sent : cmds[k].scan.id <= cur.id
  /\ \A x \in chip, e \in 1..Len(events) : events[e] # x
  /\ \A x \in chip, k \in Sent : x.id < cmds[k].scan.id
  /\ \A e \in 1..Len(events), k \in Sent : events[e].id < cmds[k].scan.id
  /\ \A j, k \in Sent : j < k => cmds[j].scan.id < cmds[k].scan.id

\* In IDLE no scan waits.
IdleEmpty == state = "IDLE" => list = <<>>

PlaceInv == Queued /\ OnePlace /\ IdleEmpty

\* All ids are numbers.
LEMMA Ids ==
  ASSUME Types
  PROVE  /\ cur.id \in Nat /\ asked \in Nat
         /\ \A i \in 1..Len(list) : list[i] \in Scans /\ list[i].id \in Nat
         /\ \A j \in Requests : mbox[j].scan \in Scans /\ mbox[j].scan.id \in Nat
         /\ \A x \in chip : x.id \in Nat
         /\ \A e \in 1..Len(events) : events[e] \in Scans /\ events[e].id \in Nat
         /\ \A k \in 1..Len(cmds) : cmds[k].scan \in Scans /\ cmds[k].scan.id \in Nat
<1>1. \A s \in Scans : s.id \in Nat
  BY ScnFsmAssumption DEF Scans
<1>2. cur.id \in Nat /\ asked \in Nat
  BY <1>1, ScnFsmAssumption DEF Types, FsmType, AskType, NoScan
<1>3. \A i \in 1..Len(list) : list[i] \in Scans
  BY ElementOfSeq DEF Types, FsmType
<1>4. \A j \in Requests : mbox[j].scan \in Scans
  <2>1. \A j \in 1..Len(mbox) : mbox[j] \in Messages
    BY ElementOfSeq DEF Types, BoxType
  <2> QED BY <2>1 DEF Requests, Messages
<1>5. \A e \in 1..Len(events) : events[e] \in Scans
  BY ElementOfSeq DEF Types, ChipType
<1>6. \A k \in 1..Len(cmds) : cmds[k].scan \in Scans
  <2>1. \A k \in 1..Len(cmds) : cmds[k] \in Commands
    BY ElementOfSeq DEF Types, ChipType
  <2> QED BY <2>1 DEF Commands
<1>7. chip \subseteq Scans
  BY DEF Types, ChipType
<1> QED BY <1>1, <1>2, <1>3, <1>4, <1>5, <1>6, <1>7

\* m is l, or l with one less.
Drops(l, m) ==
  \E i \in Nat : \A k \in 1..Len(m) :
    \E j \in 1..Len(l) : m[k] = l[j] /\ j = IF k < i THEN k ELSE k + 1
\* The requests of c are requests of b, from d places further on.
Carries(b, c) ==
  \E d \in {0, 1} : \A k \in 1..Len(c) : c[k].m = "REQ" => k + d \in 1..Len(b) /\ c[k] = b[k + d]

LEMMA TailDrops ==
  ASSUME NEW l \in Seq(Scans), l # <<>>
  PROVE  /\ Drops(l, Tail(l)) /\ Head(l) = l[1] /\ 1 \in 1..Len(l) /\ Len(Tail(l)) = Len(l) - 1
         /\ \A k \in 1..Len(Tail(l)) : k + 1 \in 1..Len(l) /\ Tail(l)[k] = l[k + 1]
<1>1. /\ Len(l) \in Nat \ {0} /\ Len(Tail(l)) = Len(l) - 1 /\ Head(l) = l[1]
      /\ \A k \in 1..Len(Tail(l)) : Tail(l)[k] = l[k + 1]
  BY HeadTailProperties, LenProperties
<1>2. \A k \in 1..Len(Tail(l)) : k + 1 \in 1..Len(l) /\ Tail(l)[k] = l[k + 1] /\ k + 1 = IF k < 1 THEN k ELSE k + 1
  BY <1>1
<1>3. Drops(l, Tail(l))
  BY <1>2, 1 \in Nat DEF Drops
<1> QED BY <1>1, <1>2, <1>3

\* Taking out any of the list.
LEMMA RemoveDrops ==
  ASSUME list \in Seq(Scans), NEW i \in DOMAIN list
  PROVE  Drops(list, RemovePending(i))
<1> DEFINE n == Len(list)
           a == SubSeq(list, 1, i - 1)
           b == SubSeq(list, i + 1, n)
           m == RemovePending(i)
<1>1. n \in Nat /\ i \in 1..n /\ \A k \in 1..n : list[k] \in Scans
  BY LenProperties, ElementOfSeq
<1>2. /\ a \in Seq(Scans) /\ Len(a) = i - 1 /\ \A k \in 1..i - 1 : a[k] = list[k]
  BY <1>1, SubSeqProperties
<1>3. /\ b \in Seq(Scans) /\ Len(b) = n - i /\ \A k \in 1..n - i : b[k] = list[i + k]
  BY <1>1, SubSeqProperties
<1>4. m = a \o b
  BY DEF RemovePending, RemoveAt
<1> HIDE DEF a, b, m
<1>5. /\ Len(m) = n - 1
      /\ \A k \in 1..n - 1 : m[k] = IF k < i THEN list[k] ELSE list[k + 1]
  <2>0. /\ Len(a \o b) = Len(a) + Len(b)
        /\ \A k \in 1..Len(a) + Len(b) : (a \o b)[k] = IF k <= Len(a) THEN a[k] ELSE b[k - Len(a)]
    BY <1>2, <1>3, ConcatProperties
  <2>4. Len(a) + Len(b) = n - 1
    BY <1>1, <1>2, <1>3
  <2>1. Len(m) = n - 1 /\ \A k \in 1..n - 1 : m[k] = IF k <= i - 1 THEN a[k] ELSE b[k - (i - 1)]
    BY <1>2, <1>4, <2>0, <2>4
  <2>2. ASSUME NEW k \in 1..n - 1, k < i  PROVE m[k] = list[k]
    BY <1>1, <1>2, <2>1, <2>2
  <2>3. ASSUME NEW k \in 1..n - 1, ~(k < i)  PROVE m[k] = list[k + 1]
    <3>1. k - (i - 1) \in 1..n - i /\ i + (k - (i - 1)) = k + 1 /\ ~(k <= i - 1)
      BY <1>1, <2>3
    <3>2. m[k] = b[k - (i - 1)]
      BY <2>1, <3>1
    <3>3. b[k - (i - 1)] = list[i + (k - (i - 1))]
      BY <1>3, <3>1
    <3> QED BY <3>1, <3>2, <3>3
  <2> QED BY <2>1, <2>2, <2>3
<1>6. ASSUME NEW k \in 1..Len(m)
      PROVE  \E j \in 1..n : m[k] = list[j] /\ j = IF k < i THEN k ELSE k + 1
  <2>1. k \in 1..n - 1 /\ k \in 1..n /\ k + 1 \in 1..n
    BY <1>1, <1>5
  <2>2. CASE k < i
    BY <1>5, <2>1, <2>2
  <2>3. CASE ~(k < i)
    BY <1>5, <2>1, <2>3
  <2> QED BY <2>2, <2>3
<1>7. i \in Nat /\ \A k \in 1..Len(m) : \E j \in 1..Len(list) : m[k] = list[j] /\ j = IF k < i THEN k ELSE k + 1
  BY <1>1, <1>6
<1>8. Drops(list, m)
  BY <1>7, Zenon DEF Drops
<1> QED BY <1>8 DEF m

LEMMA SameDrops ==
  ASSUME NEW l \in Seq(Scans)
  PROVE  Drops(l, l)
<1>1. Len(l) \in Nat
  BY LenProperties
<1>2. \A k \in 1..Len(l) : l[k] = l[k] /\ k = IF k < Len(l) + 1 THEN k ELSE k + 1
  BY <1>1
<1>3. Len(l) + 1 \in Nat
  BY <1>1
<1> QED BY <1>2, <1>3 DEF Drops

\* Handling a message, and answering one, adds no request to the box.
LEMMA BoxCarries ==
  ASSUME NEW b \in Seq(Messages), NEW bx, bx = b \/ (b # <<>> /\ bx = Tail(b)),
         NEW d \in Messages, d.m # "REQ"
  PROVE  Carries(b, bx) /\ Carries(b, Append(bx, d)) /\ bx \in Seq(Messages)
<1>0. bx \in Seq(Messages)
  BY HeadTailProperties
<1>1. PICK p \in {0, 1} : \A k \in 1..Len(bx) : k + p \in 1..Len(b) /\ bx[k] = b[k + p]
  <2>1. CASE bx = b
    <3>1. Len(b) \in Nat
      BY LenProperties
    <3>2. \A k \in 1..Len(bx) : k + 0 \in 1..Len(b) /\ bx[k] = b[k + 0]
      BY <2>1, <3>1
    <3> QED BY <3>2
  <2>2. CASE b # <<>> /\ bx = Tail(b)
    <3>1. Len(b) \in Nat \ {0} /\ Len(bx) = Len(b) - 1 /\ \A k \in 1..Len(bx) : bx[k] = b[k + 1]
      BY <2>2, HeadTailProperties, LenProperties
    <3>2. \A k \in 1..Len(bx) : k + 1 \in 1..Len(b) /\ bx[k] = b[k + 1]
      BY <3>1
    <3> QED BY <3>2
  <2> QED BY <2>1, <2>2
<1>2. Carries(b, bx)
  BY <1>1 DEF Carries
<1> DEFINE c == Append(bx, d)
<1>3. /\ Len(bx) \in Nat /\ Len(c) = Len(bx) + 1 /\ c[Len(bx) + 1] = d
      /\ \A k \in 1..Len(bx) : c[k] = bx[k]
  BY <1>0, LenProperties, AppendProperties
<1> HIDE DEF c
<1>4. ASSUME NEW k \in 1..Len(c), c[k].m = "REQ"  PROVE k + p \in 1..Len(b) /\ c[k] = b[k + p]
  <2>1. k # Len(bx) + 1
    BY <1>3, <1>4
  <2>2. k \in 1..Len(bx)
    BY <1>3, <2>1
  <2> QED BY <1>1, <1>3, <2>2
<1>5. Carries(b, c)
  BY <1>4 DEF Carries
<1> QED BY <1>0, <1>2, <1>5 DEF c

\* A list and a box that lose scans, with the same scan under way.
LEMMA QueuedKept ==
  ASSUME Types, Queued, cur' = cur, asked' = asked, Drops(list, list'), Carries(mbox, mbox')
  PROVE  Queued'
<1> PICK i \in Nat : \A k \in 1..Len(list') :
       \E j \in 1..Len(list) : list'[k] = list[j] /\ j = IF k < i THEN k ELSE k + 1
  BY DEF Drops
<1> PICK d \in {0, 1} : \A k \in 1..Len(mbox') :
       mbox'[k].m = "REQ" => k + d \in 1..Len(mbox) /\ mbox'[k] = mbox[k + d]
  BY DEF Carries
<1>1. \A k \in Requests' : k + d \in Requests /\ mbox'[k] = mbox[k + d] /\ k \in Int
  BY DEF Requests
<1>2. \A k, l \in 1..Len(list') : k < l => list'[k].id < list'[l].id
  <2> SUFFICES ASSUME NEW k \in 1..Len(list'), NEW l \in 1..Len(list'), k < l
               PROVE  list'[k].id < list'[l].id
    OBVIOUS
  <2>1. PICK j \in 1..Len(list) : list'[k] = list[j] /\ j = IF k < i THEN k ELSE k + 1
    OBVIOUS
  <2>2. PICK m \in 1..Len(list) : list'[l] = list[m] /\ m = IF l < i THEN l ELSE l + 1
    OBVIOUS
  <2>3. j < m
    BY <2>1, <2>2
  <2> QED BY <2>1, <2>2, <2>3 DEF Queued
<1>3. \A j, k \in Requests' : j < k => mbox'[j].scan.id < mbox'[k].scan.id
  <2> SUFFICES ASSUME NEW j \in Requests', NEW k \in Requests', j < k
               PROVE  mbox'[j].scan.id < mbox'[k].scan.id
    OBVIOUS
  <2>1. j + d \in Requests /\ k + d \in Requests /\ mbox'[j] = mbox[j + d] /\ mbox'[k] = mbox[k + d] /\ j + d < k + d
    BY <1>1
  <2> QED BY <2>1 DEF Queued
<1>4. \A k \in 1..Len(list') : \E j \in 1..Len(list) : list'[k] = list[j]
  OBVIOUS
<1>5. \A k \in Requests' : \E j \in Requests : mbox'[k] = mbox[j]
  BY <1>1
<1>6. /\ cur'.id <= asked'
      /\ \A k \in 1..Len(list') : cur'.id < list'[k].id /\ list'[k].id <= asked'
      /\ \A j \in Requests' : cur'.id < mbox'[j].scan.id /\ mbox'[j].scan.id <= asked'
  BY <1>4, <1>5 DEF Queued
<1>7. \A k \in 1..Len(list'), j \in Requests' : list'[k].id < mbox'[j].scan.id
  <2> TAKE k \in 1..Len(list'), j \in Requests'
  <2>1. PICK i0 \in 1..Len(list) : list'[k] = list[i0]
    BY <1>4
  <2>2. PICK j0 \in Requests : mbox'[j] = mbox[j0]
    BY <1>5
  <2> QED BY <2>1, <2>2 DEF Queued
<1> QED BY <1>2, <1>3, <1>6, <1>7 DEF Queued

\* The first of the list is started.
LEMMA QueuedNext ==
  ASSUME Types, Queued, list # <<>>, cur' = Head(list), list' = Tail(list), asked' = asked,
         Carries(mbox, mbox')
  PROVE  Queued' /\ cur.id < cur'.id
<1>0. list \in Seq(Scans)
  BY DEF Types, FsmType
<1>1. /\ cur' = list[1] /\ 1 \in 1..Len(list)
      /\ \A k \in 1..Len(list') : k + 1 \in 1..Len(list) /\ list'[k] = list[k + 1]
  BY <1>0, TailDrops
<1> PICK d \in {0, 1} : \A k \in 1..Len(mbox') :
       mbox'[k].m = "REQ" => k + d \in 1..Len(mbox) /\ mbox'[k] = mbox[k + d]
  BY DEF Carries
<1>2. \A k \in Requests' : k + d \in Requests /\ mbox'[k] = mbox[k + d] /\ k \in Int
  BY DEF Requests
<1>3. \A j, k \in Requests' : j < k => mbox'[j].scan.id < mbox'[k].scan.id
  <2> SUFFICES ASSUME NEW j \in Requests', NEW k \in Requests', j < k
               PROVE  mbox'[j].scan.id < mbox'[k].scan.id
    OBVIOUS
  <2>1. j + d \in Requests /\ k + d \in Requests /\ mbox'[j] = mbox[j + d] /\ mbox'[k] = mbox[k + d] /\ j + d < k + d
    BY <1>2
  <2> QED BY <2>1 DEF Queued
<1>4. \A k \in Requests' : \E j \in Requests : mbox'[k] = mbox[j]
  BY <1>2
<1>5. \A k, l \in 1..Len(list') : k < l => list'[k].id < list'[l].id
  BY <1>1 DEF Queued
<1>6. \A k \in 1..Len(list') : cur'.id < list'[k].id /\ list'[k].id <= asked'
  BY <1>1 DEF Queued
<1>7. \A j \in Requests' : cur'.id < mbox'[j].scan.id /\ mbox'[j].scan.id <= asked'
  BY <1>1, <1>4 DEF Queued
<1>8. \A k \in 1..Len(list'), j \in Requests' : list'[k].id < mbox'[j].scan.id
  BY <1>1, <1>4 DEF Queued
<1>9. cur'.id <= asked' /\ cur.id < cur'.id
  BY <1>1 DEF Queued
<1> QED BY <1>3, <1>5, <1>6, <1>7, <1>8, <1>9 DEF Queued

\* Nothing is started: commands, scans at the firmware and ends go.
LEMMA SamePlace ==
  ASSUME OnePlace, cur' = cur, \A x \in chip' : x \in chip,
         \A e \in 1..Len(events') : \E f \in 1..Len(events) : events'[e] = events[f],
         NEW d \in {0, 1}, \A k \in Sent' : k \in Int /\ k + d \in Sent /\ cmds'[k] = cmds[k + d]
  PROVE  OnePlace'
<1>1. \A k \in Sent' : \E j \in Sent : cmds'[k] = cmds[j]
  OBVIOUS
<1>2. \A j, k \in Sent' : j < k => cmds'[j].scan.id < cmds'[k].scan.id
  <2> SUFFICES ASSUME NEW j \in Sent', NEW k \in Sent', j < k
               PROVE  cmds'[j].scan.id < cmds'[k].scan.id
    OBVIOUS
  <2>1. j + d \in Sent /\ k + d \in Sent /\ cmds'[j] = cmds[j + d] /\ cmds'[k] = cmds[k + d] /\ j + d < k + d
    OBVIOUS
  <2> QED BY <2>1 DEF OnePlace
<1>3. \A x \in chip', e \in 1..Len(events') : events'[e] # x
  BY DEF OnePlace
<1>4. \A x \in chip', k \in Sent' : x.id < cmds'[k].scan.id
  BY <1>1 DEF OnePlace
<1>5. \A e \in 1..Len(events'), k \in Sent' : events'[e].id < cmds'[k].scan.id
  BY <1>1 DEF OnePlace
<1>6. /\ \A x \in chip' : x.id <= cur'.id
      /\ \A e \in 1..Len(events') : events'[e].id <= cur'.id
      /\ \A k \in Sent' : cmds'[k].scan.id <= cur'.id
  BY <1>1 DEF OnePlace
<1> QED BY <1>2, <1>3, <1>4, <1>5, <1>6 DEF OnePlace

\* A scan is started that was asked for later than all that were.
LEMMA StartPlace ==
  ASSUME Types, OnePlace, NEW s \in Scans, cur.id < s.id, NEW sent \in Seq(Commands),
         \A k \in 1..Len(sent) : sent[k].c = "REQ" => k \in Sent /\ sent[k] = cmds[k],
         cur' = s, cmds' = Append(sent, Command("REQ", s)), chip' = chip,
         \A e \in 1..Len(events') : \E f \in 1..Len(events) : events'[e] = events[f]
  PROVE  OnePlace'
<1> DEFINE n == Len(sent)
<1>1. /\ n \in Nat /\ Len(cmds') = n + 1 /\ cmds'[n + 1] = Command("REQ", s)
      /\ \A k \in 1..n : cmds'[k] = sent[k]
  BY LenProperties, AppendProperties
<1>2. s.id \in Nat
  BY DEF Scans
<1> HIDE DEF n
<1>3. \A k \in Sent' : \/ k = n + 1 /\ cmds'[k].scan = s
                       \/ k \in 1..n /\ k \in Sent /\ cmds'[k] = cmds[k]
  <2> SUFFICES ASSUME NEW k \in Sent', k # n + 1
               PROVE  k \in 1..n /\ k \in Sent /\ cmds'[k] = cmds[k]
    BY <1>1 DEF Command
  <2>1. k \in 1..n /\ cmds'[k].c = "REQ" /\ cmds'[k] = sent[k]
    BY <1>1 DEF Sent
  <2> QED BY <2>1 DEF n
<1>4. /\ \A x \in chip : x.id \in Nat
      /\ \A e \in 1..Len(events) : events[e].id \in Nat
      /\ \A k \in Sent : cmds[k].scan.id \in Nat
      /\ cur.id \in Nat
  BY Ids DEF Sent
<1>5. /\ \A x \in chip' : x.id <= s.id /\ x.id < s.id
      /\ \A e \in 1..Len(events') : events'[e].id < s.id /\ events'[e].id <= s.id
      /\ \A k \in Sent : cmds[k].scan.id < s.id
  <2>1. \A k \in Nat : k <= cur.id => k < s.id /\ k <= s.id
    BY <1>2, <1>4
  <2>2. \A x \in chip' : x.id <= s.id /\ x.id < s.id
    BY <1>4, <2>1 DEF OnePlace
  <2>3. \A e \in 1..Len(events) : events[e].id < s.id /\ events[e].id <= s.id
    BY <1>4, <2>1 DEF OnePlace
  <2>4. \A e \in 1..Len(events') : events'[e].id < s.id /\ events'[e].id <= s.id
    BY <2>3
  <2>5. \A k \in Sent : cmds[k].scan.id < s.id
    BY <1>4, <2>1 DEF OnePlace
  <2> QED BY <2>2, <2>4, <2>5
<1>6. \A k \in Sent' : cmds'[k].scan.id <= s.id
  <2>0. \A r : r = s \/ (\E k \in Sent : r = cmds[k].scan) => r.id <= s.id
    BY ONLY <1>2, <1>4, <1>5
  <2> TAKE k \in Sent'
  <2>1. cmds'[k].scan = s \/ (\E j \in Sent : cmds'[k].scan = cmds[j].scan)
    BY <1>3, Zenon
  <2> QED BY <2>0, <2>1, Zenon
<1>7. \A x \in chip', k \in Sent' : x.id < cmds'[k].scan.id
  BY <1>3, <1>5 DEF OnePlace
<1>8. \A e \in 1..Len(events'), k \in Sent' : events'[e].id < cmds'[k].scan.id
  BY <1>3, <1>5 DEF OnePlace
<1>9. \A j, k \in Sent' : j < k => cmds'[j].scan.id < cmds'[k].scan.id
  <2> SUFFICES ASSUME NEW j \in Sent', NEW k \in Sent', j < k
               PROVE  cmds'[j].scan.id < cmds'[k].scan.id
    OBVIOUS
  <2>0. k \in 1..n + 1
    BY <1>1 DEF Sent
  <2>1. j \in 1..n /\ j \in Sent /\ cmds'[j] = cmds[j]
    <3>1. j # n + 1
      BY <1>1, <2>0
    <3> QED BY <1>3, <3>1
  <2>2. CASE k = n + 1
    <3>1. cmds'[k].scan = s
      BY <1>1, <2>2 DEF Command
    <3> QED BY <1>5, <2>1, <3>1
  <2>3. CASE k \in 1..n /\ k \in Sent /\ cmds'[k] = cmds[k]
    BY <2>1, <2>3 DEF OnePlace
  <2> QED BY <1>3, <2>2, <2>3
<1>10. \A x \in chip', e \in 1..Len(events') : events'[e] # x
  BY DEF OnePlace
<1> QED BY <1>5, <1>6, <1>7, <1>8, <1>9, <1>10 DEF OnePlace

\* Going on to the next scan, or none.
LEMMA ToIdlePlace ==
  ASSUME Types, PlaceInv, NEW sent \in Seq(Commands), ToIdle(sent),
         \A k \in 1..Len(sent) : sent[k].c = "REQ" => k \in Sent /\ sent[k] = cmds[k],
         chip' = chip, \A e \in 1..Len(events') : \E f \in 1..Len(events) : events'[e] = events[f],
         asked' = asked, Carries(mbox, mbox')
  PROVE  PlaceInv'
<1>0. list \in Seq(Scans) /\ Len(sent) \in Nat
  BY LenProperties DEF Types, FsmType
<1>1. CASE list = <<>>
  <2>1. cmds' = sent /\ cur' = cur /\ list' = list
    BY <1>1 DEF ToIdle
  <2>2. Queued'
    BY <1>0, <2>1, SameDrops, QueuedKept DEF PlaceInv
  <2>3. \A k \in Sent' : k \in Int /\ k + 0 \in Sent /\ cmds'[k] = cmds[k + 0]
    BY <1>0, <2>1 DEF Sent
  <2>4. OnePlace'
    BY <2>1, <2>3, SamePlace DEF PlaceInv
  <2> QED BY <1>1, <2>1, <2>2, <2>4 DEF PlaceInv, IdleEmpty
<1>2. CASE list # <<>>
  <2>1. /\ state' = "SCANNING" /\ cur' = Head(list) /\ list' = Tail(list)
        /\ cmds' = Append(sent, Command("REQ", Head(list)))
    BY <1>2 DEF ToIdle
  <2>2. Head(list) \in Scans
    BY <1>0, <1>2, HeadTailProperties
  <2>3. Queued' /\ cur.id < cur'.id
    BY <1>2, <2>1, QueuedNext DEF PlaceInv
  <2>4. OnePlace'
    BY <2>1, <2>2, <2>3, StartPlace DEF PlaceInv
  <2> QED BY <2>1, <2>3, <2>4 DEF PlaceInv, IdleEmpty
<1> QED BY <1>1, <1>2

\* A command to cancel is no request.
LEMMA CancelSent ==
  ASSUME Types, state = "SCANNING"
  PROVE  /\ CancelCommand \in Seq(Commands) /\ Len(CancelCommand) = Len(cmds) + 1
         /\ CancelCommand[Len(cmds) + 1] = Command("CANCEL", cur)
         /\ \A k \in 1..Len(cmds) : CancelCommand[k] = cmds[k]
         /\ \A k \in 1..Len(CancelCommand) :
              CancelCommand[k].c = "REQ" => k \in Sent /\ CancelCommand[k] = cmds[k]
<1>1. cmds \in Seq(Commands) /\ Len(cmds) \in Nat /\ Command("CANCEL", cur) \in Commands
  BY LenProperties DEF Types, FsmType, ChipType, Command, Commands
<1>2. /\ CancelCommand \in Seq(Commands) /\ Len(CancelCommand) = Len(cmds) + 1
      /\ CancelCommand[Len(cmds) + 1] = Command("CANCEL", cur)
      /\ \A k \in 1..Len(cmds) : CancelCommand[k] = cmds[k]
  BY <1>1, AppendProperties DEF CancelCommand
<1>3. ASSUME NEW k \in 1..Len(CancelCommand), CancelCommand[k].c = "REQ"
      PROVE  k \in Sent /\ CancelCommand[k] = cmds[k]
  <2>1. k # Len(cmds) + 1
    BY <1>2, <1>3 DEF Command
  <2>2. k \in 1..Len(cmds)
    BY <1>1, <1>2, <2>1
  <2> QED BY <1>2, <1>3, <2>2 DEF Sent
<1> QED BY <1>2, <1>3

\* Cancelling a scan, wherever it is.
LEMMA MsgAbortPlace ==
  ASSUME Types, PlaceInv, NEW seq, NEW net, NEW bx, bx = mbox \/ (mbox # <<>> /\ bx = Tail(mbox)),
         MsgAbort(seq, net, bx), UNCHANGED <<chip, events, asked>>
  PROVE  PlaceInv'
<1>0. /\ list \in Seq(Scans) /\ mbox \in Seq(Messages)
      /\ \A e \in 1..Len(events') : \E f \in 1..Len(events) : events'[e] = events[f]
  BY DEF Types, FsmType, BoxType
<1>a. \A s \in Scans : Carries(mbox, Append(bx, Done(s, "cancelled")))
  <2> TAKE s \in Scans
  <2> DEFINE d == Done(s, "cancelled")
  <2>1. d \in Messages /\ d.m # "REQ"
    BY DoneType DEF Done
  <2> HIDE DEF d
  <2>2. Carries(mbox, Append(bx, d))
    BY <1>0, <2>1, BoxCarries
  <2> QED BY <2>2 DEF d
<1>1. CASE /\ state = "SCANNING" /\ mbox' = Append(bx, Done(cur, "cancelled")) /\ ToIdle(CancelCommand)
  <2>1. cur \in Scans
    BY <1>1 DEF Types, FsmType
  <2>2. Carries(mbox, mbox')
    BY <1>a, <1>1, <2>1
  <2>3. /\ CancelCommand \in Seq(Commands)
        /\ \A k \in 1..Len(CancelCommand) :
             CancelCommand[k].c = "REQ" => k \in Sent /\ CancelCommand[k] = cmds[k]
    BY <1>1, CancelSent
  <2> DEFINE sent == CancelCommand
  <2>4. /\ sent \in Seq(Commands) /\ ToIdle(sent) /\ asked' = asked /\ chip' = chip
        /\ \A k \in 1..Len(sent) : sent[k].c = "REQ" => k \in Sent /\ sent[k] = cmds[k]
    BY <1>1, <2>3
  <2> HIDE DEF sent
  <2> QED BY <1>0, <2>2, <2>4, ToIdlePlace
<1>2. ASSUME state = "SCANNING", NEW i \in Place(seq, net), mbox' = Append(bx, Done(list[i], "cancelled")),
             list' = RemovePending(i), UNCHANGED <<state, cur, cmds>>
      PROVE  PlaceInv'
  <2>1. i \in DOMAIN list /\ list[i] \in Scans
    BY <1>0, ElementOfSeq, LenProperties DEF Place
  <2>2. Carries(mbox, mbox') /\ Drops(list, list')
    BY <1>0, <1>a, <1>2, <2>1, RemoveDrops
  <2>3. Queued'
    BY <1>2, <2>2, QueuedKept DEF PlaceInv
  <2>4. OnePlace'
    BY <1>2 DEF PlaceInv, OnePlace, Sent
  <2> QED BY <1>2, <2>3, <2>4 DEF PlaceInv, IdleEmpty
<1>3. CASE mbox' = bx /\ UNCHANGED <<fsmVars, cmds>>
  <2>0. UNCHANGED <<state, cur, list, cmds>>
    BY <1>3 DEF fsmVars
  <2>1. Carries(mbox, mbox')
    <3>1. [m |-> "CANCEL", seq |-> ObssNumber] \in Messages /\ [m |-> "CANCEL", seq |-> ObssNumber].m # "REQ"
      BY DEF Messages, ObssNumber, Numbers, Wraps
    <3> QED BY <1>0, <1>3, <3>1, BoxCarries
  <2>2. Queued'
    BY <1>0, <2>0, <2>1, SameDrops, QueuedKept DEF PlaceInv
  <2>3. OnePlace' /\ IdleEmpty'
    BY <2>0 DEF PlaceInv, OnePlace, Sent, IdleEmpty
  <2> QED BY <2>2, <2>3 DEF PlaceInv
<1> QED BY <1>1, <1>2, <1>3 DEF MsgAbort

\* A message is handled, or one that is no request is put into the box.
LEMMA BoxPlace ==
  ASSUME Types, PlaceInv, UNCHANGED <<state, cur, list, cmds, chip, events, asked>>,
         Carries(mbox, mbox')
  PROVE  PlaceInv'
<1>1. Drops(list, list')
  BY SameDrops DEF Types, FsmType
<1>2. Queued'
  BY <1>1, QueuedKept DEF PlaceInv
<1>3. OnePlace' /\ IdleEmpty'
  BY DEF PlaceInv, OnePlace, Sent, IdleEmpty
<1> QED BY <1>2, <1>3 DEF PlaceInv

\* A scan is asked for: its id is the highest.
LEMMA AskPlace ==
  ASSUME Types, PlaceInv, NEW s \in Scans, s.id = asked + 1, asked' = asked + 1,
         mbox' = Append(mbox, Request(s)), UNCHANGED <<state, cur, list, cmds, chip, events>>
  PROVE  PlaceInv'
<1> DEFINE n == Len(mbox)
<1>0. mbox \in Seq(Messages) /\ asked \in Nat /\ cur.id \in Nat
  BY Ids DEF Types, BoxType
<1>1. /\ n \in Nat /\ Len(mbox') = n + 1 /\ mbox'[n + 1] = Request(s)
      /\ \A k \in 1..n : mbox'[k] = mbox[k]
  <2>1. Request(s) \in Messages
    BY DEF Request, Messages
  <2> QED BY <1>0, <2>1, LenProperties, AppendProperties
<1> HIDE DEF n
<1>2. \A j \in Requests' : \/ j = n + 1 /\ mbox'[j].scan = s
                           \/ j \in 1..n /\ j \in Requests /\ mbox'[j] = mbox[j]
  <2> SUFFICES ASSUME NEW j \in Requests', j # n + 1
               PROVE  j \in 1..n /\ j \in Requests /\ mbox'[j] = mbox[j]
    BY <1>1 DEF Request
  <2>1. j \in 1..n /\ mbox'[j].m = "REQ"
    BY <1>1 DEF Requests
  <2> QED BY <1>1, <2>1 DEF Requests, n
<1>3. /\ \A i \in 1..Len(list) : list[i].id \in Nat
      /\ \A j \in Requests : mbox[j].scan.id \in Nat
  BY Ids
<1>4. \A j \in Requests' : cur.id < mbox'[j].scan.id /\ mbox'[j].scan.id <= asked'
  <2> TAKE j \in Requests'
  <2>1. CASE j = n + 1 /\ mbox'[j].scan = s
    BY <1>0, <2>1 DEF PlaceInv, Queued
  <2>2. CASE j \in Requests /\ mbox'[j] = mbox[j]
    BY <1>0, <1>3, <2>2 DEF PlaceInv, Queued
  <2> QED BY <1>2, <2>1, <2>2
<1>5. \A j, k \in Requests' : j < k => mbox'[j].scan.id < mbox'[k].scan.id
  <2> SUFFICES ASSUME NEW j \in Requests', NEW k \in Requests', j < k
               PROVE  mbox'[j].scan.id < mbox'[k].scan.id
    OBVIOUS
  <2>0. k \in 1..n + 1
    BY <1>1 DEF Requests
  <2>1. j \in 1..n /\ j \in Requests /\ mbox'[j] = mbox[j]
    <3>1. j # n + 1
      BY <1>1, <2>0
    <3> QED BY <1>2, <3>1
  <2>2. CASE mbox'[k].scan = s
    BY <1>0, <1>3, <2>1, <2>2 DEF PlaceInv, Queued
  <2>3. CASE k \in Requests /\ mbox'[k] = mbox[k]
    BY <2>1, <2>3 DEF PlaceInv, Queued
  <2> QED BY <1>2, <2>2, <2>3
<1>6. \A i \in 1..Len(list'), j \in Requests' : list'[i].id < mbox'[j].scan.id
  <2> TAKE i \in 1..Len(list'), j \in Requests'
  <2>1. CASE mbox'[j].scan = s
    BY <1>0, <1>3, <2>1 DEF PlaceInv, Queued
  <2>2. CASE j \in Requests /\ mbox'[j] = mbox[j]
    BY <2>2 DEF PlaceInv, Queued
  <2> QED BY <1>2, <2>1, <2>2
<1>7. cur'.id <= asked' /\ \A i \in 1..Len(list') : cur'.id < list'[i].id /\ list'[i].id <= asked'
  BY <1>0, <1>3 DEF PlaceInv, Queued
<1>8. Queued'
  BY <1>4, <1>5, <1>6, <1>7 DEF Queued, PlaceInv
<1>9. OnePlace' /\ IdleEmpty'
  BY DEF PlaceInv, OnePlace, Sent, IdleEmpty
<1> QED BY <1>8, <1>9 DEF PlaceInv

\* A request starts a scan or joins the list.
LEMMA MsgStartPlace ==
  ASSUME Types, PlaceInv, MsgStart
  PROVE  PlaceInv'
<1> DEFINE s == Head(mbox).scan
<1>0. /\ mbox \in Seq(Messages) /\ mbox # <<>> /\ mbox' = Tail(mbox) /\ Head(mbox).m = "REQ"
      /\ cmds \in Seq(Commands) /\ list \in Seq(Scans) /\ Len(list) \in Nat
      /\ UNCHANGED <<chip, events, asked>>
  BY LenProperties DEF Types, FsmType, BoxType, ChipType, MsgStart, Recv, chipVars, askVars
<1>1. s \in Scans
  BY <1>0, HeadTailProperties DEF Messages
<1>2. /\ Len(mbox) \in Nat \ {0} /\ Len(mbox') = Len(mbox) - 1 /\ Head(mbox) = mbox[1]
      /\ \A k \in 1..Len(mbox') : mbox'[k] = mbox[k + 1]
  BY <1>0, HeadTailProperties, LenProperties
<1>3. 1 \in Requests /\ mbox[1].scan = s
  BY <1>0, <1>2 DEF Requests
<1>4. \A j \in Requests' : j + 1 \in Requests /\ mbox'[j] = mbox[j + 1] /\ j \in Int /\ 1 < j + 1
  BY <1>2 DEF Requests
<1>5. \A j \in Requests' : /\ s.id < mbox'[j].scan.id /\ cur.id < mbox'[j].scan.id
                           /\ mbox'[j].scan.id <= asked
                           /\ \A i \in 1..Len(list) : list[i].id < mbox'[j].scan.id
  BY <1>3, <1>4 DEF PlaceInv, Queued
<1>6. \A j, k \in Requests' : j < k => mbox'[j].scan.id < mbox'[k].scan.id
  <2> SUFFICES ASSUME NEW j \in Requests', NEW k \in Requests', j < k
               PROVE  mbox'[j].scan.id < mbox'[k].scan.id
    OBVIOUS
  <2>1. j + 1 \in Requests /\ k + 1 \in Requests /\ j + 1 < k + 1 /\ mbox'[j] = mbox[j + 1] /\ mbox'[k] = mbox[k + 1]
    BY <1>4
  <2> QED BY <2>1 DEF PlaceInv, Queued
<1>7. /\ cur.id < s.id /\ s.id <= asked /\ cur.id <= asked
      /\ \A i \in 1..Len(list) : list[i].id < s.id
  BY <1>3 DEF PlaceInv, Queued
<1> HIDE DEF s
<1>8. CASE /\ state = "IDLE" /\ state' = "SCANNING" /\ cur' = s
           /\ cmds' = Append(cmds, Command("REQ", s)) /\ UNCHANGED list
  <2>1. list = <<>> /\ list' = <<>> /\ Len(list) = 0
    BY <1>8 DEF PlaceInv, IdleEmpty
  <2>a. cur'.id <= asked' /\ Len(list') = 0
    BY <1>0, <1>7, <1>8, <2>1
  <2>b. \A j \in Requests' : cur'.id < mbox'[j].scan.id /\ mbox'[j].scan.id <= asked'
    BY <1>0, <1>5, <1>8
  <2>c. 1..Len(list') = {}
    BY <2>a
  <2>2. Queued'
    BY <1>6, <2>a, <2>b, <2>c DEF Queued
  <2>3. OnePlace'
    <3>1. \A k \in 1..Len(cmds) : cmds[k].c = "REQ" => k \in Sent /\ cmds[k] = cmds[k]
      BY DEF Sent
    <3>2. \A e \in 1..Len(events') : \E f \in 1..Len(events) : events'[e] = events[f]
      BY <1>0
    <3> QED BY <1>0, <1>1, <1>7, <1>8, <3>1, <3>2, StartPlace DEF PlaceInv
  <2> QED BY <1>8, <2>2, <2>3 DEF PlaceInv, IdleEmpty
<1>9. CASE state # "IDLE" /\ list' = Append(list, s) /\ UNCHANGED <<state, cur, cmds>>
  <2>1. /\ Len(list') = Len(list) + 1 /\ list'[Len(list) + 1] = s
        /\ \A k \in 1..Len(list) : list'[k] = list[k]
    BY <1>0, <1>1, <1>9, AppendProperties
  <2>2. \A i \in 1..Len(list') : i = Len(list) + 1 \/ (i \in 1..Len(list) /\ list'[i] = list[i])
    BY <1>0, <2>1
  <2>3. \A i \in 1..Len(list') : cur'.id < list'[i].id /\ list'[i].id <= asked'
    BY <1>0, <1>7, <1>9, <2>1, <2>2 DEF PlaceInv, Queued
  <2>4. \A i, k \in 1..Len(list') : i < k => list'[i].id < list'[k].id
    <3> SUFFICES ASSUME NEW i \in 1..Len(list'), NEW k \in 1..Len(list'), i < k
                 PROVE  list'[i].id < list'[k].id
      OBVIOUS
    <3>1. i \in 1..Len(list) /\ list'[i] = list[i]
      BY <1>0, <2>1, <2>2
    <3>2. CASE k = Len(list) + 1
      BY <1>7, <2>1, <3>1, <3>2
    <3>3. CASE k \in 1..Len(list) /\ list'[k] = list[k]
      BY <3>1, <3>3 DEF PlaceInv, Queued
    <3> QED BY <2>2, <3>2, <3>3
  <2>5. \A i \in 1..Len(list'), j \in Requests' : list'[i].id < mbox'[j].scan.id
    <3> TAKE i \in 1..Len(list'), j \in Requests'
    <3>1. CASE i = Len(list) + 1
      BY <1>5, <2>1, <3>1
    <3>2. CASE i \in 1..Len(list) /\ list'[i] = list[i]
      BY <1>5, <3>2
    <3> QED BY <2>2, <3>1, <3>2
  <2>6. \A j \in Requests' : cur'.id < mbox'[j].scan.id /\ mbox'[j].scan.id <= asked'
    BY <1>0, <1>5, <1>9
  <2>7. Queued'
    BY <1>0, <1>6, <1>7, <1>9, <2>3, <2>4, <2>5, <2>6 DEF Queued
  <2>8. OnePlace' /\ IdleEmpty'
    BY <1>0, <1>9 DEF PlaceInv, OnePlace, Sent, IdleEmpty
  <2> QED BY <2>7, <2>8 DEF PlaceInv
<1> QED BY <1>8, <1>9 DEF MsgStart, s

\* An end is read, and ends the scan under way or nothing.
LEMMA EventPlace ==
  ASSUME Types, PlaceInv, ScanDoneEvent
  PROVE  PlaceInv'
<1>0. /\ events \in Seq(Scans) /\ events # <<>> /\ events' = Tail(events) /\ UNCHANGED <<chip, asked>>
      /\ cmds \in Seq(Commands) /\ mbox \in Seq(Messages) /\ Len(cmds) \in Nat
  BY LenProperties DEF Types, BoxType, ChipType, ScanDoneEvent, askVars
<1>1. \A e \in 1..Len(events') : \E f \in 1..Len(events) : events'[e] = events[f]
  BY <1>0, TailDrops
<1>2. CASE state = "SCANNING" /\ mbox' = Append(mbox, Done(cur, "done")) /\ ToIdle(cmds)
  <2> DEFINE d == Done(cur, "done")
  <2>1. d \in Messages /\ d.m # "REQ"
    BY <1>2, DoneType DEF Types, FsmType, Done
  <2>2. mbox' = Append(mbox, d)
    BY <1>2
  <2> HIDE DEF d
  <2>3. Carries(mbox, mbox')
    BY <1>0, <2>1, <2>2, BoxCarries
  <2>4. \A k \in 1..Len(cmds) : cmds[k].c = "REQ" => k \in Sent /\ cmds[k] = cmds[k]
    BY DEF Sent
  <2> QED BY <1>0, <1>1, <1>2, <2>3, <2>4, ToIdlePlace
<1>3. CASE UNCHANGED <<fsmVars, mbox, cmds>>
  <2>1. UNCHANGED <<state, cur, list, cmds, mbox>>
    BY <1>3 DEF fsmVars
  <2>2. \A k \in Sent' : k \in Int /\ k + 0 \in Sent /\ cmds'[k] = cmds[k + 0]
    BY <1>0, <2>1 DEF Sent
  <2>3. OnePlace'
    BY <1>0, <1>1, <2>1, <2>2, SamePlace DEF PlaceInv
  <2>4. Queued' /\ IdleEmpty'
    BY <1>0, <2>1 DEF PlaceInv, Queued, Requests, IdleEmpty
  <2> QED BY <2>3, <2>4 DEF PlaceInv
<1> QED BY <1>2, <1>3 DEF ScanDoneEvent

\* The firmware takes a command, or ends a scan.
LEMMA ChipPlace ==
  ASSUME Types, PlaceInv, ChipCommand \/ ChipEnds
  PROVE  PlaceInv'
<1>0. UNCHANGED <<state, cur, list, mbox, asked>> /\ cmds \in Seq(Commands) /\ events \in Seq(Scans)
  BY DEF Types, ChipType, ChipCommand, ChipEnds, fsmVars, askVars
<1>1. Queued' /\ IdleEmpty'
  BY <1>0 DEF PlaceInv, Queued, Requests, IdleEmpty
<1>2. CASE ChipCommand
  <2>1. /\ cmds # <<>> /\ cmds' = Tail(cmds) /\ events' = events
        /\ chip' = IF Head(cmds).c = "REQ" THEN chip \cup {Head(cmds).scan}
                   ELSE {x \in chip : x.seq # Head(cmds).scan.seq}
    BY <1>2 DEF ChipCommand
  <2>2. /\ Len(cmds) \in Nat \ {0} /\ Len(cmds') = Len(cmds) - 1 /\ Head(cmds) = cmds[1]
        /\ \A k \in 1..Len(cmds') : cmds'[k] = cmds[k + 1]
    BY <1>0, <2>1, HeadTailProperties, LenProperties
  <2>3. \A k \in Sent' : k \in Int /\ k + 1 \in Sent /\ cmds'[k] = cmds[k + 1] /\ 1 < k + 1
    BY <2>2 DEF Sent
  <2>4. CASE Head(cmds).c # "REQ"
    <3>1. \A x \in chip' : x \in chip
      BY <2>1, <2>4
    <3>2. \A e \in 1..Len(events') : \E f \in 1..Len(events) : events'[e] = events[f]
      BY <2>1
    <3>3. OnePlace'
      BY <1>0, <2>3, <3>1, <3>2, SamePlace DEF PlaceInv
    <3> QED BY <1>1, <3>3 DEF PlaceInv
  <2>5. CASE Head(cmds).c = "REQ"
    <3>1. 1 \in Sent /\ chip' = chip \cup {cmds[1].scan}
      BY <2>1, <2>2, <2>5 DEF Sent
    <3>2. \A x \in chip' : x.id <= cur'.id
      BY <1>0, <3>1 DEF PlaceInv, OnePlace
    <3>3. \A x \in chip', k \in Sent' : x.id < cmds'[k].scan.id
      BY <2>3, <3>1 DEF PlaceInv, OnePlace
    <3>4. \A e \in 1..Len(events) : events[e].id < cmds[1].scan.id /\ events[e].id \in Nat
      BY <3>1, Ids DEF PlaceInv, OnePlace
    <3>5. \A x \in chip', e \in 1..Len(events') : events'[e] # x
      BY <2>1, <3>1, <3>4 DEF PlaceInv, OnePlace
    <3>6. \A e \in 1..Len(events'), k \in Sent' : events'[e].id < cmds'[k].scan.id
      BY <2>1, <2>3 DEF PlaceInv, OnePlace
    <3>7. \A j, k \in Sent' : j < k => cmds'[j].scan.id < cmds'[k].scan.id
      <4> SUFFICES ASSUME NEW j \in Sent', NEW k \in Sent', j < k
                   PROVE  cmds'[j].scan.id < cmds'[k].scan.id
        OBVIOUS
      <4>1. j + 1 \in Sent /\ k + 1 \in Sent /\ j + 1 < k + 1 /\ cmds'[j] = cmds[j + 1] /\ cmds'[k] = cmds[k + 1]
        BY <2>3
      <4> QED BY <4>1 DEF PlaceInv, OnePlace
    <3>8. /\ \A e \in 1..Len(events') : events'[e].id <= cur'.id
          /\ \A k \in Sent' : cmds'[k].scan.id <= cur'.id
      BY <1>0, <2>1, <2>3 DEF PlaceInv, OnePlace
    <3>9. OnePlace'
      BY <3>2, <3>3, <3>5, <3>6, <3>7, <3>8 DEF OnePlace
    <3> QED BY <1>1, <3>9 DEF PlaceInv
  <2> QED BY <2>4, <2>5
<1>3. CASE ChipEnds
  <2>1. PICK s \in chip : chip' = chip \ {s} /\ events' = Append(events, s)
    BY <1>3 DEF ChipEnds
  <2>2. s \in Scans /\ cmds' = cmds
    BY <1>3 DEF Types, ChipType, ChipEnds
  <2>3. /\ Len(events) \in Nat /\ Len(events') = Len(events) + 1 /\ events'[Len(events) + 1] = s
        /\ \A k \in 1..Len(events) : events'[k] = events[k]
    BY <1>0, <2>1, <2>2, LenProperties, AppendProperties
  <2>4. \A e \in 1..Len(events') : events'[e] = s \/ (e \in 1..Len(events) /\ events'[e] = events[e])
    BY <2>3
  <2>5. Sent' = Sent
    BY <2>2 DEF Sent
  <2>6. \A x \in chip', e \in 1..Len(events') : events'[e] # x
    BY <2>1, <2>4 DEF PlaceInv, OnePlace
  <2>7. \A e \in 1..Len(events') : events'[e].id <= cur'.id
    BY <1>0, <2>4 DEF PlaceInv, OnePlace
  <2>8. \A e \in 1..Len(events'), k \in Sent' : events'[e].id < cmds'[k].scan.id
    BY <2>2, <2>4, <2>5 DEF PlaceInv, OnePlace
  <2>9. OnePlace'
    BY <1>0, <2>1, <2>2, <2>5, <2>6, <2>7, <2>8 DEF PlaceInv, OnePlace
  <2> QED BY <1>1, <2>9 DEF PlaceInv
<1> QED BY <1>2, <1>3

\* The next number, which wraps.
LEMMA WrapType == \A k \in Numbers : (k + 1) % Wraps \in Numbers
<1>1. \A k \in Nat : k % 256 \in 0..255
  OBVIOUS
<1> QED BY <1>1 DEF Wraps, Numbers

\* Whatever step is taken, a scan stays in one place.
LEMMA PlaceStep ==
  ASSUME Types, PlaceInv, [Next]_vars
  PROVE  PlaceInv'
<1>0. mbox \in Seq(Messages) /\ list \in Seq(Scans) /\ num \in [{"AIS", "P2P"} -> Numbers]
  BY DEF Types, FsmType, BoxType, AskType
<1>a. [m |-> "CANCEL", seq |-> ObssNumber] \in Messages /\ [m |-> "CANCEL", seq |-> ObssNumber].m # "REQ"
  BY DEF Messages, ObssNumber, Numbers, Wraps
<1>1. CASE UNCHANGED vars
  <2>1. UNCHANGED <<state, cur, list, cmds, chip, events, asked, mbox>>
    BY <1>1 DEF vars, fsmVars, chipVars, askVars
  <2>2. Carries(mbox, mbox')
    BY <1>0, <1>a, <2>1, BoxCarries
  <2> QED BY <2>1, <2>2, BoxPlace
<1>2. ASSUME NEW r \in {"AIS", "P2P"}, AskScan(r)  PROVE PlaceInv'
  <2> DEFINE s == NewScan(r, num'[r])
  <2>1. num'[r] \in Numbers
    BY <1>0, <1>2, WrapType DEF AskScan, NextNumber
  <2>2. s \in Scans
    BY <1>2, <2>1, NewScanType DEF AskScan, Requesters
  <2>3. s.id = asked + 1
    BY DEF NewScan
  <2>4. /\ asked' = asked + 1 /\ mbox' = Append(mbox, Request(s))
        /\ UNCHANGED <<state, cur, list, cmds, chip, events>>
    BY <1>2 DEF AskScan, MayAsk, fsmVars, chipVars
  <2> HIDE DEF s
  <2> QED BY <2>2, <2>3, <2>4, AskPlace
<1>3. CASE ObssTimeout
  <2> DEFINE s == NewScan("OBSS", ObssNumber)
  <2>1. ObssNumber \in Numbers
    BY DEF ObssNumber, Numbers, Wraps
  <2>2. s \in Scans
    BY <1>3, <2>1, NewScanType DEF ObssTimeout, Requesters
  <2>3. s.id = asked + 1
    BY DEF NewScan
  <2>4. /\ asked' = asked + 1 /\ mbox' = Append(mbox, Request(s))
        /\ UNCHANGED <<state, cur, list, cmds, chip, events>>
    BY <1>3 DEF ObssTimeout, MayAsk, fsmVars, chipVars
  <2> HIDE DEF s
  <2> QED BY <2>2, <2>3, <2>4, AskPlace
<1>4. CASE AisCancels
  BY <1>4, MsgAbortPlace DEF AisCancels, chipVars
<1>5. CASE AisTimesOut
  BY <1>5, MsgAbortPlace DEF AisTimesOut, chipVars
<1>6. CASE P2pAbort
  BY <1>6, MsgAbortPlace DEF P2pAbort, Recv, chipVars, askVars
<1>7. CASE P2pCancels
  <2> DEFINE d == [m |-> "CANCEL", seq |-> num["P2P"]]
  <2>1. d \in Messages /\ d.m # "REQ"
    BY <1>0 DEF Messages
  <2>2. (mbox' = mbox \/ mbox' = Append(mbox, d)) /\ UNCHANGED <<state, cur, list, cmds, chip, events, asked>>
    BY <1>7 DEF P2pCancels, fsmVars, chipVars
  <2> HIDE DEF d
  <2>3. Carries(mbox, mbox')
    BY <1>0, <2>1, <2>2, BoxCarries
  <2> QED BY <2>2, <2>3, BoxPlace
<1>8. CASE ScanDone
  <2>1. UNCHANGED <<state, cur, list, cmds, chip, events, asked>> /\ mbox # <<>> /\ mbox' = Tail(mbox)
    BY <1>8 DEF ScanDone, Recv, fsmVars, chipVars
  <2>2. Carries(mbox, mbox')
    BY <1>0, <1>a, <2>1, BoxCarries
  <2> QED BY <2>1, <2>2, BoxPlace
<1> QED BY <1>1, <1>2, <1>3, <1>4, <1>5, <1>6, <1>7, <1>8, MsgStartPlace, EventPlace, ChipPlace
        DEF Next, Handle

\* And it is when nothing has been asked for.
LEMMA PlaceInit ==
  ASSUME Init
  PROVE  PlaceInv
<1>1. /\ state = "IDLE" /\ cur = NoScan /\ list = <<>> /\ mbox = <<>> /\ cmds = <<>>
      /\ chip = {} /\ events = <<>> /\ asked = 0
  BY DEF Init
<1>2. Len(list) = 0 /\ Requests = {} /\ Len(events) = 0 /\ Sent = {} /\ cur.id = 0
  BY <1>1 DEF Requests, Sent, NoScan
<1> QED BY <1>1, <1>2 DEF PlaceInv, Queued, OnePlace, IdleEmpty

-----------------------------------------------------------------------------
(* The order of the commands.  What is said of the scans is not said of     *)
(* those of g: the scans that the end of another was taken for.             *)

CancelledBy(sent, s, i, j) == \E k \in i..j : sent[k] = Command("CANCEL", s)
InOrder(sent, g) ==
  /\ \A s \in chip \ g, i \in 1..Len(sent) :
       sent[i].c = "REQ" => CancelledBy(sent, s, 1, i)
  /\ \A i, k \in 1..Len(sent) :
       i < k /\ sent[i].c = "REQ" /\ sent[k].c = "REQ"
         => sent[i].scan \in g \/ CancelledBy(sent, sent[i].scan, i, k)
AllCancelled(sent, g) ==
  /\ \A s \in chip \ g : CancelledBy(sent, s, 1, Len(sent))
  /\ \A i \in 1..Len(sent) :
       sent[i].c = "REQ" => sent[i].scan \in g \/ CancelledBy(sent, sent[i].scan, i, Len(sent))
RestCancelled ==
  /\ \A s \in chip \ mistaken :
       (state = "SCANNING" /\ s = cur) \/ CancelledBy(cmds, s, 1, Len(cmds))
  /\ \A i \in 1..Len(cmds) :
       cmds[i].c = "REQ" =>
         \/ state = "SCANNING" /\ cmds[i].scan = cur
         \/ cmds[i].scan \in mistaken
         \/ CancelledBy(cmds, cmds[i].scan, i, Len(cmds))
Order == InOrder(cmds, mistaken) /\ RestCancelled /\ \A s, t \in chip \ mistaken : s = t

OneInv == PlaceInv /\ Order

\* A new request behind commands that cancel all there was is in order.
LEMMA AppendOrder ==
  ASSUME NEW sent \in Seq(Commands), NEW s \in Scans,
         InOrder(sent, mistaken'), AllCancelled(sent, mistaken'),
         state' = "SCANNING", cur' = s, cmds' = Append(sent, Command("REQ", s)), chip' = chip
  PROVE  InOrder(cmds, mistaken)' /\ RestCancelled'
<1> DEFINE n == Len(sent)
           g == mistaken'
<1>1. /\ n \in Nat /\ Len(cmds') = n + 1 /\ cmds'[n + 1] = Command("REQ", s)
      /\ \A k \in 1..n : cmds'[k] = sent[k]
  BY LenProperties, AppendProperties
<1>2. \A x, i, j : i \in 1..n + 1 /\ j \in 1..n /\ CancelledBy(sent, x, i, j) => CancelledBy(cmds', x, i, j)
  BY <1>1 DEF CancelledBy
<1>3. \A x, i : i \in 1..n + 1 /\ CancelledBy(sent, x, i, n) => CancelledBy(cmds', x, i, n + 1)
  BY <1>1 DEF CancelledBy
<1>4. \A x \in chip \ g : CancelledBy(cmds', x, 1, n + 1)
  BY <1>1, <1>3 DEF AllCancelled
<1>5. \A i \in 1..n : sent[i].c = "REQ" => sent[i].scan \in g \/ CancelledBy(cmds', sent[i].scan, i, n + 1)
  BY <1>1, <1>3 DEF AllCancelled
<1>6. ASSUME NEW x \in chip \ g, NEW i \in 1..n + 1, cmds'[i].c = "REQ"
      PROVE  CancelledBy(cmds', x, 1, i)
  <2>1. CASE i = n + 1
    BY <1>4, <2>1
  <2>2. CASE i \in 1..n
    BY <1>1, <1>2, <1>6, <2>2 DEF InOrder
  <2> QED BY <1>1, <2>1, <2>2
<1>7. ASSUME NEW i \in 1..n + 1, NEW k \in 1..n + 1, i < k, cmds'[i].c = "REQ", cmds'[k].c = "REQ"
      PROVE  cmds'[i].scan \in g \/ CancelledBy(cmds', cmds'[i].scan, i, k)
  <2>1. i \in 1..n /\ cmds'[i] = sent[i]
    BY <1>1, <1>7
  <2>2. CASE k = n + 1
    BY <1>5, <1>7, <2>1, <2>2
  <2>3. CASE k \in 1..n
    BY <1>1, <1>2, <1>7, <2>1, <2>3 DEF InOrder
  <2> QED BY <1>1, <2>2, <2>3
<1>8. InOrder(cmds, mistaken)'
  BY <1>1, <1>6, <1>7 DEF InOrder
<1>9. ASSUME NEW i \in 1..n + 1, cmds'[i].c = "REQ"
      PROVE  cmds'[i].scan = s \/ cmds'[i].scan \in g \/ CancelledBy(cmds', cmds'[i].scan, i, n + 1)
  BY <1>1, <1>5, <1>9 DEF Command
<1>10. RestCancelled'
  BY <1>1, <1>4, <1>9 DEF RestCancelled
<1> QED BY <1>8, <1>10

\* Going on behind such commands keeps the order.
LEMMA ToIdleOrder ==
  ASSUME FsmType, NEW sent \in Seq(Commands), mistaken \subseteq mistaken',
         InOrder(sent, mistaken'), AllCancelled(sent, mistaken'),
         ToIdle(sent), chip' = chip, Order
  PROVE  Order'
<1>0. \A s, t \in chip' \ mistaken' : s = t
  BY DEF Order
<1>1. CASE list = <<>>
  <2>1. cmds' = sent
    BY <1>1 DEF ToIdle
  <2>2. InOrder(cmds, mistaken)'
    BY <2>1 DEF InOrder, CancelledBy
  <2>3. RestCancelled'
    BY <2>1 DEF RestCancelled, AllCancelled, CancelledBy
  <2> QED BY <1>0, <2>2, <2>3 DEF Order
<1>2. CASE list # <<>>
  <2>1. Head(list) \in Scans
    BY <1>2, HeadTailProperties DEF FsmType
  <2>2. state' = "SCANNING" /\ cur' = Head(list) /\ cmds' = Append(sent, Command("REQ", Head(list)))
    BY <1>2 DEF ToIdle
  <2> QED BY <1>0, <2>1, <2>2, AppendOrder DEF Order
<1> QED BY <1>1, <1>2

\* After the command to cancel the scan under way all is cancelled.
LEMMA CancelOrder ==
  ASSUME Types, Order, state = "SCANNING"
  PROVE  /\ CancelCommand \in Seq(Commands)
         /\ InOrder(CancelCommand, mistaken) /\ AllCancelled(CancelCommand, mistaken)
<1> DEFINE sent == CancelCommand
           n == Len(cmds)
<1>0. cmds \in Seq(Commands) /\ cur \in Scans
  BY DEF Types, FsmType, ChipType
<1>1. Command("CANCEL", cur) \in Commands
  BY <1>0 DEF Command, Commands
<1>2. /\ n \in Nat /\ Len(sent) = n + 1 /\ sent[n + 1] = Command("CANCEL", cur)
      /\ (\A k \in 1..n : sent[k] = cmds[k]) /\ sent \in Seq(Commands)
  BY <1>0, <1>1, LenProperties, AppendProperties DEF CancelCommand
<1>3. \A x, i, j : i \in 1..n /\ j \in 1..n /\ CancelledBy(cmds, x, i, j)
                   => CancelledBy(sent, x, i, j) /\ CancelledBy(sent, x, i, n + 1)
  BY <1>2 DEF CancelledBy
<1>4. \A i \in 1..n + 1 : CancelledBy(sent, cur, i, n + 1)
  BY <1>2 DEF CancelledBy
<1>5. \A i \in 1..n + 1 : sent[i].c = "REQ" => i \in 1..n /\ cmds[i].c = "REQ" /\ sent[i] = cmds[i]
  BY <1>2 DEF Command
<1> HIDE DEF sent
<1>6. InOrder(sent, mistaken)
  <2>1. ASSUME NEW s \in chip \ mistaken, NEW i \in 1..n + 1, sent[i].c = "REQ"
        PROVE  CancelledBy(sent, s, 1, i)
    BY <1>2, <1>3, <1>5, <2>1 DEF Order, InOrder
  <2>2. ASSUME NEW i \in 1..n + 1, NEW k \in 1..n + 1, i < k, sent[i].c = "REQ", sent[k].c = "REQ"
        PROVE  sent[i].scan \in mistaken \/ CancelledBy(sent, sent[i].scan, i, k)
    BY <1>2, <1>3, <1>5, <2>2 DEF Order, InOrder
  <2> QED BY <1>2, <2>1, <2>2 DEF InOrder
<1>7. AllCancelled(sent, mistaken)
  <2>1. ASSUME NEW s \in chip \ mistaken  PROVE CancelledBy(sent, s, 1, n + 1)
    <3>1. CASE s = cur
      BY <1>2, <1>4, <3>1
    <3>2. CASE CancelledBy(cmds, s, 1, n)
      <4>1. n \in 1..n
        BY <1>2, <3>2 DEF CancelledBy
      <4> QED BY <1>2, <1>3, <3>2, <4>1
    <3> QED BY <3>1, <3>2 DEF Order, RestCancelled
  <2>2. ASSUME NEW i \in 1..n + 1, sent[i].c = "REQ"
        PROVE  sent[i].scan \in mistaken \/ CancelledBy(sent, sent[i].scan, i, n + 1)
    <3>1. i \in 1..n /\ n \in 1..n /\ cmds[i].c = "REQ" /\ sent[i] = cmds[i]
      BY <1>2, <1>5, <2>2
    <3>2. \/ cmds[i].scan = cur \/ cmds[i].scan \in mistaken
          \/ CancelledBy(cmds, cmds[i].scan, i, n)
      BY <3>1 DEF Order, RestCancelled
    <3> QED BY <1>3, <1>4, <3>1, <3>2
  <2> QED BY <1>2, <2>1, <2>2 DEF AllCancelled
<1> QED BY <1>2, <1>6, <1>7 DEF sent

\* With no scan under way, or with its end read, all is cancelled that is
\* there; so it is if its end was not its own.
LEMMA GoneOrder ==
  ASSUME Order, mistaken \subseteq mistaken',
         state = "SCANNING" => \/ cur \in mistaken'
                               \/ cur \notin chip /\ \A k \in Sent : cmds[k].scan # cur
  PROVE  InOrder(cmds, mistaken') /\ AllCancelled(cmds, mistaken')
<1>1. InOrder(cmds, mistaken')
  BY DEF Order, InOrder
<1>2. \A s \in chip \ mistaken' : CancelledBy(cmds, s, 1, Len(cmds))
  BY DEF Order, RestCancelled
<1>3. ASSUME NEW i \in 1..Len(cmds), cmds[i].c = "REQ"
      PROVE  cmds[i].scan \in mistaken' \/ CancelledBy(cmds, cmds[i].scan, i, Len(cmds))
  <2>1. i \in Sent
    BY <1>3 DEF Sent
  <2> QED BY <1>3, <2>1 DEF Order, RestCancelled
<1> QED BY <1>1, <1>2, <1>3 DEF AllCancelled

\* The firmware takes its commands in this order: it is asked for a scan
\* only when it has no other but mistaken ones.
LEMMA ChipCommandOrder ==
  ASSUME Types, Order, ChipCommand
  PROVE  Order'
<1> DEFINE n == Len(cmds)
<1>1. /\ cmds \in Seq(Commands) /\ cmds # <<>> /\ cmds' = Tail(cmds) /\ UNCHANGED <<state, cur, mistaken>>
      /\ chip' = IF Head(cmds).c = "REQ" THEN chip \cup {Head(cmds).scan}
                 ELSE {s \in chip : s.seq # Head(cmds).scan.seq}
  BY DEF Types, ChipType, ChipCommand, fsmVars
<1>2. /\ n \in Nat \ {0} /\ Len(cmds') = n - 1 /\ Head(cmds) = cmds[1]
      /\ (\A k \in 1..n - 1 : cmds'[k] = cmds[k + 1]) /\ cmds[1] \in Commands
  BY <1>1, HeadTailProperties, LenProperties
<1>3. ASSUME NEW x, NEW i \in 2..n, NEW j \in 1..n, CancelledBy(cmds, x, i, j)
      PROVE  CancelledBy(cmds', x, i - 1, j - 1)
  <2> PICK k \in i..j : cmds[k] = Command("CANCEL", x)
    BY <1>3 DEF CancelledBy
  <2>1. k - 1 \in i - 1..j - 1 /\ cmds'[k - 1] = Command("CANCEL", x)
    BY <1>2, <1>3
  <2> QED BY <2>1 DEF CancelledBy
<1>8. ASSUME NEW x, NEW j \in 1..n, CancelledBy(cmds, x, 1, j), cmds[1] # Command("CANCEL", x)
      PROVE  CancelledBy(cmds', x, 1, j - 1)
  <2> PICK k \in 1..j : cmds[k] = Command("CANCEL", x)
    BY <1>8 DEF CancelledBy
  <2>1. k # 1
    BY <1>8
  <2>2. k - 1 \in 1..j - 1 /\ cmds'[k - 1] = Command("CANCEL", x)
    BY <1>2, <1>8, <2>1
  <2> QED BY <2>2 DEF CancelledBy
<1>4. ASSUME NEW i \in 1..n - 1, NEW k \in 1..n - 1, i < k, cmds'[i].c = "REQ", cmds'[k].c = "REQ"
      PROVE  cmds'[i].scan \in mistaken \/ CancelledBy(cmds', cmds'[i].scan, i, k)
  <2>1. i + 1 \in 1..n /\ k + 1 \in 1..n /\ cmds'[i] = cmds[i + 1] /\ cmds'[k] = cmds[k + 1]
    BY <1>2
  <2>2. cmds[i + 1].scan \in mistaken \/ CancelledBy(cmds, cmds[i + 1].scan, i + 1, k + 1)
    BY <1>4, <2>1 DEF Order, InOrder
  <2>3. CASE CancelledBy(cmds, cmds[i + 1].scan, i + 1, k + 1)
    <3>1. CancelledBy(cmds', cmds[i + 1].scan, (i + 1) - 1, (k + 1) - 1)
      BY <1>2, <1>3, <2>1, <2>3
    <3> QED BY <2>1, <3>1
  <2> QED BY <2>1, <2>2, <2>3
<1>5. ASSUME NEW i \in 1..n - 1, cmds'[i].c = "REQ"
      PROVE  \/ state = "SCANNING" /\ cmds'[i].scan = cur
             \/ cmds'[i].scan \in mistaken
             \/ CancelledBy(cmds', cmds'[i].scan, i, n - 1)
  <2>1. i + 1 \in 1..n /\ cmds'[i] = cmds[i + 1]
    BY <1>2
  <2>2. CASE CancelledBy(cmds, cmds[i + 1].scan, i + 1, n)
    <3>1. CancelledBy(cmds', cmds[i + 1].scan, (i + 1) - 1, n - 1)
      BY <1>2, <1>3, <2>1, <2>2
    <3> QED BY <2>1, <3>1
  <2> QED BY <1>5, <2>1, <2>2 DEF Order, RestCancelled
<1>6. CASE cmds[1].c = "REQ"
  <2> DEFINE s == cmds[1].scan
  <2>0. \A x : cmds[1] # Command("CANCEL", x)
    BY <1>6 DEF Command
  <2>1. chip \subseteq mistaken
    <3> SUFFICES ASSUME NEW x \in chip \ mistaken  PROVE FALSE
      OBVIOUS
    <3>1. CancelledBy(cmds, x, 1, 1)
      BY <1>2, <1>6 DEF Order, InOrder
    <3> QED BY <2>0, <3>1 DEF CancelledBy
  <2>2. chip' = chip \cup {s} /\ \A x \in chip' \ mistaken' : x = s /\ s \notin mistaken
    BY <1>1, <1>2, <1>6, <2>1
  <2>3. ASSUME NEW i \in 1..n - 1, cmds'[i].c = "REQ", s \notin mistaken  PROVE CancelledBy(cmds', s, 1, i)
    <3>1. i + 1 \in 1..n /\ cmds'[i] = cmds[i + 1] /\ 1 < i + 1
      BY <1>2
    <3>2. CancelledBy(cmds, s, 1, i + 1)
      BY <1>2, <1>6, <2>3, <3>1 DEF Order, InOrder
    <3>3. CancelledBy(cmds', s, 1, (i + 1) - 1)
      BY <1>2, <1>8, <2>0, <3>1, <3>2
    <3> QED BY <3>3
  <2>4. s \in mistaken \/ (state = "SCANNING" /\ s = cur) \/ CancelledBy(cmds', s, 1, n - 1)
    <3>1. CASE CancelledBy(cmds, s, 1, n)
      <4>1. CancelledBy(cmds', s, 1, n - 1)
        BY <1>2, <1>8, <2>0, <3>1
      <4> QED BY <4>1
    <3> QED BY <1>2, <1>6, <3>1 DEF Order, RestCancelled
  <2>5. InOrder(cmds, mistaken)'
    BY <1>1, <1>2, <1>4, <2>2, <2>3 DEF InOrder
  <2>6. RestCancelled'
    BY <1>1, <1>2, <1>5, <2>2, <2>4 DEF RestCancelled
  <2> QED BY <2>2, <2>5, <2>6 DEF Order
<1>7. CASE cmds[1].c = "CANCEL"
  <2> DEFINE s == cmds[1].scan
  <2>0. \A x : x # s => cmds[1] # Command("CANCEL", x)
    BY DEF Command
  <2>1. \A x \in chip' : x \in chip /\ x # s
    BY <1>1, <1>2, <1>7
  <2>2. ASSUME NEW x \in chip' \ mistaken, NEW i \in 1..n - 1, cmds'[i].c = "REQ"
        PROVE  CancelledBy(cmds', x, 1, i)
    <3>1. i + 1 \in 1..n /\ cmds'[i] = cmds[i + 1] /\ x \in chip \ mistaken /\ x # s
      BY <1>2, <2>1
    <3>2. CancelledBy(cmds, x, 1, i + 1)
      BY <2>2, <3>1 DEF Order, InOrder
    <3>3. CancelledBy(cmds', x, 1, (i + 1) - 1)
      BY <1>2, <1>8, <2>0, <3>1, <3>2
    <3> QED BY <3>3
  <2>3. ASSUME NEW x \in chip' \ mistaken
        PROVE  (state = "SCANNING" /\ x = cur) \/ CancelledBy(cmds', x, 1, n - 1)
    <3>1. x \in chip \ mistaken /\ x # s
      BY <2>1
    <3>2. CASE CancelledBy(cmds, x, 1, n)
      <4>1. CancelledBy(cmds', x, 1, n - 1)
        BY <1>2, <1>8, <2>0, <3>1, <3>2
      <4> QED BY <4>1
    <3> QED BY <3>1, <3>2 DEF Order, RestCancelled
  <2>4. InOrder(cmds, mistaken)'
    BY <1>1, <1>2, <1>4, <2>2 DEF InOrder
  <2>5. RestCancelled'
    BY <1>1, <1>2, <1>5, <2>3 DEF RestCancelled
  <2> QED BY <1>1, <2>1, <2>4, <2>5 DEF Order
<1> QED BY <1>2, <1>6, <1>7 DEF Commands

\* A scan that ends leaves the others in order.
LEMMA ChipEndsOrder ==
  ASSUME Order, ChipEnds
  PROVE  Order'
<1>1. (\A s \in chip' : s \in chip) /\ UNCHANGED <<state, cur, cmds, mistaken>>
  BY DEF ChipEnds, fsmVars
<1>2. InOrder(cmds, mistaken)'
  BY <1>1 DEF Order, InOrder, CancelledBy
<1>3. RestCancelled'
  BY <1>1 DEF Order, RestCancelled, CancelledBy
<1> QED BY <1>1, <1>2, <1>3 DEF Order

\* A scan in IDLE is the first, and goes to the firmware alone.
LEMMA StartOrder ==
  ASSUME Types, Order, state = "IDLE", NEW s \in Scans, state' = "SCANNING", cur' = s,
         cmds' = Append(cmds, Command("REQ", s)), UNCHANGED <<chip, mistaken>>
  PROVE  Order'
<1>1. cmds \in Seq(Commands) /\ mistaken \subseteq mistaken'
  BY DEF Types, ChipType
<1>2. InOrder(cmds, mistaken') /\ AllCancelled(cmds, mistaken')
  BY <1>1, GoneOrder
<1>3. InOrder(cmds, mistaken)' /\ RestCancelled'
  BY <1>1, <1>2, AppendOrder
<1>4. \A x, y \in chip' \ mistaken' : x = y
  BY DEF Order
<1> QED BY <1>3, <1>4 DEF Order

\* The end that is read is that of the scan under way, which is then nowhere
\* else, or is mistaken for it.
LEMMA EventOrder ==
  ASSUME Types, OneInv, ScanDoneEvent
  PROVE  Order'
<1>0. /\ events \in Seq(Scans) /\ events # <<>> /\ chip' = chip /\ cmds \in Seq(Commands)
      /\ mistaken \subseteq mistaken'
  BY DEF Types, ChipType, ScanDoneEvent
<1>1. Head(events) = events[1] /\ 1 \in 1..Len(events)
  BY <1>0, TailDrops
<1>2. CASE state = "SCANNING" /\ Head(events).seq = cur.seq
  <2>1. ToIdle(cmds) /\ mistaken' = IF Head(events) = cur THEN mistaken ELSE mistaken \cup {cur}
    BY <1>2 DEF ScanDoneEvent
  <2>2. CASE Head(events) = cur
    <3>1. cur \notin chip
      BY <1>1, <2>2 DEF OneInv, PlaceInv, OnePlace
    <3>2. \A k \in Sent : events[1].id < cmds[k].scan.id
      BY <1>1 DEF OneInv, PlaceInv, OnePlace
    <3>3. cur.id \in Nat
      BY Ids
    <3>4. \A k \in Sent : cmds[k].scan # cur
      BY <1>1, <2>2, <3>2, <3>3
    <3>5. InOrder(cmds, mistaken') /\ AllCancelled(cmds, mistaken')
      BY <1>0, <3>1, <3>4, GoneOrder DEF OneInv
    <3> QED BY <1>0, <2>1, <3>5, ToIdleOrder DEF OneInv, Types
  <2>3. CASE Head(events) # cur
    <3>1. cur \in mistaken'
      BY <2>1, <2>3
    <3>2. InOrder(cmds, mistaken') /\ AllCancelled(cmds, mistaken')
      BY <1>0, <3>1, GoneOrder DEF OneInv
    <3> QED BY <1>0, <2>1, <3>2, ToIdleOrder DEF OneInv, Types
  <2> QED BY <2>2, <2>3
<1>3. CASE ~(state = "SCANNING" /\ Head(events).seq = cur.seq)
  <2>1. UNCHANGED <<state, cur, cmds, chip, mistaken>>
    BY <1>3 DEF ScanDoneEvent, fsmVars
  <2> QED BY <2>1 DEF OneInv, Order, InOrder, RestCancelled, CancelledBy
<1> QED BY <1>2, <1>3

\* Cancelling a scan.
LEMMA MsgAbortOrder ==
  ASSUME Types, OneInv, NEW seq, NEW net, NEW bx, MsgAbort(seq, net, bx),
         UNCHANGED <<chip, mistaken>>
  PROVE  Order'
<1>1. CASE state = "SCANNING" /\ ToIdle(CancelCommand)
  <2>1. /\ CancelCommand \in Seq(Commands)
        /\ InOrder(CancelCommand, mistaken) /\ AllCancelled(CancelCommand, mistaken)
    BY <1>1, CancelOrder DEF OneInv
  <2> DEFINE sent == CancelCommand
  <2> HIDE DEF sent
  <2>2. sent \in Seq(Commands) /\ InOrder(sent, mistaken') /\ AllCancelled(sent, mistaken') /\ ToIdle(sent)
    BY <1>1, <2>1 DEF sent
  <2> QED BY <2>2, ToIdleOrder DEF OneInv, Types
<1>2. CASE UNCHANGED <<state, cur, cmds>>
  BY <1>2 DEF OneInv, Order, InOrder, RestCancelled, CancelledBy
<1> QED BY <1>1, <1>2 DEF MsgAbort, fsmVars

\* Every step keeps the order.
LEMMA OneStep ==
  ASSUME Types, OneInv, [Next]_vars
  PROVE  OneInv'
<1>0. PlaceInv'
  BY PlaceStep DEF OneInv
<1>1. CASE UNCHANGED <<state, cur, cmds, chip, mistaken>>
  <2>1. Order'
    BY <1>1 DEF OneInv, Order, InOrder, RestCancelled, CancelledBy
  <2> QED BY <1>0, <2>1 DEF OneInv
<1>2. CASE MsgStart
  <2> DEFINE s == Head(mbox).scan
  <2>1. s \in Scans /\ UNCHANGED <<chip, mistaken>>
    <3>1. mbox \in Seq(Messages) /\ mbox # <<>> /\ Head(mbox).m = "REQ" /\ UNCHANGED <<chip, mistaken>>
      BY <1>2 DEF Types, BoxType, MsgStart, Recv, chipVars
    <3> QED BY <3>1, HeadTailProperties DEF Messages
  <2>2. \/ state = "IDLE" /\ state' = "SCANNING" /\ cur' = s /\ cmds' = Append(cmds, Command("REQ", s))
        \/ UNCHANGED <<state, cur, cmds>>
    BY <1>2 DEF MsgStart
  <2> HIDE DEF s
  <2>3. Order'
    BY <1>1, <2>1, <2>2, StartOrder DEF OneInv
  <2> QED BY <1>0, <2>3 DEF OneInv
<1>3. CASE AisCancels
  <2>1. Order'
    BY <1>3, MsgAbortOrder DEF AisCancels, chipVars
  <2> QED BY <1>0, <2>1 DEF OneInv
<1>4. CASE AisTimesOut
  <2>1. Order'
    BY <1>4, MsgAbortOrder DEF AisTimesOut, chipVars
  <2> QED BY <1>0, <2>1 DEF OneInv
<1>5. CASE P2pAbort
  <2>1. Order'
    BY <1>5, MsgAbortOrder DEF P2pAbort, chipVars
  <2> QED BY <1>0, <2>1 DEF OneInv
<1>6. CASE ScanDoneEvent \/ ChipCommand \/ ChipEnds
  <2>1. Order'
    BY <1>6, EventOrder, ChipCommandOrder, ChipEndsOrder DEF OneInv
  <2> QED BY <1>0, <2>1 DEF OneInv
<1>7. CASE P2pCancels \/ ObssTimeout \/ ScanDone \/ UNCHANGED vars
           \/ \E r \in {"AIS", "P2P"} : AskScan(r)
  <2>1. UNCHANGED <<state, cur, cmds, chip, mistaken>>
    BY <1>7 DEF P2pCancels, ObssTimeout, ScanDone, AskScan, vars, fsmVars, chipVars
  <2> QED BY <1>1, <2>1
<1> QED BY <1>2, <1>3, <1>4, <1>5, <1>6, <1>7 DEF Next, Handle

LEMMA OneInit ==
  ASSUME Init
  PROVE  OneInv
<1>1. cmds = <<>> /\ chip = {}
  BY DEF Init
<1>2. Len(cmds) = 0
  BY <1>1
<1> QED BY <1>1, <1>2, PlaceInit DEF OneInv, Order, InOrder, RestCancelled

LEMMA OneEnough ==
  ASSUME Types, OneInv
  PROVE  OneScanAtChip
<1>1. Cardinality(chip \ mistaken) <= 1
  <2>1. CASE chip \ mistaken = {}
    BY <2>1, FS_EmptySet
  <2>2. CASE chip \ mistaken # {}
    <3>1. PICK s : s \in chip \ mistaken
      BY <2>2
    <3>2. chip \ mistaken = {s}
      BY <3>1 DEF OneInv, Order
    <3>3. Cardinality(chip \ mistaken) = 1
      <4>1. Cardinality({s}) = 1
        BY FS_Singleton
      <4> QED BY <3>2, <4>1
    <3> QED BY <3>3
  <2> QED BY <2>1, <2>2
<1>2. DOMAIN cmds = 1..Len(cmds)
  BY LenProperties DEF Types, ChipType
<1>3. ASSUME NEW s \in chip \ mistaken, NEW i \in DOMAIN cmds, cmds[i].c = "REQ"
      PROVE  \E j \in 1..i : cmds[j] = Command("CANCEL", s)
  BY <1>2, <1>3 DEF OneInv, Order, InOrder, CancelledBy
<1> QED BY <1>1, <1>3 DEF OneScanAtChip

\* Where each scan is and in which order the commands are, always.
LEMMA OneAlways == Spec => []OneInv
<1>1. Init => OneInv
  BY OneInit
<1>2. Inv /\ OneInv /\ [Next]_vars => OneInv'
  BY OneStep DEF Inv
<1> QED BY <1>1, <1>2, Invariance, PTL DEF Spec

\* The firmware is given one scan at a time (OneScanAtChip), whatever the
\* numbers of the scans, how often they wrap and how many there are: a second
\* is there only when scnEventScanDone() took the end of another scan for
\* that of the first.
THEOREM OneAtATime == Spec => []OneScanAtChip
<1>1. Inv /\ OneInv => OneScanAtChip
  BY OneEnough DEF Inv
<1> QED BY <1>1, Invariance, OneAlways, PTL
-----------------------------------------------------------------------------
(* The scan FSM is the service of ScanService.  First, induction up to a    *)
(* number, as a fact about sets.                                           *)

\* A set of numbers that is not empty has a least one.
LEMMA LeastOf ==
  ASSUME NEW S, S \subseteq Nat, S # {}
  PROVE  \E m \in S : \A n \in S : m =< n
<1> DEFINE R == OpToRel(<, Nat)
<1>1. IsWellFoundedOn(R, Nat)
  BY NatLessThanWellFounded
<1>2. \A u, v \in Nat : u < v => <<u, v>> \in R
  BY DEF OpToRel
<1> HIDE DEF R
<1>3. PICK m \in S : \A n \in S : ~(<<n, m>> \in R)
  BY <1>1, WFMin
<1>4. ASSUME NEW n \in S PROVE m =< n
  <2>1. m \in Nat /\ n \in Nat /\ ~(<<n, m>> \in R)
    BY <1>3
  <2> QED BY <1>2, <2>1
<1> QED BY <1>4

\* A set that has 0 and with every number below b the next one has 0..b.
LEMMA UpTo ==
  ASSUME NEW b \in Nat, NEW S, 0 \in S, \A i \in 0..b - 1 : i \in S => i + 1 \in S
  PROVE  \A i \in 0..b : i \in S
<1> DEFINE T == {i \in 0..b : i \notin S}
<1>1. SUFFICES ASSUME T # {} PROVE FALSE
  OBVIOUS
<1>2. T \subseteq Nat
  OBVIOUS
<1>3. PICK m \in T : \A n \in T : m =< n
  <2> HIDE DEF T
  <2> QED BY <1>1, <1>2, LeastOf
<1>4. m \in 1..b /\ m - 1 \in 0..b - 1
  OBVIOUS
<1>5. m - 1 \in T
  BY <1>4
<1> QED BY <1>3, <1>4, <1>5

\* What is behind the first of a list, and a list as its first and the rest.
LEMMA TailBehind ==
  ASSUME NEW S, NEW x \in S, NEW a \in Seq(S)
  PROVE  /\ Tail(<<x>> \o a) = a /\ <<x>> \o a # <<>> /\ Head(<<x>> \o a) = x
         /\ a # <<>> => <<Head(a)>> \o Tail(a) = a
<1> DEFINE l == <<x>> \o a
<1>1. /\ <<x>> \in Seq(S) /\ l \in Seq(S) /\ Len(l) = Len(a) + 1 /\ Len(a) \in Nat
      /\ l[1] = x /\ \A i \in 1..Len(a) : l[i + 1] = a[i]
  BY ConcatProperties, LenProperties
<1> HIDE DEF l
<1>2. l # <<>> /\ Head(l) = x
  BY <1>1
<1>3. Tail(l) = a
  <2>1. /\ Tail(l) \in Seq(S) /\ Len(Tail(l)) = Len(l) - 1
        /\ \A i \in 1..Len(Tail(l)) : Tail(l)[i] = l[i + 1]
    BY <1>1, <1>2, HeadTailProperties
  <2>2. Len(Tail(l)) = Len(a) /\ \A i \in 1..Len(Tail(l)) : Tail(l)[i] = a[i]
    BY <1>1, <2>1
  <2> QED BY <2>1, <2>2, SeqEqual
<1>4. ASSUME a # <<>> PROVE <<Head(a)>> \o Tail(a) = a
  <2> DEFINE m == <<Head(a)>> \o Tail(a)
  <2>1. /\ Head(a) \in S /\ Tail(a) \in Seq(S) /\ Len(Tail(a)) = Len(a) - 1 /\ Head(a) = a[1]
        /\ \A i \in 1..Len(Tail(a)) : Tail(a)[i] = a[i + 1]
    BY <1>4, HeadTailProperties
  <2>2. <<Head(a)>> \in Seq(S) /\ Len(<<Head(a)>>) = 1 /\ <<Head(a)>>[1] = a[1]
    BY <2>1
  <2>3. /\ m \in Seq(S) /\ Len(m) = 1 + Len(Tail(a))
        /\ \A i \in 1..1 + Len(Tail(a)) : m[i] = IF i <= 1 THEN <<Head(a)>>[i] ELSE Tail(a)[i - 1]
    BY <2>1, <2>2, ConcatProperties
  <2> HIDE DEF m
  <2>4. Len(m) = Len(a) /\ Len(a) \in Nat
    BY <1>1, <2>1, <2>3
  <2>5. ASSUME NEW i \in 1..Len(m) PROVE m[i] = a[i]
    <3>1. CASE i = 1
      BY <2>2, <2>3, <2>4, <3>1
    <3>2. CASE i # 1
      <4>1. i - 1 \in 1..Len(Tail(a)) /\ i - 1 + 1 = i /\ ~(i <= 1) /\ i \in 1..1 + Len(Tail(a))
        BY <2>3, <2>4, <3>2
      <4> QED BY <2>1, <2>3, <4>1
    <3> QED BY <3>1, <3>2
  <2>6. m = a
    BY <2>3, <2>4, <2>5, SeqEqual
  <2> QED BY <2>6 DEF m
<1> QED BY <1>2, <1>3, <1>4 DEF l

\* A list without its first.
LEMMA WithoutFirst ==
  ASSUME NEW S, NEW l \in Seq(S), l # <<>>
  PROVE  1 \in DOMAIN l /\ RemoveAt(l, 1) = Tail(l)
<1>1. Len(l) \in Nat \ {0} /\ DOMAIN l = 1..Len(l) /\ Tail(l) \in Seq(S) /\ Tail(l) = SubSeq(l, 2, Len(l))
  BY LenProperties, EmptySeq, HeadTailProperties, TailIsSubSeq
<1>2. 1 - 1 = 0 /\ 1 + 1 = 2
  OBVIOUS
<1>3. RemoveAt(l, 1) = SubSeq(l, 1, 0) \o SubSeq(l, 2, Len(l))
  <2>1. RemoveAt(l, 1) = SubSeq(l, 1, 1 - 1) \o SubSeq(l, 1 + 1, Len(l))
    BY Zenon DEF RemoveAt
  <2> QED BY <1>2, <2>1, Zenon
<1>4. SubSeq(l, 1, 0) = <<>>
  BY SubSeqEmpty
<1>5. <<>> \o Tail(l) = Tail(l)
  BY <1>1, ConcatEmptySeq
<1> QED BY <1>1, <1>3, <1>4, <1>5

\* A list behind x loses its i-th.
LosesBehind(x, l, i, j) == <<x>> \o RemoveAt(l, i) = RemoveAt(<<x>> \o l, j)
LEMMA RemoveBehind ==
  ASSUME NEW S, NEW x \in S, NEW l \in Seq(S), NEW i \in Nat, i # 0, i <= Len(l),
         NEW j \in Nat, j = i + 1
  PROVE  LosesBehind(x, l, i, j)
<1> DEFINE c == <<x>>
           m == c \o l
           n == Len(l)
<1>1. n \in Nat /\ c \in Seq(S) /\ Len(c) = 1 /\ c[1] = x
  BY LenProperties
<1>2. /\ m \in Seq(S) /\ Len(m) = n + 1
      /\ \A k \in 1..1 + n : m[k] = IF k <= 1 THEN c[k] ELSE l[k - 1]
  BY <1>1, ConcatProperties
<1>3. (\A k \in 1..n : l[k] \in S) /\ \A k \in 1..n + 1 : m[k] \in S
  BY <1>2, ElementOfSeq
<1> HIDE DEF c, m
<1> DEFINE a == SubSeq(l, 1, i - 1)
           b == SubSeq(l, i + 1, n)
           a1 == SubSeq(m, 1, i)
           b1 == SubSeq(m, i + 2, n + 1)
<1>4. i \in Nat \ {0} /\ i <= n /\ n \in Nat
  BY <1>1
<1>5. a \in Seq(S) /\ Len(a) = i - 1 /\ \A k \in 1..i - 1 : a[k] = l[k]
  <2>1. \A k \in 1..i - 1 : l[k] \in S
    BY <1>3, <1>4
  <2> QED BY <1>4, <2>1, SubSeqProperties
<1>6. b \in Seq(S) /\ Len(b) = n - i /\ \A k \in 1..n - i : b[k] = l[i + k]
  <2>1. \A k \in i + 1..n : l[k] \in S
    BY <1>3, <1>4
  <2> QED BY <1>4, <2>1, SubSeqProperties
<1>7. a1 \in Seq(S) /\ Len(a1) = i /\ \A k \in 1..i : a1[k] = m[k]
  <2>1. \A k \in 1..i : m[k] \in S
    BY <1>3, <1>4
  <2> QED BY <1>4, <2>1, SubSeqProperties
<1>8. b1 \in Seq(S) /\ Len(b1) = n - i /\ \A k \in 1..n - i : b1[k] = m[i + 1 + k]
  <2>1. \A k \in i + 2..n + 1 : m[k] \in S
    BY <1>3, <1>4
  <2> QED BY <1>4, <2>1, SubSeqProperties
<1>9. RemoveAt(l, i) = a \o b /\ RemoveAt(m, j) = a1 \o b1
  <2>1. j - 1 = i /\ j + 1 = i + 2 /\ Len(m) = n + 1
    BY <1>2, <1>4
  <2>2. RemoveAt(l, i) = a \o b
    BY Zenon DEF RemoveAt
  <2>3. RemoveAt(m, j) = SubSeq(m, 1, j - 1) \o SubSeq(m, j + 1, Len(m))
    BY Zenon DEF RemoveAt
  <2> QED BY <2>1, <2>2, <2>3, Zenon
<1> HIDE DEF a, b, a1, b1, n
<1>10. c \o (a \o b) = (c \o a) \o b
  <2>1. c \in Seq(S) /\ a \in Seq(S) /\ b \in Seq(S)
    BY <1>1, <1>5, <1>6
  <2>2. (c \o a) \o b = c \o (a \o b)
    BY ONLY <2>1, SMTT(30)
  <2> QED BY <2>2, Zenon
<1>11. c \o a = a1
  <2>1. /\ c \o a \in Seq(S) /\ Len(c \o a) = 1 + Len(a)
        /\ \A k \in 1..1 + Len(a) : (c \o a)[k] = IF k <= 1 THEN c[k] ELSE a[k - 1]
    <3>1. c \in Seq(S) /\ a \in Seq(S) /\ Len(c) = 1 /\ Len(a) = i - 1 /\ i \in Nat
      BY <1>1, <1>5
    <3>2. /\ c \o a \in Seq(S) /\ Len(c \o a) = Len(c) + Len(a)
          /\ \A k \in 1..Len(c) + Len(a) : (c \o a)[k] = IF k <= Len(c) THEN c[k] ELSE a[k - Len(c)]
      BY <3>1, ConcatProperties, Zenon
    <3> QED BY <3>1, <3>2
  <2>2. ASSUME NEW k \in 1..i PROVE (c \o a)[k] = a1[k]
    <3>1. k \in 1..1 + Len(a) /\ k \in 1..1 + n
      BY <1>4, <1>5
    <3>2. CASE k = 1
      BY <1>2, <1>7, <2>1, <3>1, <3>2
    <3>3. CASE k # 1
      <4>1. k - 1 \in 1..i - 1 /\ ~(k <= 1)
        BY <1>4, <3>3
      <4> QED BY <1>2, <1>5, <1>7, <2>1, <3>1, <4>1
    <3> QED BY <3>2, <3>3
  <2>3. Len(c \o a) = i /\ Len(a1) = i
    BY <1>4, <1>5, <1>7, <2>1
  <2> QED BY <1>7, <2>1, <2>2, <2>3, SeqEqual
<1>12. b = b1
  <2>1. ASSUME NEW k \in 1..n - i PROVE b[k] = b1[k]
    <3>1. i + 1 + k \in 1..1 + n /\ ~(i + 1 + k <= 1) /\ i + 1 + k - 1 = i + k
      BY <1>4
    <3>2. b[k] = l[i + k] /\ b1[k] = m[i + 1 + k]
      BY <1>6, <1>8
    <3>3. m[i + 1 + k] = l[i + 1 + k - 1]
      BY <1>2, <3>1
    <3> QED BY <3>1, <3>2, <3>3
  <2> QED BY <1>6, <1>8, <2>1, SeqEqual
<1>13. <<x>> \o RemoveAt(l, i) = RemoveAt(<<x>> \o l, j)
  BY <1>9, <1>10, <1>11, <1>12 DEF c, m
<1> QED BY <1>13, Zenon DEF LosesBehind

-----------------------------------------------------------------------------
(* The answers in a box, by the recursion over its messages.                *)

\* The answers among the first i messages of a box are those its recursion says.
LEMMA OwnTurns ==
  ASSUME NEW bx \in Seq(Messages)
  PROVE  \E own :
           /\ own[0] = <<>>
           /\ \A i \in 0..Len(bx) - 1 : own[i + 1] = WithAnswer(own[i], bx[i + 1])
           /\ OwnAnswers(bx) = own[Len(bx)]
<1> DEFINE F(g, b) == g = [i \in 0..b |-> IF i = 0 THEN <<>> ELSE WithAnswer(g[i - 1], bx[i])]
           S == {b \in 0..Len(bx) : \E g : F(g, b)}
<1>1. Len(bx) \in Nat
  BY LenProperties
<1>2. 0 \in S
  <2> DEFINE g == [i \in 0..0 |-> <<>>]
  <2>1. F(g, 0)
    OBVIOUS
  <2> HIDE DEF F
  <2> QED BY <1>1, <2>1
<1>3. \A b \in 0..Len(bx) - 1 : b \in S => b + 1 \in S
  <2> HIDE DEF F
  <2> SUFFICES ASSUME NEW b \in 0..Len(bx) - 1, NEW g, F(g, b) PROVE \E h : F(h, b + 1)
    BY <1>1
  <2> USE DEF F
  <2> DEFINE h == [i \in 0..b + 1 |-> IF i =< b THEN g[i] ELSE WithAnswer(g[b], bx[b + 1])]
  <2>1. h = [i \in 0..b + 1 |-> IF i = 0 THEN <<>> ELSE WithAnswer(h[i - 1], bx[i])]
    <3>1. b \in Nat
      BY <1>1
    <3>2. /\ \A i \in 0..b : h[i] = g[i]
          /\ h[b + 1] = WithAnswer(g[b], bx[b + 1])
      BY <3>1
    <3>3. \A i \in 0..b : g[i] = IF i = 0 THEN <<>> ELSE WithAnswer(g[i - 1], bx[i])
      OBVIOUS
    <3> HIDE DEF h, F
    <3>4. ASSUME NEW i \in 0..b + 1
          PROVE  h[i] = IF i = 0 THEN <<>> ELSE WithAnswer(h[i - 1], bx[i])
      <4>1. CASE i = 0
        BY <3>1, <3>2, <3>3, <4>1
      <4>2. CASE i \in 1..b
        <5>1. i # 0 /\ i \in 0..b /\ i - 1 \in 0..b
          BY <3>1, <4>2
        <5>2. h[i] = g[i] /\ h[i - 1] = g[i - 1]
          BY <3>2, <5>1
        <5> QED BY <3>3, <5>1, <5>2
      <4>3. CASE i = b + 1
        <5>1. i # 0 /\ i - 1 = b /\ b \in 0..b
          BY <3>1, <4>3
        <5> QED BY <3>2, <4>3, <5>1
      <4> QED BY <3>1, <4>1, <4>2, <4>3
    <3>5. h = [i \in 0..b + 1 |-> h[i]]
      BY DEF h
    <3> QED BY <3>4, <3>5
  <2> QED BY <2>1
<1>4. \E g : F(g, Len(bx))
  <2> HIDE DEF F
  <2>1. Len(bx) \in 0..Len(bx)
    BY <1>1
  <2> HIDE DEF S
  <2>2. Len(bx) \in S
    BY <1>1, <1>2, <1>3, <2>1, UpTo
  <2> USE DEF S
  <2> QED BY <2>2
<1> DEFINE f == CHOOSE g : F(g, Len(bx))
<1>5. F(f, Len(bx))
  BY <1>4
<1>6. OwnAnswers(bx) = f[Len(bx)]
  BY DEF OwnAnswers
<1> HIDE DEF f
<1>7. f[0] = <<>>
  BY <1>1, <1>5
<1>8. ASSUME NEW i \in 0..Len(bx) - 1 PROVE f[i + 1] = WithAnswer(f[i], bx[i + 1])
  <2>1. i + 1 \in 0..Len(bx) /\ i + 1 # 0 /\ i + 1 - 1 = i
    BY <1>1
  <2> QED BY <1>5, <2>1
<1> QED BY <1>6, <1>7, <1>8

ScanAnswers == [scan : Scans, how : {"done", "cancelled"}]
Answer(d) == [scan |-> d.scan, how |-> d.how]

\* What a message adds to the answers is one of a scan.
LEMMA AnswerType ==
  ASSUME NEW d \in Messages, Own(d)
  PROVE  Answer(d) \in ScanAnswers
BY DEF Own, Messages, Answer, ScanAnswers

LEMMA WithAnswerType ==
  ASSUME NEW d \in Messages, NEW a \in Seq(ScanAnswers)
  PROVE  WithAnswer(a, d) \in Seq(ScanAnswers)
<1>1. CASE Own(d)
  <2>1. Answer(d) \in ScanAnswers
    BY <1>1, AnswerType
  <2>2. WithAnswer(a, d) = Append(a, Answer(d))
    BY <1>1 DEF WithAnswer, Answer
  <2> QED BY <2>1, <2>2, AppendProperties
<1>2. CASE ~Own(d)
  BY <1>2 DEF WithAnswer
<1> QED BY <1>1, <1>2

\* One message more.
LEMMA OwnAppend ==
  ASSUME NEW bx \in Seq(Messages), NEW d \in Messages
  PROVE  OwnAnswers(Append(bx, d)) = WithAnswer(OwnAnswers(bx), d)
<1> DEFINE c == Append(bx, d)
           n == Len(bx)
<1>1. /\ n \in Nat /\ c \in Seq(Messages) /\ Len(c) = n + 1 /\ c[n + 1] = d
      /\ \A i \in 1..n : c[i] = bx[i]
  BY LenProperties, AppendProperties
<1> HIDE DEF c
<1>2. PICK f : /\ f[0] = <<>>
               /\ \A i \in 0..Len(bx) - 1 : f[i + 1] = WithAnswer(f[i], bx[i + 1])
               /\ OwnAnswers(bx) = f[Len(bx)]
  BY OwnTurns
<1>3. PICK g : /\ g[0] = <<>>
               /\ \A i \in 0..Len(c) - 1 : g[i + 1] = WithAnswer(g[i], c[i + 1])
               /\ OwnAnswers(c) = g[Len(c)]
  BY <1>1, OwnTurns
<1> DEFINE S == {i \in 0..n : g[i] = f[i]}
<1>4. 0 \in S
  BY <1>1, <1>2, <1>3
<1>5. ASSUME NEW i \in 0..n - 1, i \in S PROVE i + 1 \in S
  <2>1. i + 1 \in 1..n /\ i \in 0..Len(c) - 1 /\ i \in 0..Len(bx) - 1
    BY <1>1
  <2>2. g[i + 1] = WithAnswer(g[i], c[i + 1]) /\ f[i + 1] = WithAnswer(f[i], bx[i + 1])
    BY <1>2, <1>3, <2>1
  <2>3. g[i] = f[i] /\ c[i + 1] = bx[i + 1]
    BY <1>1, <1>5, <2>1
  <2> QED BY <1>1, <2>1, <2>2, <2>3
<1> HIDE DEF S
<1>6. n \in S
  <2>1. n \in 0..n
    BY <1>1
  <2> QED BY <1>1, <1>4, <1>5, <2>1, UpTo
<1>7. g[n] = f[n]
  BY <1>6 DEF S
<1>8. g[n + 1] = WithAnswer(g[n], d)
  <2>1. n \in 0..Len(c) - 1
    BY <1>1
  <2> QED BY <1>1, <1>3, <2>1
<1> QED BY <1>1, <1>2, <1>3, <1>7, <1>8 DEF c

\* A message adds the same behind other answers.
LEMMA WithAnswerBehind ==
  ASSUME NEW p \in Seq(ScanAnswers), NEW a \in Seq(ScanAnswers), NEW d \in Messages
  PROVE  WithAnswer(p \o a, d) = p \o WithAnswer(a, d)
<1>1. CASE Own(d)
  <2> DEFINE x == Answer(d)
  <2>1. x \in ScanAnswers
    BY <1>1, AnswerType
  <2>2. WithAnswer(p \o a, d) = Append(p \o a, x) /\ WithAnswer(a, d) = Append(a, x)
    BY <1>1 DEF WithAnswer, Answer
  <2> HIDE DEF x
  <2>3. p \o a \in Seq(ScanAnswers) /\ <<x>> \in Seq(ScanAnswers)
    BY <2>1, ConcatProperties
  <2>4. Append(p \o a, x) = (p \o a) \o <<x>> /\ Append(a, x) = a \o <<x>>
    BY <2>1, <2>3, AppendIsConcat
  <2>5. (p \o a) \o <<x>> = p \o (a \o <<x>>)
    BY <2>3, ConcatAssociative
  <2> QED BY <2>2, <2>4, <2>5
<1>2. CASE ~Own(d)
  BY <1>2 DEF WithAnswer
<1> QED BY <1>1, <1>2

\* The answers of a box are that of its first message, if it is one, and those
\* of the rest.
LEMMA OwnFirst ==
  ASSUME NEW bx \in Seq(Messages), bx # <<>>
  PROVE  /\ OwnAnswers(Tail(bx)) \in Seq(ScanAnswers)
         /\ OwnAnswers(bx) = WithAnswer(<<>>, Head(bx)) \o OwnAnswers(Tail(bx))
<1> DEFINE c == Tail(bx)
           n == Len(c)
           p == WithAnswer(<<>>, Head(bx))
<1>1. /\ Len(bx) \in Nat \ {0} /\ c \in Seq(Messages) /\ n \in Nat /\ Len(bx) = n + 1
      /\ Head(bx) = bx[1] /\ Head(bx) \in Messages /\ \A i \in 1..n : c[i] = bx[i + 1]
  BY LenProperties, HeadTailProperties, EmptySeq
<1>2. p \in Seq(ScanAnswers)
  <2>1. <<>> \in Seq(ScanAnswers)
    BY EmptySeq
  <2> QED BY <1>1, <2>1, WithAnswerType
<1> HIDE DEF c
<1>3. PICK f : /\ f[0] = <<>>
               /\ \A i \in 0..Len(bx) - 1 : f[i + 1] = WithAnswer(f[i], bx[i + 1])
               /\ OwnAnswers(bx) = f[Len(bx)]
  BY OwnTurns
<1>4. PICK g : /\ g[0] = <<>>
               /\ \A i \in 0..Len(c) - 1 : g[i + 1] = WithAnswer(g[i], c[i + 1])
               /\ OwnAnswers(c) = g[Len(c)]
  BY <1>1, OwnTurns
<1> DEFINE S == {i \in 0..n : g[i] \in Seq(ScanAnswers) /\ f[i + 1] = p \o g[i]}
<1>5. 0 \in S
  <2>1. 0 \in 0..Len(bx) - 1 /\ 0 \in 0..n /\ 0 + 1 = 1
    BY <1>1
  <2>2. f[0 + 1] = WithAnswer(f[0], bx[0 + 1])
    BY <1>3, <2>1
  <2>3. f[0 + 1] = p
    BY <1>1, <1>3, <2>1, <2>2
  <2> HIDE DEF p
  <2>4. p = p \o <<>> /\ <<>> \in Seq(ScanAnswers)
    BY <1>2, ConcatEmptySeq, EmptySeq
  <2> QED BY <1>4, <2>1, <2>3, <2>4
<1> HIDE DEF p
<1>6. ASSUME NEW i \in 0..n - 1, i \in S PROVE i + 1 \in S
  <2>1. i + 1 \in 1..n /\ i + 1 \in 0..n /\ i \in 0..Len(c) - 1 /\ i + 1 \in 0..Len(bx) - 1
    BY <1>1
  <2>2. g[i + 1] = WithAnswer(g[i], c[i + 1]) /\ f[i + 1 + 1] = WithAnswer(f[i + 1], bx[i + 1 + 1])
    BY <1>3, <1>4, <2>1
  <2>3. g[i] \in Seq(ScanAnswers) /\ f[i + 1] = p \o g[i] /\ c[i + 1] = bx[i + 1 + 1]
    BY <1>1, <1>6, <2>1
  <2>4. c[i + 1] \in Messages
    BY <1>1, <2>1, ElementOfSeq
  <2>5. WithAnswer(p \o g[i], c[i + 1]) = p \o WithAnswer(g[i], c[i + 1])
    BY <1>2, <2>3, <2>4, WithAnswerBehind
  <2>6. WithAnswer(g[i], c[i + 1]) \in Seq(ScanAnswers)
    BY <2>3, <2>4, WithAnswerType
  <2> QED BY <2>1, <2>2, <2>3, <2>5, <2>6
<1> HIDE DEF S
<1>7. n \in S
  <2>1. n \in 0..n
    BY <1>1
  <2> QED BY <1>1, <1>5, <1>6, <2>1, UpTo
<1>8. g[n] \in Seq(ScanAnswers) /\ f[n + 1] = p \o g[n]
  BY <1>7 DEF S
<1> QED BY <1>1, <1>3, <1>4, <1>8 DEF c, p

\* The first message leaves the box, and the first answer with it if it is one.
LEMMA OwnTail ==
  ASSUME NEW bx \in Seq(Messages), bx # <<>>
  PROVE  /\ ~Own(Head(bx)) => OwnAnswers(Tail(bx)) = OwnAnswers(bx)
         /\ Own(Head(bx)) => /\ OwnAnswers(bx) # <<>>
                             /\ OwnAnswers(Tail(bx)) = Tail(OwnAnswers(bx))
<1> DEFINE a == OwnAnswers(Tail(bx))
           d == Head(bx)
           x == Answer(d)
<1>1. a \in Seq(ScanAnswers) /\ OwnAnswers(bx) = WithAnswer(<<>>, d) \o a /\ d \in Messages
  BY OwnFirst, HeadTailProperties
<1> HIDE DEF a, d
<1>2. CASE ~Own(d)
  <2>1. WithAnswer(<<>>, d) = <<>>
    BY <1>2 DEF WithAnswer
  <2>2. <<>> \o a = a
    BY <1>1, ConcatEmptySeq
  <2> QED BY <1>1, <1>2, <2>1, <2>2 DEF a, d
<1>3. CASE Own(d)
  <2>1. WithAnswer(<<>>, d) = <<x>> /\ x \in ScanAnswers
    BY <1>1, <1>3, AnswerType DEF WithAnswer, Answer
  <2> HIDE DEF x
  <2>2. Tail(<<x>> \o a) = a /\ <<x>> \o a # <<>>
    BY <1>1, <2>1, TailBehind
  <2> QED BY <1>1, <1>3, <2>1, <2>2 DEF a, d
<1> QED BY <1>2, <1>3 DEF d

-----------------------------------------------------------------------------
(* The steps of the FSM as steps of the service.                            *)

\* A step of the service, or one it does not see.
Heard == OwnAnswers(mbox)
ServiceStep ==
  Promise!ServiceNext \/ (Line' = Line /\ Given' = Given /\ events' = events /\ Heard' = Heard)

\* l has a request for x.
ReqIn(l, x) == \E k \in 1..Len(l) : l[k].c = "REQ" /\ l[k].scan = x

\* What the firmware will be given is asked for in a command.
LEMMA GivenIs ==
  ASSUME cmds \in Seq(Commands), cmds' \in Seq(Commands)
  PROVE  /\ \A x : x \in Given <=> x \in chip \/ ReqIn(cmds, x)
         /\ \A x : x \in Given' <=> x \in chip' \/ ReqIn(cmds', x)
<1>1. ASSUME NEW l \in Seq(Commands)
      PROVE  \A x : (\E i \in DOMAIN l : l[i] = Command("REQ", x)) <=> ReqIn(l, x)
  <2>1. DOMAIN l = 1..Len(l) /\ \A i \in 1..Len(l) : l[i] \in Commands
    BY LenProperties, ElementOfSeq
  <2>2. \A c \in Commands : c = [c |-> c.c, scan |-> c.scan]
    BY DEF Commands
  <2>3. \A x, i : i \in 1..Len(l) => (l[i] = Command("REQ", x) <=> l[i].c = "REQ" /\ l[i].scan = x)
    BY <2>1, <2>2 DEF Command
  <2> QED BY <2>1, <2>3 DEF ReqIn
<1>2. \A x : InFlight(x) <=> ReqIn(cmds, x)
  BY <1>1 DEF InFlight
<1>3. \A x : InFlight(x)' <=> ReqIn(cmds', x)
  BY <1>1 DEF InFlight
<1>4. \A x : x \in Given <=> x \in chip \/ InFlight(x)
  BY DEF Given, InFlight, Command
<1>5. \A x : x \in Given' <=> x \in chip' \/ InFlight(x)'
  BY DEF Given, InFlight, Command
<1> QED BY <1>2, <1>3, <1>4, <1>5

LEMMA ReqAppend ==
  ASSUME NEW l \in Seq(Commands), NEW c \in Commands
  PROVE  \A x : ReqIn(Append(l, c), x) <=> ReqIn(l, x) \/ (c.c = "REQ" /\ c.scan = x)
<1> DEFINE m == Append(l, c)
<1>1. /\ Len(l) \in Nat /\ Len(m) = Len(l) + 1 /\ m[Len(l) + 1] = c
      /\ \A k \in 1..Len(l) : m[k] = l[k]
  BY LenProperties, AppendProperties
<1> HIDE DEF m
<1>2. \A k : k \in 1..Len(m) <=> k \in 1..Len(l) \/ k = Len(l) + 1
  BY <1>1
<1>3. \A x : ReqIn(m, x) <=> ReqIn(l, x) \/ (c.c = "REQ" /\ c.scan = x)
  <2> TAKE x
  <2>1. ReqIn(m, x) => ReqIn(l, x) \/ (c.c = "REQ" /\ c.scan = x)
    BY <1>1, <1>2 DEF ReqIn
  <2>2. ReqIn(l, x) => ReqIn(m, x)
    BY <1>1, <1>2 DEF ReqIn
  <2>3. c.c = "REQ" /\ c.scan = x => ReqIn(m, x)
    BY <1>1, <1>2 DEF ReqIn
  <2> QED BY <2>1, <2>2, <2>3
<1> QED BY <1>3 DEF m

LEMMA ReqTail ==
  ASSUME NEW l \in Seq(Commands), l # <<>>
  PROVE  \A x : ReqIn(l, x) <=> ReqIn(Tail(l), x) \/ (Head(l).c = "REQ" /\ Head(l).scan = x)
<1> DEFINE m == Tail(l)
<1>1. /\ Len(l) \in Nat \ {0} /\ Len(m) = Len(l) - 1 /\ Head(l) = l[1]
      /\ \A k \in 1..Len(m) : m[k] = l[k + 1]
  BY HeadTailProperties, LenProperties
<1> HIDE DEF m
<1>2. ASSUME NEW x, ReqIn(l, x)  PROVE ReqIn(m, x) \/ (l[1].c = "REQ" /\ l[1].scan = x)
  <2>1. PICK k \in 1..Len(l) : l[k].c = "REQ" /\ l[k].scan = x
    BY <1>2 DEF ReqIn
  <2>2. CASE k # 1
    <3>1. k - 1 \in 1..Len(m) /\ (k - 1) + 1 = k
      BY <1>1, <2>2
    <3>2. m[k - 1] = l[k]
      BY <1>1, <3>1
    <3> QED BY <2>1, <3>1, <3>2 DEF ReqIn
  <2> QED BY <2>1, <2>2
<1>3. ASSUME NEW x, ReqIn(m, x)  PROVE ReqIn(l, x)
  <2>1. PICK k \in 1..Len(m) : m[k].c = "REQ" /\ m[k].scan = x
    BY <1>3 DEF ReqIn
  <2>2. k + 1 \in 1..Len(l) /\ m[k] = l[k + 1]
    BY <1>1
  <2> QED BY <2>1, <2>2 DEF ReqIn
<1>4. ASSUME NEW x, l[1].c = "REQ", l[1].scan = x  PROVE ReqIn(l, x)
  BY <1>1, <1>4 DEF ReqIn
<1> QED BY <1>1, <1>2, <1>3, <1>4 DEF m

\* The line while a scan is under way.
LEMMA LineIs ==
  ASSUME FsmType, state = "SCANNING"
  PROVE  /\ Line = <<cur>> \o list /\ Line \in Seq(Scans) /\ Line # <<>> /\ Head(Line) = cur
         /\ Tail(Line) = list /\ Len(Line) = Len(list) + 1 /\ Line[1] = cur
         /\ \A i \in 1..Len(list) : Line[i + 1] = list[i]
<1>1. cur \in Scans /\ list \in Seq(Scans) /\ <<cur>> \in Seq(Scans) /\ Len(list) \in Nat
  BY LenProperties DEF FsmType
<1>2. Line = <<cur>> \o list
  BY DEF Line
<1>3. Line # <<>> /\ Head(Line) = cur /\ Tail(Line) = list
  BY <1>1, <1>2, TailBehind
<1>4. /\ Line \in Seq(Scans) /\ Len(Line) = Len(list) + 1 /\ Line[1] = cur
      /\ \A i \in 1..Len(list) : Line[i + 1] = list[i]
  BY <1>1, <1>2, ConcatProperties
<1> QED BY <1>2, <1>3, <1>4

\* The next scan is the first of the line, and the firmware will be given it.
LEMMA GoesOn ==
  ASSUME FsmType, state = "SCANNING", NEW sent \in Seq(Commands), ToIdle(sent), chip' = chip,
         cmds \in Seq(Commands), cmds' \in Seq(Commands),
         \A x : ReqIn(sent, x) <=> ReqIn(cmds, x)
  PROVE  Line' = Tail(Line) /\ Promise!GoOn(Tail(Line))
<1>1. Tail(Line) = list /\ list \in Seq(Scans)
  BY LineIs DEF FsmType
<1>2. CASE list = <<>>
  <2>1. state' = "IDLE" /\ cmds' = sent
    BY <1>2 DEF ToIdle
  <2>2. Line' = <<>>
    BY <2>1 DEF Line
  <2>3. \A x : x \in Given' <=> x \in Given
    BY <2>1, GivenIs
  <2>4. Given' = Given
    BY <2>3
  <2> QED BY <1>1, <1>2, <2>2, <2>4 DEF Promise!GoOn
<1>3. CASE list # <<>>
  <2> DEFINE s == Head(list)
             c == Command("REQ", s)
  <2>1. state' = "SCANNING" /\ cur' = s /\ list' = Tail(list) /\ cmds' = Append(sent, c)
    BY <1>3 DEF ToIdle
  <2>2. s \in Scans
    BY <1>1, <1>3, HeadTailProperties
  <2>3. c \in Commands /\ c.c = "REQ" /\ c.scan = s
    BY <2>2 DEF Command, Commands
  <2>4. Line' = <<s>> \o Tail(list)
    BY <2>1 DEF Line
  <2>5. <<s>> \o Tail(list) = list
    BY <1>1, <1>3, <2>2, TailBehind
  <2> HIDE DEF c, s
  <2>6. \A x : ReqIn(cmds', x) <=> ReqIn(sent, x) \/ s = x
    BY <2>1, <2>3, ReqAppend
  <2>7. \A x : x \in Given' <=> x \in Given \/ x = s
    BY <2>6, GivenIs
  <2>8. Given' = Given \cup {s}
    BY <2>7
  <2>9. Promise!GoOn(list)
    BY <1>3, <2>8 DEF Promise!GoOn, s
  <2> QED BY <1>1, <2>4, <2>5, <2>9
<1> QED BY <1>2, <1>3

\* The answer to the requester of a scan, or to another.
LEMMA Answered ==
  ASSUME NEW bx \in Seq(Messages), NEW s \in Scans, NEW how \in {"done", "cancelled"},
         OwnAnswers(bx) = Heard, mbox' = Append(bx, Done(s, how))
  PROVE  /\ Heard' \in {Heard, Append(Heard, [scan |-> s, how |-> how])}
         /\ s = cur => Heard' = Append(Heard, [scan |-> s, how |-> how])
<1> DEFINE d == Done(s, how)
<1>1. d \in Messages
  BY DoneType
<1>2. d.m = "DONE" /\ d.scan = s /\ d.how = how /\ d.to = IF cur.who = "OBSS" THEN "OBSS" ELSE Net(s.who)
  BY DEF Done
<1>3. s = cur => Own(d)
  BY <1>2 DEF Own, Net
<1> HIDE DEF d
<1>4. Heard' = WithAnswer(Heard, d)
  <2>1. OwnAnswers(Append(bx, d)) = WithAnswer(OwnAnswers(bx), d)
    BY <1>1, OwnAppend
  <2> QED BY <2>1 DEF Heard, d
<1> QED BY <1>2, <1>3, <1>4 DEF WithAnswer

\* A message that is no answer of the FSM.
LEMMA Unheard ==
  ASSUME NEW bx \in Seq(Messages), NEW d \in Messages, d.m # "DONE"
  PROVE  OwnAnswers(Append(bx, d)) = OwnAnswers(bx)
BY OwnAppend DEF WithAnswer, Own

\* What the firmware is given is in its commands and with it.
LEMMA GivenSame ==
  ASSUME UNCHANGED <<cmds, chip>>
  PROVE  Given' = Given
BY DEF Given, InFlight

\* One of the list is cancelled.
LEMMA LineWithout ==
  ASSUME FsmType, state = "SCANNING", NEW i \in Nat, i \in DOMAIN list, NEW j \in Nat, j = i + 1
  PROVE  /\ j \in DOMAIN Line /\ j # 1 /\ Line[j] = list[i]
         /\ <<cur>> \o RemoveAt(list, i) = RemoveAt(Line, j)
<1>1. /\ list \in Seq(Scans) /\ Len(list) \in Nat /\ i \in 1..Len(list) /\ cur \in Scans
      /\ Line = <<cur>> \o list /\ Len(Line) = Len(list) + 1 /\ DOMAIN Line = 1..Len(Line)
      /\ \A k \in 1..Len(list) : Line[k + 1] = list[k]
  BY LineIs, LenProperties DEF FsmType
<1>2. <<cur>> \o RemoveAt(list, i) = RemoveAt(Line, j)
  <2>1. /\ cur \in Scans /\ list \in Seq(Scans) /\ i # 0 /\ i <= Len(list) /\ j = i + 1
        /\ Line = <<cur>> \o list
    BY <1>1
  <2>2. LosesBehind(cur, list, i, j)
    <3>1. /\ cur \in Scans /\ list \in Seq(Scans) /\ i \in Nat /\ i # 0 /\ i <= Len(list)
          /\ j \in Nat /\ j = i + 1
      BY <2>1
    <3> QED BY ONLY <3>1, RemoveBehind, Zenon
  <2> QED BY <2>1, <2>2, Zenon DEF LosesBehind
<1>3. j \in DOMAIN Line /\ j # 1 /\ Line[j] = list[i]
  BY <1>1
<1> QED BY <1>2, <1>3, Zenon

\* A scan is cancelled, wherever it is: the service cancels it, and its requester
\* may hear of it; one that is not known is not.
LEMMA AbortServed ==
  ASSUME Types, cmds' \in Seq(Commands), NEW seq, NEW net, NEW bx \in Seq(Messages),
         OwnAnswers(bx) = Heard, MsgAbort(seq, net, bx), UNCHANGED <<chip, events>>
  PROVE  ServiceStep
<1>0. FsmType /\ cmds \in Seq(Commands)
  BY DEF Types, ChipType
<1>1. CASE state = "SCANNING" /\ mbox' = Append(bx, Done(cur, "cancelled")) /\ ToIdle(CancelCommand)
  <2> DEFINE sent == CancelCommand
             c == Command("CANCEL", cur)
  <2>1. cur \in Scans /\ c \in Commands /\ c.c # "REQ"
    BY <1>0, <1>1 DEF FsmType, Command, Commands
  <2>2. sent = Append(cmds, c) /\ ToIdle(sent)
    BY <1>1 DEF CancelCommand
  <2> HIDE DEF sent, c
  <2>a. sent \in Seq(Commands) /\ \A x : ReqIn(sent, x) <=> ReqIn(cmds, x)
    BY <1>0, <2>1, <2>2, ReqAppend, AppendProperties
  <2>3. Line' = Tail(Line) /\ Promise!GoOn(Tail(Line))
    BY <1>0, <1>1, <2>2, <2>a, GoesOn
  <2>4. Heard' \in {Heard, Append(Heard, [scan |-> cur, how |-> "cancelled"])}
    <3>1. "cancelled" \in {"done", "cancelled"}
      OBVIOUS
    <3> QED BY <1>1, <2>1, <3>1, Answered
  <2>5. /\ Line \in Seq(Scans) /\ Line # <<>> /\ Line[1] = cur
    BY <1>0, <1>1, LineIs
  <2>6. RemoveAt(Line, 1) = Tail(Line) /\ 1 \in DOMAIN Line
    BY <2>5, WithoutFirst
  <2>7. Promise!CancelScan
    <3>1. Line' = RemoveAt(Line, 1)
      BY <2>3, <2>6, Zenon
    <3>2. IF 1 = 1 THEN Promise!GoOn(Tail(Line)) ELSE UNCHANGED Given
      BY <2>3
    <3>3. Heard' \in {Heard, Append(Heard, [scan |-> Line[1], how |-> "cancelled"])}
      BY <2>4, <2>5, Zenon
    <3>4. events' = events
      OBVIOUS
    <3> QED BY <2>6, <3>1, <3>2, <3>3, <3>4, Zenon DEF Promise!CancelScan, Promise!RemoveAt, RemoveAt, Heard
  <2> QED BY <2>7 DEF ServiceStep, Promise!ServiceNext
<1>2. ASSUME state = "SCANNING", NEW i \in Place(seq, net), mbox' = Append(bx, Done(list[i], "cancelled")),
             list' = RemovePending(i), UNCHANGED <<state, cur, cmds>>
      PROVE  ServiceStep
  <2>1. i \in DOMAIN list /\ DOMAIN list = 1..Len(list) /\ Len(list) \in Nat
    BY <1>0, LenProperties DEF Place, FsmType
  <2>2. i \in Nat /\ list[i] \in Scans
    BY <1>0, <2>1, ElementOfSeq DEF FsmType
  <2> DEFINE j == i + 1
  <2>3. j \in Nat /\ j = i + 1
    BY <2>2
  <2> HIDE DEF j
  <2>4. /\ j \in DOMAIN Line /\ j # 1 /\ Line[j] = list[i]
        /\ <<cur>> \o RemoveAt(list, i) = RemoveAt(Line, j)
    BY <1>0, <1>2, <2>1, <2>2, <2>3, LineWithout, Zenon
  <2>5. Line' = RemoveAt(Line, j)
    <3>1. Line' = <<cur>> \o RemoveAt(list, i)
      BY <1>2, Zenon DEF Line, RemovePending
    <3> QED BY <2>4, <3>1, Zenon
  <2>6. Given' = Given
    BY <1>2, GivenSame
  <2>7. Heard' \in {Heard, Append(Heard, [scan |-> list[i], how |-> "cancelled"])}
    <3> DEFINE s == list[i]
    <3>1. "cancelled" \in {"done", "cancelled"} /\ s \in Scans /\ mbox' = Append(bx, Done(s, "cancelled"))
      BY <1>2, <2>2
    <3> HIDE DEF s
    <3>2. Heard' \in {Heard, Append(Heard, [scan |-> s, how |-> "cancelled"])}
      BY <3>1, Answered
    <3> QED BY <3>2 DEF s
  <2>8. Promise!CancelScan
    <3>1. IF j = 1 THEN Promise!GoOn(Tail(Line)) ELSE UNCHANGED Given
      BY <2>4, <2>6
    <3>2. Heard' \in {Heard, Append(Heard, [scan |-> Line[j], how |-> "cancelled"])}
      BY <2>4, <2>7, Zenon
    <3>3. events' = events
      OBVIOUS
    <3> QED BY <2>4, <2>5, <3>1, <3>2, <3>3, Zenon DEF Promise!CancelScan, Promise!RemoveAt, RemoveAt, Heard
  <2> QED BY <2>8 DEF ServiceStep, Promise!ServiceNext
<1>3. CASE mbox' = bx /\ UNCHANGED <<fsmVars, cmds>>
  <2>1. Line' = Line
    BY <1>3 DEF Line, fsmVars
  <2>2. Given' = Given
    BY <1>3, GivenSame DEF fsmVars
  <2>3. Heard' = Heard
    BY <1>3 DEF Heard
  <2> QED BY <2>1, <2>2, <2>3 DEF ServiceStep
<1> QED BY <1>1, <1>2, <1>3 DEF MsgAbort

\* A done event of the number under way ends that scan, another nothing.
LEMMA EventServed ==
  ASSUME Types, cmds' \in Seq(Commands), ScanDoneEvent
  PROVE  ServiceStep
<1>0. /\ FsmType /\ cmds \in Seq(Commands) /\ mbox \in Seq(Messages)
      /\ events # <<>> /\ events' = Tail(events) /\ chip' = chip
  BY DEF Types, ChipType, BoxType, ScanDoneEvent
<1>1. CASE /\ state = "SCANNING" /\ Head(events).seq = cur.seq
           /\ mbox' = Append(mbox, Done(cur, "done")) /\ ToIdle(cmds)
  <2>1. cur \in Scans
    BY <1>0, <1>1 DEF FsmType
  <2>2. Line # <<>> /\ Head(Line) = cur
    BY <1>0, <1>1, LineIs
  <2>3. Line' = Tail(Line) /\ Promise!GoOn(Tail(Line))
    BY <1>0, <1>1, GoesOn
  <2>4. Heard' = Append(Heard, [scan |-> cur, how |-> "done"])
    <3>1. "done" \in {"done", "cancelled"} /\ OwnAnswers(mbox) = Heard
      BY DEF Heard
    <3> QED BY <1>0, <1>1, <2>1, <3>1, Answered
  <2>5. Promise!ItsEnd
    BY <1>0, <1>1, <2>2 DEF Promise!ItsEnd
  <2>6. Promise!ReportDone
    <3>1. Heard' = Append(Heard, [scan |-> Head(Line), how |-> "done"])
      BY <2>2, <2>4, Zenon
    <3> QED BY <1>0, <2>3, <2>5, <3>1, Zenon DEF Promise!ReportDone, Heard
  <2> QED BY <2>6 DEF ServiceStep, Promise!ServiceNext
<1>2. CASE ~(state = "SCANNING" /\ Head(events).seq = cur.seq) /\ UNCHANGED <<fsmVars, mbox, cmds>>
  <2>1. UNCHANGED <<state, cur, list>>
    BY <1>2 DEF fsmVars
  <2>2. Line' = Line /\ Heard' = Heard
    BY <1>2, <2>1 DEF Line, Heard
  <2>3. Given' = Given
    BY <1>0, <1>2, GivenSame
  <2>4. ~Promise!ItsEnd
    <3>1. CASE state = "SCANNING"
      BY <1>0, <1>2, <3>1, LineIs DEF Promise!ItsEnd
    <3>2. CASE state # "SCANNING"
      BY <3>2 DEF Line, Promise!ItsEnd
    <3> QED BY <3>1, <3>2
  <2>5. Promise!OtherEnd
    BY <1>0, <2>2, <2>3, <2>4, Zenon DEF Promise!OtherEnd, Heard
  <2> QED BY <2>5 DEF ServiceStep, Promise!ServiceNext
<1> QED BY <1>1, <1>2 DEF ScanDoneEvent

\* The firmware takes a scan, gives up some that are not under way, or
\* finishes one.
LEMMA ChipServed ==
  ASSUME Inv, PlaceInv, cmds' \in Seq(Commands), ChipCommand \/ ChipEnds
  PROVE  ServiceStep
<1>0. FsmType /\ UNCHANGED <<state, cur, list, mbox>> /\ cmds \in Seq(Commands)
  BY DEF ChipCommand, ChipEnds, fsmVars, Inv, Types, ChipType
<1>1. Line' = Line /\ Heard' = Heard
  BY <1>0 DEF Line, Heard
<1>2. CASE ChipCommand
  <2>1. /\ cmds # <<>> /\ cmds' = Tail(cmds) /\ events' = events
        /\ chip' = IF Head(cmds).c = "REQ" THEN chip \cup {Head(cmds).scan}
                   ELSE {s \in chip : s.seq # Head(cmds).scan.seq}
    BY <1>2 DEF ChipCommand
  <2>2. \A x : ReqIn(cmds, x) <=> ReqIn(cmds', x) \/ (Head(cmds).c = "REQ" /\ Head(cmds).scan = x)
    BY <1>0, <2>1, ReqTail
  <2>3. CASE Head(cmds).c = "REQ"
    <3>1. \A x : x \in Given' <=> x \in Given
      BY <1>0, <2>1, <2>2, <2>3, GivenIs
    <3>2. Given' = Given
      BY <3>1
    <3> QED BY <1>1, <2>1, <3>2 DEF ServiceStep
  <2>4. CASE Head(cmds).c # "REQ"
    <3> DEFINE dropped == Given \ Given'
    <3>1. \A x : x \in Given' => x \in Given
      BY <1>0, <2>1, <2>2, <2>4, GivenIs
    <3>2. dropped \in SUBSET Given /\ Given' = Given \ dropped
      BY <3>1
    <3>3. ASSUME state = "SCANNING"  PROVE cur \in Given'
      <4>0. /\ Len(cmds) \in Nat \ {0} /\ Head(cmds) = cmds[1] /\ cmds[1] \in Commands
        BY <1>0, <2>1, HeadTailProperties, LenProperties
      <4>1. cmds[1].c = "CANCEL" /\ 1 \in 1..Len(cmds)
        BY <2>4, <4>0 DEF Commands
      <4>2. Ordered
        BY <3>3, <4>1 DEF Inv, NeverLost, Kept
      <4>3. ReqIn(cmds, cur)
        BY <4>2 DEF Ordered, ReqIn, Command
      <4> QED BY <1>0, <2>2, <2>4, <4>3, GivenIs
    <3>4. Line # <<>> => Head(Line) \notin dropped
      <4>1. CASE state = "SCANNING"
        BY <1>0, <3>3, <4>1, LineIs
      <4>2. CASE state # "SCANNING"
        BY <4>2 DEF Line
      <4> QED BY <4>1, <4>2
    <3> HIDE DEF dropped
    <3>5. Promise!ChipDrops
      BY <1>1, <2>1, <3>2, <3>4, Zenon DEF Promise!ChipDrops, Heard
    <3> QED BY <3>5 DEF ServiceStep, Promise!ServiceNext
  <2> QED BY <2>3, <2>4
<1>3. CASE ChipEnds
  <2>1. PICK s \in chip : chip' = chip \ {s} /\ events' = Append(events, s) /\ cmds' = cmds
    BY <1>3 DEF ChipEnds
  <2>2. ~ReqIn(cmds, s)
    <3>1. ASSUME NEW k \in 1..Len(cmds), cmds[k].c = "REQ", cmds[k].scan = s  PROVE FALSE
      <4>1. s.id < cmds[k].scan.id /\ s.id \in Nat
        BY <3>1, Ids DEF PlaceInv, OnePlace, Sent, Inv
      <4> QED BY <3>1, <4>1
    <3> QED BY <3>1 DEF ReqIn
  <2>3. \A x : x \in Given' <=> x \in Given /\ x # s
    BY <1>0, <2>1, <2>2, GivenIs
  <2>4. Given' = Given \ {s} /\ s \in Given
    <3>1. s \in Given
      BY <1>0, GivenIs
    <3> QED BY <2>3, <3>1
  <2>5. Promise!ChipFinishes
    BY <1>1, <2>1, <2>4, Zenon DEF Promise!ChipFinishes, Heard
  <2> QED BY <2>5 DEF ServiceStep, Promise!ServiceNext
<1> QED BY <1>2, <1>3

\* A scan that is asked for is taken into the line.
LEMMA StartServed ==
  ASSUME Types, PlaceInv, cmds' \in Seq(Commands), MsgStart
  PROVE  ServiceStep
<1> DEFINE s == Head(mbox).scan
<1>0. /\ FsmType /\ mbox \in Seq(Messages) /\ mbox # <<>> /\ mbox' = Tail(mbox) /\ Head(mbox).m = "REQ"
      /\ cmds \in Seq(Commands) /\ UNCHANGED <<chip, events>>
  BY DEF Types, BoxType, ChipType, MsgStart, Recv, chipVars
<1>1. s \in Scans
  BY <1>0, HeadTailProperties DEF Messages
<1>2. Heard' = Heard
  BY <1>0, OwnTail DEF Own, Heard
<1>a. 1 \in Requests /\ mbox[1].scan = s
  BY <1>0, HeadTailProperties, LenProperties DEF Requests
<1> HIDE DEF s
<1>b. /\ cur.id < s.id /\ cur.id \in Nat /\ s.id \in Nat
      /\ \A i \in 1..Len(list) : list[i].id < s.id /\ list[i].id \in Nat
  BY <1>a, Ids DEF PlaceInv, Queued
<1>c. s \notin Given
  <2>1. ASSUME s \in chip  PROVE FALSE
    BY <1>b, <2>1 DEF PlaceInv, OnePlace
  <2>2. ASSUME ReqIn(cmds, s)  PROVE FALSE
    BY <1>b, <2>2 DEF PlaceInv, OnePlace, ReqIn, Sent
  <2> QED BY <1>0, <2>1, <2>2, GivenIs
<1>d. s \notin ToSet(events)
  <2>1. DOMAIN events = 1..Len(events)
    BY LenProperties DEF Types, ChipType
  <2>2. \A e \in 1..Len(events) : events[e] # s
    BY <1>b DEF PlaceInv, OnePlace
  <2> QED BY <2>1, <2>2 DEF ToSet
<1>e. s \notin ToSet(Line)
  <2>1. CASE state = "SCANNING"
    <3>1. DOMAIN Line = 1..Len(Line) /\ Len(Line) = Len(list) + 1 /\ Line[1] = cur /\ Len(list) \in Nat
      BY <1>0, <2>1, LineIs, LenProperties DEF FsmType
    <3>2. ASSUME NEW k \in 1..Len(Line)  PROVE Line[k] # s
      <4>1. CASE k = 1
        BY <1>b, <3>1, <4>1
      <4>2. CASE k # 1
        <5>1. k - 1 \in 1..Len(list) /\ (k - 1) + 1 = k
          BY <3>1, <4>2
        <5>2. Line[k] = list[k - 1]
          <6>1. \A i \in 1..Len(list) : Line[i + 1] = list[i]
            BY <1>0, <2>1, LineIs
          <6>2. Line[(k - 1) + 1] = list[k - 1]
            BY <5>1, <6>1
          <6> QED BY <5>1, <6>2
        <5>3. list[k - 1].id < s.id /\ list[k - 1].id \in Nat
          BY <1>b, <5>1
        <5> QED BY <1>b, <5>2, <5>3
      <4> QED BY <4>1, <4>2
    <3> QED BY <3>1, <3>2 DEF ToSet
  <2>2. CASE state # "SCANNING"
    <3>1. Line = <<>>
      BY <2>2 DEF Line
    <3> QED BY <3>1 DEF ToSet
  <2> QED BY <2>1, <2>2
<1>f. Promise!New(s)
  BY <1>c, <1>d, <1>e DEF Promise!New, Promise!ToSet, ToSet
<1>3. CASE /\ state = "IDLE" /\ state' = "SCANNING" /\ cur' = s
           /\ cmds' = Append(cmds, Command("REQ", s)) /\ UNCHANGED list
  <2>1. Line = <<>> /\ list = <<>>
    BY <1>3 DEF Line, PlaceInv, IdleEmpty
  <2>2. Line' = <<s>> \o <<>>
    BY <1>3, <2>1 DEF Line
  <2>3. Line' = Append(Line, s) /\ Len(Line') > Len(Line)
    BY <1>1, <2>1, <2>2
  <2>4. Given' = Given \cup {s}
    <3> DEFINE c == Command("REQ", s)
    <3>1. c \in Commands /\ c.c = "REQ" /\ c.scan = s /\ cmds' = Append(cmds, c)
      BY <1>1, <1>3 DEF Command, Commands
    <3> HIDE DEF c
    <3>2. \A x : ReqIn(cmds', x) <=> ReqIn(cmds, x) \/ s = x
      BY <1>0, <3>1, ReqAppend
    <3>3. \A x : x \in Given' <=> x \in Given \/ x = s
      BY <1>0, <3>2, GivenIs
    <3> QED BY <3>3
  <2>5. Given' = IF Line = <<>> THEN Given \cup {s} ELSE Given
    BY <2>1, <2>4
  <2>6. Promise!TakeScan
    BY <1>0, <1>1, <1>2, <1>f, <2>3, <2>5, Zenon DEF Promise!TakeScan, Heard
  <2> QED BY <2>6 DEF ServiceStep, Promise!ServiceNext
<1>4. CASE state # "IDLE" /\ list' = Append(list, s) /\ UNCHANGED <<state, cur, cmds>>
  <2>1. state = "SCANNING" /\ cur \in Scans /\ list \in Seq(Scans)
    BY <1>0, <1>4 DEF FsmType
  <2>2. Line = <<cur>> \o list /\ Line \in Seq(Scans) /\ Line # <<>>
    BY <1>0, <2>1, LineIs
  <2>3. Line' = <<cur>> \o Append(list, s)
    BY <1>4, <2>1 DEF Line
  <2>4. Line' = Append(Line, s)
    <3>1. <<cur>> \in Seq(Scans) /\ <<s>> \in Seq(Scans)
      BY <1>1, <2>1
    <3>2. Append(list, s) = list \o <<s>> /\ Append(Line, s) = Line \o <<s>>
      BY <1>1, <2>1, <2>2, AppendIsConcat
    <3>3. (<<cur>> \o list) \o <<s>> = <<cur>> \o (list \o <<s>>)
      BY <2>1, <3>1, ConcatAssociative
    <3> QED BY <2>2, <2>3, <3>2, <3>3, Zenon
  <2>5. Len(Line') > Len(Line)
    BY <1>1, <2>2, <2>4, AppendProperties, LenProperties
  <2>6. Given' = IF Line = <<>> THEN Given \cup {s} ELSE Given
    BY <1>0, <1>4, <2>2, GivenSame
  <2>7. Promise!TakeScan
    BY <1>0, <1>1, <1>2, <1>f, <2>4, <2>5, <2>6, Zenon DEF Promise!TakeScan, Heard
  <2> QED BY <2>7 DEF ServiceStep, Promise!ServiceNext
<1> QED BY <1>3, <1>4 DEF MsgStart, s

\* Each step of the scan FSM is one of the service, or not seen.
LEMMA StepServed ==
  ASSUME Inv, PlaceInv, [Next]_vars
  PROVE  ServiceStep
<1>0. /\ Types /\ mbox \in Seq(Messages) /\ num \in [{"AIS", "P2P"} -> Numbers]
  BY DEF Inv, Types, BoxType, AskType
<1>a. cmds' \in Seq(Commands)
  <2>1. CASE UNCHANGED vars
    BY <1>0, <2>1 DEF Types, ChipType, vars
  <2>2. CASE Next
    BY <2>2, TypeStep DEF Inv, Types, ChipType
  <2> QED BY <2>1, <2>2
<1>1. ASSUME UNCHANGED <<state, cur, list, cmds, chip, events>>, Heard' = Heard  PROVE ServiceStep
  <2>1. Line' = Line
    BY <1>1 DEF Line
  <2> QED BY <1>1, <2>1, GivenSame DEF ServiceStep
<1>2. CASE UNCHANGED vars
  BY <1>1, <1>2 DEF vars, fsmVars, chipVars, Heard
<1>3. ASSUME NEW d \in Messages, d.m # "DONE", mbox' = Append(mbox, d)  PROVE Heard' = Heard
  BY <1>0, <1>3, Unheard DEF Heard
<1>4. ASSUME NEW r \in {"AIS", "P2P"}, AskScan(r)  PROVE ServiceStep
  <2> DEFINE s == NewScan(r, num'[r])
             d == Request(s)
  <2>1. num'[r] \in Numbers
    BY <1>0, <1>4, WrapType DEF AskScan, NextNumber
  <2>2. s \in Scans
    BY <1>0, <1>4, <2>1, NewScanType DEF AskScan, Requesters
  <2>3. mbox' = Append(mbox, d) /\ UNCHANGED <<state, cur, list, cmds, chip, events>>
    BY <1>4 DEF AskScan, fsmVars, chipVars
  <2> HIDE DEF s
  <2>4. d \in Messages /\ d.m # "DONE"
    BY <2>2 DEF Request, Messages
  <2> HIDE DEF d
  <2> QED BY <1>1, <1>3, <2>3, <2>4
<1>5. CASE AisCancels \/ AisTimesOut
  <2>1. MsgAbort(num["AIS"], "AIS", mbox) /\ UNCHANGED <<chip, events>> /\ OwnAnswers(mbox) = Heard
    BY <1>5 DEF AisCancels, AisTimesOut, chipVars, Heard
  <2> QED BY <1>0, <1>a, <2>1, AbortServed
<1>6. CASE P2pCancels
  <2> DEFINE d == [m |-> "CANCEL", seq |-> num["P2P"]]
  <2>1. d \in Messages /\ d.m # "DONE"
    BY <1>0 DEF Messages
  <2>2. (mbox' = mbox \/ mbox' = Append(mbox, d)) /\ UNCHANGED <<state, cur, list, cmds, chip, events>>
    BY <1>6 DEF P2pCancels, fsmVars, chipVars
  <2> HIDE DEF d
  <2>3. Heard' = Heard
    <3>1. mbox' = mbox => Heard' = Heard
      BY DEF Heard
    <3> QED BY <1>3, <2>1, <2>2, <3>1
  <2> QED BY <1>1, <2>2, <2>3
<1>7. CASE ObssTimeout
  <2> DEFINE s == NewScan("OBSS", ObssNumber)
             d == Request(s)
  <2>1. ObssNumber \in Numbers
    BY DEF ObssNumber, Numbers, Wraps
  <2>2. s \in Scans
    BY <1>0, <1>7, <2>1, NewScanType DEF ObssTimeout, Requesters
  <2>3. mbox' = Append(mbox, d) /\ UNCHANGED <<state, cur, list, cmds, chip, events>>
    BY <1>7 DEF ObssTimeout, fsmVars, chipVars
  <2> HIDE DEF s
  <2>4. d \in Messages /\ d.m # "DONE"
    BY <2>2 DEF Request, Messages
  <2> HIDE DEF d
  <2> QED BY <1>1, <1>3, <2>3, <2>4
<1>8. CASE P2pAbort
  <2>1. mbox # <<>> /\ Head(mbox).m = "CANCEL" /\ UNCHANGED <<chip, events>>
        /\ MsgAbort(Head(mbox).seq, "P2P", Tail(mbox))
    BY <1>8 DEF P2pAbort, Recv, chipVars
  <2>2. Tail(mbox) \in Seq(Messages)
    BY <1>0, <2>1, HeadTailProperties
  <2>3. OwnAnswers(Tail(mbox)) = Heard
    BY <1>0, <2>1, OwnTail DEF Own, Heard
  <2> QED BY <1>0, <1>a, <2>1, <2>2, <2>3, AbortServed
<1>9. CASE ScanDone
  <2>1. UNCHANGED <<state, cur, list, cmds, chip, events>> /\ mbox # <<>> /\ mbox' = Tail(mbox)
    BY <1>9 DEF ScanDone, Recv, fsmVars, chipVars
  <2>2. CASE ~Own(Head(mbox))
    <3>1. Heard' = Heard
      BY <1>0, <2>1, <2>2, OwnTail DEF Heard
    <3> QED BY <1>1, <2>1, <3>1
  <2>3. CASE Own(Head(mbox))
    <3>1. Heard # <<>> /\ Heard' = Tail(Heard)
      BY <1>0, <2>1, <2>3, OwnTail DEF Heard
    <3>2. Line' = Line /\ Given' = Given /\ events' = events
      BY <2>1, GivenSame DEF Line
    <3>3. Promise!HearAnswer
      BY <3>1, <3>2, Zenon DEF Promise!HearAnswer, Heard
    <3> QED BY <3>3 DEF ServiceStep, Promise!ServiceNext
  <2> QED BY <2>2, <2>3
<1>10. CASE MsgStart
  BY <1>0, <1>a, <1>10, StartServed
<1>11. CASE ScanDoneEvent
  BY <1>0, <1>a, <1>11, EventServed
<1>12. CASE ChipCommand \/ ChipEnds
  BY <1>a, <1>12, ChipServed
<1> QED BY <1>2, <1>4, <1>5, <1>6, <1>7, <1>8, <1>9, <1>10, <1>11, <1>12 DEF Next, Handle

\* Nothing has been taken when nothing has been asked for.
LEMMA ServedInit ==
  ASSUME Init
  PROVE  Promise!ServiceInit
<1>1. state = "IDLE" /\ mbox = <<>> /\ cmds = <<>> /\ chip = {} /\ events = <<>>
  BY DEF Init
<1>2. Line = <<>>
  BY <1>1 DEF Line
<1>3. Given = {}
  BY <1>1 DEF Given
<1>4. OwnAnswers(mbox) = <<>>
  <2>1. <<>> \in Seq(Messages) /\ Len(<<>>) = 0
    BY EmptySeq
  <2>2. OwnAnswers(<<>>) = <<>>
    BY <2>1, OwnTurns
  <2> QED BY <1>1, <2>2
<1> QED BY <1>1, <1>2, <1>3, <1>4 DEF Promise!ServiceInit

\* The scan FSM keeps its promise to those who ask (IsScanService), whatever
\* the numbers of the scans: they are given to the firmware in the order they
\* were taken, a scan is reported done once at most, only while it is under way and
\* for an end of the firmware with its number, and not once it is cancelled.
THEOREM ScansServed == Spec => IsScanService
<1>1. Init => Promise!ServiceInit
  BY ServedInit
<1>2. Inv /\ OneInv /\ [Next]_vars => [Promise!ServiceNext]_(Promise!serviceVars)
  <2> SUFFICES ASSUME Inv, OneInv, [Next]_vars
               PROVE  [Promise!ServiceNext]_(Promise!serviceVars)
    OBVIOUS
  <2>1. ServiceStep
    BY StepServed DEF OneInv
  <2> QED BY <2>1 DEF ServiceStep, Promise!serviceVars, Heard
<1> QED BY <1>1, <1>2, Invariance, OneAlways, PTL DEF Spec, IsScanService, Promise!Service

-----------------------------------------------------------------------------
(* A join (SaaFsm).  The parts of the invariant are about a record r, its  *)
(* timer t, a box b, what AIS has (a), the frames q and the joins u that   *)
(* SAA was not told to give up: within a step of SAA they are not yet the  *)
(* ones of the state.                                                      *)

SaaMessages == [m : {"START"}, seq : 1..MaxJoins] \cup [m : {"SAA_ABORT", "AIS_ABORT"}]
Records ==
  [used : BOOLEAN, sta : 1..3, retry : 0..RetryLimit, alg : Algs,
   seq : 0..MaxJoins, aa : {"IDLE", "RESOURCE"} \cup SendStates \cup WaitStates]
AisStates == [join : BOOLEAN, seq : 0..MaxJoins, left : SUBSET Algs, conn : BOOLEAN]
SentFrames == [f : Frames, alg : Algs, heard : BOOLEAN]

Has(b, name) == \E j \in 1..Len(b) : b[j].m = name
Starts(b) == {i \in 1..Len(b) : b[i].m = "START"}

\* The starts in the box are in order, and none is of a join that has begun.
StartsInOrder(b) == \A i, j \in Starts(b) : i < j => b[i].seq < b[j].seq
StartsAhead(r, b, a) ==
  \A i \in Starts(b) : b[i].seq <= a.seq /\ (r.used => r.seq < b[i].seq)
NoneAhead(r, a) == r.used => r.seq <= a.seq
\* A join of which AIS knows no more will be aborted, and so will one not begun.
Wanted(r, b, a, u) ==
  r.seq \notin u => (a.join /\ r.seq = a.seq) \/ Has(b, "SAA_ABORT")
StartsWanted(b, a, u) ==
  \A i \in Starts(b) : b[i].seq \notin u =>
    \/ a.join /\ a.seq = b[i].seq
    \/ \E j \in 1..Len(b) : i < j /\ b[j].m = "SAA_ABORT"
\* AIS neither joins nor is connected while an abort is on its way.
NoAbort(b, a) == a.join \/ a.conn => ~Has(b, "SAA_ABORT")
Told(b, a, g) == g = "told" => (~a.join /\ ~a.conn) \/ Has(b, "AIS_ABORT")

\* The box and AIS, for a record on which SAA is at work.
AtWork(r, b, a, u, g) ==
  /\ r \in Records /\ r.used /\ b \in Seq(SaaMessages) /\ a \in AisStates
  /\ StartsInOrder(b) /\ StartsAhead(r, b, a) /\ NoneAhead(r, a)
  /\ Wanted(r, b, a, u) /\ StartsWanted(b, a, u)
  /\ NoAbort(b, a) /\ Told(b, a, g) /\ ~a.conn

Active(r) == r.used /\ r.aa \in SendStates \cup WaitStates
Its(r, d) == r.used /\ r.aa = Sending[d.f] /\ (d.f = "ASSOC1" \/ d.alg = r.alg)
Moves(r, t, q) ==
  /\ r.aa \in WaitStates => t = "resp"
  /\ r.aa \in SendStates => t = "req" \/ \E i \in 1..Len(q) : Its(r, q[i])
Connected(r, b, a, g) ==
  a.conn => /\ ~a.join /\ r.used /\ ~Active(r) /\ r.seq = a.seq /\ Starts(b) = {}
            /\ g = "no" => r.sta = 3

\* The invariant, of any step of SAA and of the state.
Box(r, b, a, u, g) ==
  /\ r \in Records /\ b \in Seq(SaaMessages) /\ a \in AisStates
  /\ StartsInOrder(b) /\ StartsAhead(r, b, a) /\ NoneAhead(r, a)
  /\ Active(r) => Wanted(r, b, a, u)
  /\ StartsWanted(b, a, u) /\ NoAbort(b, a) /\ Told(b, a, g) /\ Connected(r, b, a, g)
Work(r, t, q, u) ==
  /\ t \in {"none", "req", "resp"} /\ q \in Seq(SentFrames)
  /\ t # "none" => r.used
  /\ Active(r) /\ r.seq \notin u => Moves(r, t, q)
Rest ==
  /\ air \in Seq(Answers) /\ short \in 0..MaxShort /\ leaves \in 0..MaxLeaves
  /\ untold \subseteq 0..MaxJoins /\ gone \in {"no", "told", "untold"}
SaaInv == Box(rec, box, ais, untold, gone) /\ Work(rec, saaTimer, tx, untold) /\ Rest

\* States of sending, of waiting and others are different.
LEMMA StatesDiffer ==
  /\ SendStates = {"SEND_AUTH1", "SEND_AUTH3", "SEND_ASSOC1"}
  /\ WaitStates = {"WAIT_AUTH2", "WAIT_AUTH4", "WAIT_ASSOC2"}
  /\ Sending["AUTH1"] = "SEND_AUTH1" /\ Sending["AUTH3"] = "SEND_AUTH3"
  /\ Sending["ASSOC1"] = "SEND_ASSOC1"
  /\ Waiting["AUTH1"] = "WAIT_AUTH2" /\ Waiting["AUTH3"] = "WAIT_AUTH4"
  /\ Waiting["ASSOC1"] = "WAIT_ASSOC2"
BY DEF SendStates, WaitStates, Sending, Waiting, Frames

\* A message is known by its name.
LEMMA StartSeq ==
  ASSUME NEW b \in Seq(SaaMessages), NEW i \in Starts(b)
  PROVE  i \in 1..Len(b) /\ b[i].seq \in 1..MaxJoins
<1>1. i \in 1..Len(b) /\ b[i] \in SaaMessages /\ b[i].m = "START"
  BY ElementOfSeq DEF Starts
<1>2. b[i] \in [m : {"START"}, seq : 1..MaxJoins]
  BY <1>1 DEF SaaMessages
<1> QED BY <1>1, <1>2

\* A message behind a box.
LEMMA BoxAndOne ==
  ASSUME NEW b \in Seq(SaaMessages), NEW x \in SaaMessages, NEW c, c = Append(b, x)
  PROVE  /\ c \in Seq(SaaMessages) /\ Len(b) \in Nat /\ Len(c) = Len(b) + 1
         /\ \A i \in 1..Len(b) : c[i] = b[i]
         /\ c[Len(c)] = x
         /\ \A name : Has(c, name) <=> Has(b, name) \/ x.m = name
         /\ x.m # "START" => Starts(c) = Starts(b)
         /\ \A i \in Starts(c) : i # Len(c) => i \in Starts(b)
         /\ \A i \in Starts(b) : i \in Starts(c) /\ i < Len(c)
<1>1. /\ c \in Seq(SaaMessages) /\ Len(b) \in Nat /\ Len(c) = Len(b) + 1
      /\ \A i \in 1..Len(b) : c[i] = b[i]
      /\ c[Len(c)] = x
  BY AppendProperties, LenProperties
<1>2. \A name : Has(c, name) <=> Has(b, name) \/ x.m = name
  BY <1>1 DEF Has
<1>3. x.m # "START" => Starts(c) = Starts(b)
  BY <1>1 DEF Starts
<1>4. \A i \in Starts(c) : i # Len(c) => i \in Starts(b)
  BY <1>1 DEF Starts
<1>5. \A i \in Starts(b) : i \in Starts(c) /\ i < Len(c)
  BY <1>1 DEF Starts
<1> QED BY <1>1, <1>2, <1>3, <1>4, <1>5

\* Only the last message of the longer box can be a new start.
LEMMA StartsAndOne ==
  ASSUME NEW b \in Seq(SaaMessages), NEW x \in SaaMessages, NEW c, c = Append(b, x)
  PROVE  \A i \in Starts(c) : i # Len(c) => i \in Starts(b)
<1>1. Len(b) \in Nat /\ Len(c) = Len(b) + 1 /\ \A i \in 1..Len(b) : c[i] = b[i]
  BY AppendProperties, LenProperties
<1> QED BY ONLY <1>1 DEF Starts

\* The names in the longer box are those of the shorter one and the new one.
LEMMA NamesAndOne ==
  ASSUME NEW b \in Seq(SaaMessages), NEW x \in SaaMessages, NEW c, c = Append(b, x)
  PROVE  \A name : Has(c, name) <=> Has(b, name) \/ x.m = name
<1>1. /\ Len(b) \in Nat /\ Len(c) = Len(b) + 1
      /\ \A i \in 1..Len(b) : c[i] = b[i]
      /\ c[Len(c)] = x
  BY AppendProperties, LenProperties
<1> QED BY ONLY <1>1 DEF Has

\* A box without its first message.
LEMMA BoxButOne ==
  ASSUME NEW b \in Seq(SaaMessages), b # <<>>, NEW c, c = Tail(b)
  PROVE  /\ c \in Seq(SaaMessages) /\ Len(b) \in Nat /\ Len(b) > 0 /\ Len(c) = Len(b) - 1
         /\ \A i \in 1..Len(c) : i + 1 \in 1..Len(b) /\ c[i] = b[i + 1]
         /\ \A i \in 1..Len(b) : i = 1 \/ (i - 1 \in 1..Len(c) /\ c[i - 1] = b[i])
         /\ Head(b) = b[1] /\ b[1] \in SaaMessages
         /\ \A i \in Starts(c) : i + 1 \in Starts(b) /\ c[i] = b[i + 1]
         /\ \A name : Has(c, name) => Has(b, name)
         /\ \A name : Has(b, name) => Has(c, name) \/ Head(b).m = name
<1>1. /\ c \in Seq(SaaMessages) /\ Len(b) \in Nat /\ Len(b) > 0 /\ Len(c) = Len(b) - 1
      /\ \A i \in 1..Len(c) : c[i] = b[i + 1]
      /\ Head(b) = b[1] /\ b[1] \in SaaMessages
  BY HeadTailProperties, LenProperties, EmptySeq, ElementOfSeq
<1>2. \A i \in 1..Len(c) : i + 1 \in 1..Len(b) /\ c[i] = b[i + 1]
  BY <1>1
<1>3. \A i \in 1..Len(b) : i = 1 \/ (i - 1 \in 1..Len(c) /\ c[i - 1] = b[i])
  <2> TAKE i \in 1..Len(b)
  <2> SUFFICES ASSUME i # 1 PROVE i - 1 \in 1..Len(c) /\ c[i - 1] = b[i]
    OBVIOUS
  <2>1. i - 1 \in 1..Len(c) /\ (i - 1) + 1 = i
    BY <1>1
  <2> QED BY <2>1, <1>2
<1>4. \A i \in Starts(c) : i + 1 \in Starts(b) /\ c[i] = b[i + 1]
  BY <1>2 DEF Starts
<1>5. \A name : Has(c, name) => Has(b, name)
  BY <1>2 DEF Has
<1>6. \A name : Has(b, name) => Has(c, name) \/ Head(b).m = name
  <2> TAKE name
  <2> SUFFICES ASSUME Has(b, name), Head(b).m # name PROVE Has(c, name)
    OBVIOUS
  <2> PICK j \in 1..Len(b) : b[j].m = name
    BY DEF Has
  <2>1. j # 1
    BY <1>1
  <2> QED BY <2>1, <1>3 DEF Has
<1> QED BY <1>1, <1>2, <1>3, <1>4, <1>5, <1>6

\* While the latest join of AIS is at work no start is in the box.
LEMMA NoStarts ==
  ASSUME NEW r, NEW b \in Seq(SaaMessages), NEW a, r \in Records, a \in AisStates,
         r.used, r.seq = a.seq, StartsAhead(r, b, a)
  PROVE  Starts(b) = {}
<1> SUFFICES ASSUME NEW i \in Starts(b) PROVE FALSE
  BY DEF Starts
<1>1. b[i].seq \in 1..MaxJoins
  BY StartSeq
<1>2. a.seq \in 0..MaxJoins
  BY DEF AisStates
<1>3. b[i].seq <= a.seq /\ r.seq < b[i].seq
  BY DEF StartsAhead
<1> QED BY <1>1, <1>2, <1>3, SaaFsmAssumption

\* What has been done when SAA is through with a join, or stops for want of
\* memory.
IdleEnd ==
  /\ Box(rec', box', ais', untold', gone')
  /\ saaTimer' \in {"none", "req", "resp"}
  /\ saaTimer' # "none" => rec'.used
  /\ ~Active(rec') /\ short' \in 0..MaxShort

LEMMA ShortType == \A n \in Nat : short \in 0..MaxShort /\ Short(n) => short' \in 0..MaxShort
BY SaaFsmAssumption DEF Short

LEMMA AtWorkIdle ==
  ASSUME NEW r, NEW b, NEW a, NEW u, NEW g, AtWork(r, b, a, u, g), ~Active(r)
  PROVE  Box(r, b, a, u, g)
BY DEF AtWork, Box, Connected

\* The end of a join told to AIS.
LEMMA JoinCompleteSound ==
  ASSUME NEW r, NEW ok \in BOOLEAN, NEW t \in {"none", "req", "resp"}, NEW b, NEW n \in Nat,
         AtWork(r, b, ais, untold, gone), r.aa = "IDLE", short \in 0..MaxShort,
         JoinComplete(r, ok, t, b, n), UNCHANGED <<untold, gone>>
  PROVE  IdleEnd
<1> USE StatesDiffer
<1>a. r \in Records /\ r.used /\ b \in Seq(SaaMessages) /\ ais \in AisStates
  BY DEF AtWork
<1>s. short' \in 0..MaxShort
  BY ShortType, n + 1 \in Nat DEF JoinComplete
<1>1. CASE rec' = r /\ saaTimer' = t /\ box' = b /\ UNCHANGED ais
  <2>1. ~Active(r)
    BY DEF Active
  <2>2. Box(rec', box', ais', untold', gone')
    BY <1>1, <2>1, AtWorkIdle
  <2> QED BY <1>a, <1>1, <1>s, <2>1, <2>2 DEF IdleEnd
<1>2. CASE /\ ais.join /\ ais.seq = r.seq /\ ok
           /\ rec' = [r EXCEPT !.sta = 3] /\ saaTimer' = t /\ box' = b
           /\ ais' = [ais EXCEPT !.join = FALSE, !.conn = TRUE]
  <2>1. Starts(b) = {}
    BY <1>2, <1>a, NoStarts DEF AtWork
  <2>2. /\ rec' \in Records /\ rec'.used /\ rec'.sta = 3 /\ rec'.aa = "IDLE"
        /\ rec'.seq = r.seq
    BY <1>2, <1>a DEF Records
  <2>3. ais' \in AisStates /\ ~ais'.join /\ ais'.conn /\ ais'.seq = ais.seq
    BY <1>2, <1>a DEF AisStates
  <2>4. ~Active(rec')
    BY <2>2 DEF Active
  <2>5. StartsInOrder(b) /\ StartsAhead(rec', b, ais') /\ StartsWanted(b, ais', untold)
    BY <2>1 DEF StartsInOrder, StartsAhead, StartsWanted
  <2>6. NoneAhead(rec', ais')
    BY <2>2, <2>3 DEF AtWork, NoneAhead
  <2>7. NoAbort(b, ais')
    BY <1>2 DEF AtWork, NoAbort
  <2>8. Told(b, ais', gone)
    BY <1>2 DEF AtWork, Told
  <2>9. Connected(rec', b, ais', gone)
    BY <1>2, <2>1, <2>2, <2>3, <2>4 DEF Connected
  <2> QED BY <1>2, <1>a, <1>s, <2>2, <2>3, <2>4, <2>5, <2>6, <2>7, <2>8, <2>9 DEF IdleEnd, Box
<1>3. CASE /\ ais.join /\ ais.seq = r.seq /\ "shared" \in ais.left /\ ais.seq < MaxJoins
           /\ rec' = [r EXCEPT !.alg = "shared"] /\ saaTimer' = t
           /\ box' = Append(b, Start(ais.seq + 1))
           /\ ais' = [ais EXCEPT !.left = {}, !.seq = @ + 1]
  <2>1. Starts(b) = {}
    BY <1>3, <1>a, NoStarts DEF AtWork
  <2>2. /\ ais.seq \in 0..MaxJoins /\ ais.seq + 1 \in 1..MaxJoins /\ ais.left \subseteq Algs
        /\ "shared" \in Algs /\ ais.seq + 1 \in 0..MaxJoins
    BY <1>3, <1>a, SaaFsmAssumption DEF AisStates
  <2>3. /\ rec' \in Records /\ rec'.used /\ rec'.aa = "IDLE" /\ rec'.seq = r.seq
    BY <1>3, <1>a, <2>2 DEF Records
  <2>4. ais' \in AisStates /\ ais'.join /\ ~ais'.conn /\ ais'.seq = ais.seq + 1
    <3>1. ais'.join = ais.join /\ ais'.conn = ais.conn /\ ais'.seq = ais.seq + 1
          /\ ais'.left = {}
      BY <1>3, <1>a DEF AisStates
    <3>2. ais' \in AisStates
      BY <1>3, <1>a, <2>2 DEF AisStates
    <3> QED BY <3>1, <3>2, <1>3 DEF AtWork
  <2>5. Start(ais.seq + 1) \in SaaMessages /\ Start(ais.seq + 1).m = "START"
        /\ Start(ais.seq + 1).seq = ais.seq + 1
    BY <2>2 DEF Start, SaaMessages
  <2>6. /\ box' \in Seq(SaaMessages) /\ (\A i \in Starts(box') : i = Len(box'))
        /\ box'[Len(box')].seq = ais.seq + 1
        /\ \A name : Has(box', name) <=> Has(b, name) \/ "START" = name
    <3> DEFINE x == Start(ais.seq + 1)
    <3>1. x \in SaaMessages /\ x.m = "START" /\ x.seq = ais.seq + 1 /\ box' = Append(b, x)
      BY <1>3, <2>5
    <3> HIDE DEF x
    <3>2. /\ box' \in Seq(SaaMessages) /\ (\A i \in Starts(box') : i \in Starts(b) \/ i = Len(box'))
          /\ box'[Len(box')] = x
          /\ \A name : Has(box', name) <=> Has(b, name) \/ x.m = name
      <4> DEFINE c == Append(b, x)
      <4>1. b \in Seq(SaaMessages) /\ x \in SaaMessages /\ c = Append(b, x) /\ box' = c
        BY <3>1, <1>a
      <4> HIDE DEF c
      <4>2. c \in Seq(SaaMessages) /\ c[Len(c)] = x
        BY <4>1, BoxAndOne
      <4>3. \A name : Has(c, name) <=> Has(b, name) \/ x.m = name
        BY ONLY <4>1, NamesAndOne
      <4>4. \A i \in Starts(c) : i # Len(c) => i \in Starts(b)
        BY ONLY <4>1, StartsAndOne
      <4> QED BY <3>1, <4>1, <4>2, <4>3, <4>4
    <3> QED BY <2>1, <3>1, <3>2
  <2>7. ~Active(rec')
    BY <2>3 DEF Active
  <2>8. StartsInOrder(box')
    BY <2>6 DEF StartsInOrder
  <2>9. StartsAhead(rec', box', ais')
    <3>1. box'[Len(box')].seq <= ais'.seq /\ rec'.seq < box'[Len(box')].seq
      BY <1>3, <2>2, <2>3, <2>4, <2>6
    <3> QED BY <3>1, <2>6 DEF StartsAhead
  <2>10. StartsWanted(box', ais', untold)
    BY <2>4, <2>5, <2>6 DEF StartsWanted
  <2>11. NoneAhead(rec', ais')
    BY <1>3, <2>2, <2>3, <2>4 DEF NoneAhead
  <2>12. NoAbort(box', ais')
    BY <1>3, <2>6 DEF AtWork, NoAbort
  <2>13. Told(box', ais', gone)
    BY <1>3, <2>6 DEF AtWork, Told
  <2>14. Connected(rec', box', ais', gone)
    BY <2>4 DEF Connected
  <2> QED BY <1>3, <1>s, <2>3, <2>4, <2>6, <2>7, <2>8, <2>9, <2>10, <2>11, <2>12, <2>13, <2>14
          DEF IdleEnd, Box
<1>4. CASE /\ ais.join /\ ais.seq = r.seq /\ Free(r) /\ box' = b
           /\ ais' = [ais EXCEPT !.join = FALSE, !.left = {}]
  <2>1. Starts(b) = {}
    BY <1>4, <1>a, NoStarts DEF AtWork
  <2>2. /\ rec' \in Records /\ ~rec'.used
    BY <1>4, <1>a DEF Records, Free
  <2>3. ais' \in AisStates /\ ~ais'.join /\ ~ais'.conn
    <3>1. ais' \in AisStates /\ ~ais'.join /\ ais'.conn = ais.conn
      BY <1>4, <1>a DEF AisStates
    <3> QED BY <3>1 DEF AtWork
  <2>4. ~Active(rec')
    BY <2>2 DEF Active
  <2>5. StartsInOrder(b) /\ StartsAhead(rec', b, ais') /\ StartsWanted(b, ais', untold)
    BY <2>1 DEF StartsInOrder, StartsAhead, StartsWanted
  <2>6. NoneAhead(rec', ais') /\ NoAbort(b, ais') /\ Told(b, ais', gone)
        /\ Connected(rec', b, ais', gone)
    BY <2>2, <2>3 DEF NoneAhead, NoAbort, Told, Connected
  <2> QED BY <1>4, <1>a, <1>s, <2>2, <2>3, <2>4, <2>5, <2>6 DEF IdleEnd, Box, Free
<1> QED BY <1>1, <1>2, <1>3, <1>4 DEF JoinComplete

\* SAA is through with a join, or has no memory to tell AIS so.
LEMMA EnterIdleSound ==
  ASSUME NEW r, NEW ok \in BOOLEAN, NEW t \in {"none", "req", "resp"}, NEW b, NEW n \in Nat,
         AtWork(r, b, ais, untold, gone), short \in 0..MaxShort,
         EnterIdle(r, ok, t, b, n), UNCHANGED <<untold, gone>>
  PROVE  IdleEnd
<1> USE StatesDiffer
<1>1. CASE JoinComplete([r EXCEPT !.aa = "IDLE"], ok, t, b, n)
  <2> DEFINE s == [r EXCEPT !.aa = "IDLE"]
  <2>1. s \in Records /\ s.used /\ s.seq = r.seq /\ s.aa = "IDLE"
    BY DEF AtWork, Records
  <2>2. AtWork(s, b, ais, untold, gone)
    BY <2>1 DEF AtWork, StartsAhead, NoneAhead, Wanted
  <2> HIDE DEF s
  <2> QED BY <1>1, <2>1, <2>2, JoinCompleteSound DEF s
<1>2. CASE /\ Short(n + 1) /\ rec' = [r EXCEPT !.aa = "RESOURCE"] /\ saaTimer' = t
           /\ box' = b /\ UNCHANGED ais
  <2>1. rec' \in Records /\ rec'.used /\ rec'.seq = r.seq /\ rec'.aa = "RESOURCE"
    BY <1>2 DEF AtWork, Records
  <2>2. AtWork(rec', b, ais, untold, gone)
    BY <2>1 DEF AtWork, StartsAhead, NoneAhead, Wanted
  <2>3. ~Active(rec')
    BY <2>1 DEF Active
  <2>4. short' \in 0..MaxShort
    BY <1>2, ShortType, n + 1 \in Nat
  <2>5. Box(rec', box', ais', untold', gone')
    BY <1>2, <2>2, <2>3, AtWorkIdle
  <2> QED BY <1>2, <2>1, <2>3, <2>4, <2>5 DEF IdleEnd
<1> QED BY <1>1, <1>2 DEF EnterIdle

\* What has been done when SAA is through, or has sent a frame.
SendEnd ==
  /\ Box(rec', box', ais', untold', gone') /\ Work(rec', saaTimer', tx', untold')
  /\ short' \in 0..MaxShort

LEMMA IdleIsEnd ==
  ASSUME IdleEnd, tx' \in Seq(SentFrames) PROVE SendEnd
BY DEF IdleEnd, SendEnd, Work

LEMMA EnterSendSound ==
  ASSUME NEW f \in Frames, NEW r, NEW t \in {"none", "req", "resp"}, NEW b, NEW q \in Seq(SentFrames),
         AtWork(r, b, ais, untold, gone), short \in 0..MaxShort,
         EnterSend(f, r, t, b, q), UNCHANGED <<untold, gone>>
  PROVE  SendEnd
<1> USE StatesDiffer
<1> DEFINE s == [r EXCEPT !.aa = Sending[f], !.sta = IF f = "AUTH1" THEN 1 ELSE @]
<1>a. r \in Records /\ r.used /\ b \in Seq(SaaMessages) /\ r.retry \in 0..RetryLimit
      /\ r.alg \in Algs
  BY DEF AtWork, Records
<1>b. Sending[f] \in SendStates
  BY DEF SendStates
<1>c. \A k \in 0..RetryLimit :
        /\ Tried(s, k) \in Records /\ Tried(s, k).used /\ Tried(s, k).seq = r.seq
        /\ Tried(s, k).aa = Sending[f] /\ Tried(s, k).alg = r.alg
  <2>1. s \in Records /\ s.used /\ s.seq = r.seq /\ s.aa = Sending[f] /\ s.alg = r.alg
    <3>1. (IF f = "AUTH1" THEN 1 ELSE r.sta) \in 1..3
      BY <1>a DEF Records
    <3> QED BY <1>a, <1>b, <3>1 DEF Records
  <2> HIDE DEF s
  <2> QED BY <2>1 DEF Records, Tried
<1>d. \A k \in 0..RetryLimit : AtWork(Tried(s, k), b, ais, untold, gone)
  BY <1>c DEF AtWork, StartsAhead, NoneAhead, Wanted
<1> HIDE DEF s
<1>1. CASE \E k \in r.retry + 1..RetryLimit :
             /\ rec' = Tried(s, k)
             /\ \/ /\ Short(k - r.retry - 1) /\ saaTimer' = t
                   /\ tx' = Append(q, [f |-> f, alg |-> r.alg, heard |-> FALSE])
                \/ Short(k - r.retry) /\ saaTimer' = "req" /\ tx' = q
             /\ box' = b /\ UNCHANGED ais
  <2> PICK k \in r.retry + 1..RetryLimit :
             /\ rec' = Tried(s, k)
             /\ \/ /\ Short(k - r.retry - 1) /\ saaTimer' = t
                   /\ tx' = Append(q, [f |-> f, alg |-> r.alg, heard |-> FALSE])
                \/ Short(k - r.retry) /\ saaTimer' = "req" /\ tx' = q
             /\ box' = b /\ UNCHANGED ais
    BY <1>1
  <2> DEFINE d == [f |-> f, alg |-> r.alg, heard |-> FALSE]
  <2>1. k \in 0..RetryLimit /\ k - r.retry \in Nat /\ k - r.retry - 1 \in Nat
    BY <1>a, SaaFsmAssumption
  <2>2. short' \in 0..MaxShort
    BY <2>1, ShortType
  <2>3. /\ AtWork(rec', box', ais', untold', gone')
        /\ rec' \in Records /\ rec'.used /\ rec'.aa = Sending[f] /\ rec'.alg = r.alg
    BY <2>1, <1>c, <1>d
  <2>4. Box(rec', box', ais', untold', gone')
    BY <2>3 DEF AtWork, Box, Connected
  <2>5. rec'.aa \notin WaitStates
    BY <1>b, <2>3
  <2>6. tx' \in Seq(SentFrames) /\ Moves(rec', saaTimer', tx')
    <3>1. CASE tx' = Append(q, d)
      <4>1. d \in SentFrames
        BY <1>a DEF SentFrames
      <4>2. tx' \in Seq(SentFrames) /\ Len(tx') \in 1..Len(tx') /\ tx'[Len(tx')] = d
        <5>1. Len(q) \in Nat /\ tx' \in Seq(SentFrames) /\ Len(tx') = Len(q) + 1 /\ tx'[Len(q) + 1] = d
          BY <3>1, <4>1, AppendProperties, LenProperties
        <5> QED BY <5>1
      <4>3. Its(rec', d)
        BY <2>3 DEF Its
      <4> QED BY <4>2, <4>3, <2>5 DEF Moves
    <3>2. CASE saaTimer' = "req" /\ tx' = q
      BY <3>2, <2>5 DEF Moves
    <3> QED BY <3>1, <3>2
  <2>7. saaTimer' \in {"none", "req", "resp"}
    OBVIOUS
  <2> QED BY <2>2, <2>3, <2>4, <2>6, <2>7 DEF SendEnd, Work
<1>2. CASE /\ EnterIdle(Tried(s, RetryLimit), FALSE, t, b, RetryLimit - r.retry) /\ tx' = q
  <2>1. RetryLimit - r.retry \in Nat /\ RetryLimit \in 0..RetryLimit
    BY <1>a, SaaFsmAssumption
  <2>2. IdleEnd
    BY <1>2, <2>1, <1>d, EnterIdleSound
  <2> QED BY <1>2, <2>2, IdleIsEnd
<1> QED BY <1>1, <1>2 DEF EnterSend, s

\* What stays when the first message is taken out.
LEMMA TailKeeps ==
  ASSUME NEW b \in Seq(SaaMessages), b # <<>>, NEW r, NEW a, NEW u, NEW g
  PROVE  /\ Tail(b) \in Seq(SaaMessages)
         /\ StartsInOrder(b) => StartsInOrder(Tail(b))
         /\ StartsAhead(r, b, a) => StartsAhead(r, Tail(b), a)
         /\ StartsWanted(b, a, u) => StartsWanted(Tail(b), a, u)
         /\ NoAbort(b, a) => NoAbort(Tail(b), a)
         /\ Head(b).m # "SAA_ABORT" /\ Wanted(r, b, a, u) => Wanted(r, Tail(b), a, u)
         /\ Head(b).m # "AIS_ABORT" /\ Told(b, a, g) => Told(Tail(b), a, g)
         /\ Starts(b) = {} => Starts(Tail(b)) = {}
<1> DEFINE c == Tail(b)
<1>a. c = Tail(b)
  OBVIOUS
<1> HIDE DEF c
<1>1. /\ c \in Seq(SaaMessages) /\ Len(b) \in Nat /\ Len(b) > 0 /\ Len(c) = Len(b) - 1
      /\ \A i \in 1..Len(c) : i + 1 \in 1..Len(b) /\ c[i] = b[i + 1]
      /\ \A i \in 1..Len(b) : i = 1 \/ (i - 1 \in 1..Len(c) /\ c[i - 1] = b[i])
  BY <1>a, BoxButOne
<1>2. \A i \in Starts(c) : i \in 1..Len(c) /\ i + 1 \in Starts(b) /\ c[i] = b[i + 1]
  BY <1>1 DEF Starts
<1>3. \A name : Has(c, name) => Has(b, name)
  BY <1>a, BoxButOne
<1>4. \A name : Has(b, name) => Has(c, name) \/ Head(b).m = name
  BY <1>a, BoxButOne
<1>5. StartsInOrder(b) => StartsInOrder(c)
  <2> SUFFICES ASSUME StartsInOrder(b), NEW i \in Starts(c), NEW j \in Starts(c), i < j
               PROVE  c[i].seq < c[j].seq
    BY DEF StartsInOrder
  <2>1. i + 1 \in Starts(b) /\ j + 1 \in Starts(b) /\ i + 1 < j + 1
    BY <1>1, <1>2
  <2>2. b[i + 1].seq < b[j + 1].seq
    BY <2>1 DEF StartsInOrder
  <2> QED BY <2>2, <1>2
<1>6. StartsAhead(r, b, a) => StartsAhead(r, c, a)
  BY <1>2 DEF StartsAhead
<1>7. StartsWanted(b, a, u) => StartsWanted(c, a, u)
  <2> SUFFICES ASSUME StartsWanted(b, a, u), NEW i \in Starts(c), c[i].seq \notin u,
                      ~(a.join /\ a.seq = c[i].seq)
               PROVE  \E j \in 1..Len(c) : i < j /\ c[j].m = "SAA_ABORT"
    BY DEF StartsWanted
  <2>1. i \in 1..Len(c) /\ i + 1 \in Starts(b) /\ c[i] = b[i + 1]
    BY <1>2
  <2>2. \E j \in 1..Len(b) : i + 1 < j /\ b[j].m = "SAA_ABORT"
    BY <2>1 DEF StartsWanted
  <2> PICK j \in 1..Len(b) : i + 1 < j /\ b[j].m = "SAA_ABORT"
    BY <2>2
  <2>3. j # 1 /\ i < j - 1
    BY <2>1, <1>1
  <2> QED BY <2>3, <1>1
<1>8. NoAbort(b, a) => NoAbort(c, a)
  BY <1>3 DEF NoAbort
<1>9. Head(b).m # "SAA_ABORT" /\ Wanted(r, b, a, u) => Wanted(r, c, a, u)
  BY <1>4 DEF Wanted
<1>10. Head(b).m # "AIS_ABORT" /\ Told(b, a, g) => Told(c, a, g)
  BY <1>4 DEF Told
<1>11. Starts(b) = {} => Starts(c) = {}
  BY <1>2
<1> QED BY <1>1, <1>5, <1>6, <1>7, <1>8, <1>9, <1>10, <1>11 DEF c

\* What stays when the abort of a join, or a request of AIS, is put behind.
LEMMA AbortKeeps ==
  ASSUME NEW b \in Seq(SaaMessages), NEW x \in SaaMessages, x.m # "START",
         NEW r, NEW a, NEW u, NEW g
  PROVE  /\ Append(b, x) \in Seq(SaaMessages)
         /\ Starts(Append(b, x)) = Starts(b)
         /\ \A name : Has(Append(b, x), name) <=> Has(b, name) \/ x.m = name
         /\ StartsInOrder(b) => StartsInOrder(Append(b, x))
         /\ StartsAhead(r, b, a) => StartsAhead(r, Append(b, x), a)
         /\ StartsWanted(b, a, u) => StartsWanted(Append(b, x), a, u)
         /\ x.m = "SAA_ABORT" => StartsWanted(Append(b, x), a, u)
         /\ x.m # "SAA_ABORT" /\ NoAbort(b, a) => NoAbort(Append(b, x), a)
         /\ Wanted(r, b, a, u) => Wanted(r, Append(b, x), a, u)
         /\ x.m = "SAA_ABORT" => Wanted(r, Append(b, x), a, u)
         /\ Told(b, a, g) => Told(Append(b, x), a, g)
         /\ x.m = "AIS_ABORT" => Told(Append(b, x), a, g)
<1> DEFINE c == Append(b, x)
<1>a. c = Append(b, x)
  OBVIOUS
<1> HIDE DEF c
<1>1. /\ c \in Seq(SaaMessages) /\ Len(b) \in Nat /\ Len(c) = Len(b) + 1
      /\ \A i \in 1..Len(b) : c[i] = b[i]
      /\ c[Len(c)] = x
  BY <1>a, BoxAndOne
<1>2. Starts(c) = Starts(b)
  BY <1>1 DEF Starts
<1>3. \A i \in Starts(b) : i \in 1..Len(b) /\ i < Len(c) /\ c[i] = b[i]
  BY <1>1 DEF Starts
<1>4. \A name : Has(c, name) <=> Has(b, name) \/ x.m = name
  BY <1>1 DEF Has
<1>5. StartsInOrder(b) => StartsInOrder(c)
  BY <1>2, <1>3 DEF StartsInOrder
<1>6. StartsAhead(r, b, a) => StartsAhead(r, c, a)
  BY <1>2, <1>3 DEF StartsAhead
<1>7. \A i \in 1..Len(b) : i \in 1..Len(c)
  BY <1>1
<1>8. StartsWanted(b, a, u) => StartsWanted(c, a, u)
  BY <1>1, <1>2, <1>3, <1>7 DEF StartsWanted
<1>9. x.m = "SAA_ABORT" => StartsWanted(c, a, u)
  <2>1. Len(c) \in 1..Len(c)
    BY <1>1
  <2> QED BY <2>1, <1>1, <1>2, <1>3 DEF StartsWanted
<1>10. x.m # "SAA_ABORT" /\ NoAbort(b, a) => NoAbort(c, a)
  BY <1>4 DEF NoAbort
<1>11. /\ Wanted(r, b, a, u) => Wanted(r, c, a, u)
       /\ x.m = "SAA_ABORT" => Wanted(r, c, a, u)
  BY <1>4 DEF Wanted
<1>12. /\ Told(b, a, g) => Told(c, a, g)
       /\ x.m = "AIS_ABORT" => Told(c, a, g)
  BY <1>4 DEF Told
<1> QED BY <1>1, <1>2, <1>4, <1>5, <1>6, <1>8, <1>9, <1>10, <1>11, <1>12 DEF c

\* The record of a join under way is one that SAA is at work on.
LEMMA ActiveAtWork ==
  ASSUME SaaInv, Active(rec)
  PROVE  AtWork(rec, box, ais, untold, gone)
BY DEF SaaInv, Box, Connected, AtWork, Active

LEMMA SaaInitial == SaaInit => SaaInv
<1> SUFFICES ASSUME SaaInit PROVE SaaInv
  OBVIOUS
<1> USE StatesDiffer, SaaFsmAssumption
<1>1. (CHOOSE a \in Algs : TRUE) \in Algs
  OBVIOUS
<1>2. rec \in Records /\ ~rec.used
  BY <1>1 DEF SaaInit, Records
<1>3. ais \in AisStates /\ ~ais.join /\ ~ais.conn /\ box \in Seq(SaaMessages)
  BY DEF SaaInit, AisStates
<1>4. \A name : ~Has(box, name)
  BY DEF SaaInit, Has
<1>5. Starts(box) = {}
  BY DEF SaaInit, Starts
<1>6. Box(rec, box, ais, untold, gone)
  BY <1>2, <1>3, <1>4, <1>5
     DEF Box, StartsInOrder, StartsAhead, NoneAhead, Active, StartsWanted, NoAbort, Told, Connected
<1>7. Work(rec, saaTimer, tx, untold)
  BY <1>2 DEF SaaInit, Work, Active
<1>8. Rest
  BY DEF SaaInit, Rest
<1> QED BY <1>6, <1>7, <1>8 DEF SaaInv

\* What a step of SAA leaves alone.
LEMMA SendIsStep ==
  ASSUME SaaInv, SendEnd, air' \in Seq(Answers), UNCHANGED <<leaves, untold, gone>>
  PROVE  SaaInv'
BY DEF SaaInv, SendEnd, Rest, Box, Work, StartsInOrder, StartsAhead, NoneAhead, Wanted,
       StartsWanted, NoAbort, Told, Connected, Has, Starts, Active, Its, Moves

\* A start begins its join, whatever the record was at.
LEMMA StartStep == ASSUME SaaInv, RunEventStart PROVE SaaInv'
<1> USE StatesDiffer
<1>a. /\ Box(rec, box, ais, untold, gone) /\ Work(rec, saaTimer, tx, untold)
      /\ box # <<>> /\ Head(box).m = "START" /\ box \in Seq(SaaMessages) /\ rec \in Records
      /\ short \in 0..MaxShort /\ air \in Seq(Answers)
  BY DEF SaaInv, RunEventStart, SaaRecv, Box, Rest
<1>u. UNCHANGED <<air, leaves, untold, gone>>
  BY DEF RunEventStart
<1>b. /\ Tail(box) \in Seq(SaaMessages) /\ StartsInOrder(Tail(box))
      /\ StartsWanted(Tail(box), ais, untold) /\ NoAbort(Tail(box), ais) /\ Told(Tail(box), ais, gone)
  BY <1>a, TailKeeps DEF Box
<1>1. CASE rec.used
  <2> DEFINE r == [rec EXCEPT !.aa = "IDLE", !.retry = 0, !.seq = Head(box).seq]
             b == Tail(box)
  <2>1. EnterSend(IF rec.sta = 1 THEN "AUTH1" ELSE "ASSOC1", r, "none", b, tx)
    BY <1>1 DEF RunEventStart
  <2>2. (IF rec.sta = 1 THEN "AUTH1" ELSE "ASSOC1") \in Frames
    BY DEF Frames
  <2>3. /\ Len(box) \in Nat /\ 1 \in Starts(box) /\ Head(box) = box[1]
        /\ \A i \in Starts(b) : i \in 1..Len(b) /\ i + 1 \in Starts(box) /\ 1 < i + 1 /\ b[i] = box[i + 1]
        /\ \A j \in 1..Len(box) : 1 < j => j - 1 \in 1..Len(b) /\ b[j - 1] = box[j]
    <3>1. /\ Len(box) \in Nat /\ Len(box) > 0 /\ Head(box) = box[1]
          /\ \A i \in 1..Len(box) : i = 1 \/ (i - 1 \in 1..Len(b) /\ b[i - 1] = box[i])
          /\ \A i \in Starts(b) : i + 1 \in Starts(box) /\ b[i] = box[i + 1]
      BY <1>a, BoxButOne, ZenonT(40)
    <3>2. \A i \in Starts(b) : i \in 1..Len(b) /\ 1 < i + 1
      BY DEF Starts
    <3>3. 1 \in Starts(box)
      BY <3>1, <1>a DEF Starts
    <3> QED BY <3>1, <3>2, <3>3
  <2>4. Head(box).seq \in 1..MaxJoins /\ Head(box).seq <= ais.seq
    <3>1. box[1].seq \in 1..MaxJoins
      BY <1>a, <2>3, StartSeq
    <3> QED BY <3>1, <1>a, <2>3 DEF Box, StartsAhead
  <2>5. r \in Records /\ r.used /\ r.seq = Head(box).seq
    <3>1. 0 \in 0..RetryLimit /\ Head(box).seq \in 0..MaxJoins
      BY <2>4, SaaFsmAssumption
    <3> QED BY <1>a, <1>1, <3>1 DEF Records
  <2>6. ais \in AisStates /\ ~ais.conn
    BY <1>a, <2>3 DEF Box, Connected
  <2> HIDE DEF r, b
  <2>7. StartsAhead(r, b, ais)
    <3> SUFFICES ASSUME NEW i \in Starts(b)
                 PROVE  b[i].seq <= ais.seq /\ r.seq < b[i].seq
      BY DEF StartsAhead
    <3>1. box[i + 1].seq <= ais.seq /\ box[1].seq < box[i + 1].seq
      BY <1>a, <2>3 DEF Box, StartsAhead, StartsInOrder
    <3> QED BY <3>1, <2>3, <2>5
  <2>8. NoneAhead(r, ais)
    BY <2>4, <2>5 DEF NoneAhead
  <2>9. Wanted(r, b, ais, untold)
    <3> SUFFICES ASSUME r.seq \notin untold, ~(ais.join /\ r.seq = ais.seq)
                 PROVE  Has(b, "SAA_ABORT")
      BY DEF Wanted
    <3>1. \E j \in 1..Len(box) : 1 < j /\ box[j].m = "SAA_ABORT"
      BY <1>a, <2>3, <2>5 DEF Box, StartsWanted
    <3> PICK j \in 1..Len(box) : 1 < j /\ box[j].m = "SAA_ABORT"
      BY <3>1
    <3> QED BY <2>3 DEF Has
  <2>10. AtWork(r, b, ais, untold, gone)
    BY <1>b, <2>5, <2>6, <2>7, <2>8, <2>9 DEF AtWork, b
  <2>11. tx \in Seq(SentFrames)
    BY <1>a DEF Work
  <2>12. SendEnd
    BY <1>a, <1>u, <2>1, <2>2, <2>10, <2>11, EnterSendSound
  <2> QED BY <1>a, <1>u, <2>12, SendIsStep
<1>2. CASE ~rec.used
  <2>1. box' = Tail(box) /\ UNCHANGED <<rec, saaTimer, ais, tx, short>>
    BY <1>2 DEF RunEventStart
  <2>2. StartsAhead(rec, Tail(box), ais) /\ (Starts(box) = {} => Starts(Tail(box)) = {})
    BY <1>a, TailKeeps DEF Box
  <2>3. ~Active(rec)
    BY <1>2 DEF Active
  <2>4. Connected(rec, Tail(box), ais, gone)
    BY <1>a, <2>2 DEF Box, Connected
  <2>5. Box(rec, Tail(box), ais, untold, gone)
    BY <1>a, <1>b, <2>2, <2>3, <2>4 DEF Box
  <2>6. SendEnd
    BY <1>a, <1>u, <2>1, <2>5 DEF SendEnd
  <2> QED BY <1>a, <1>u, <2>6, SendIsStep
<1> QED BY <1>1, <1>2

\* The abort frees the record.
LEMMA AbortStep == ASSUME SaaInv, RunEventAbort PROVE SaaInv'
<1>a. /\ Box(rec, box, ais, untold, gone) /\ Work(rec, saaTimer, tx, untold)
      /\ box # <<>> /\ Head(box).m = "SAA_ABORT" /\ box \in Seq(SaaMessages) /\ rec \in Records
      /\ short \in 0..MaxShort /\ air \in Seq(Answers)
  BY DEF SaaInv, RunEventAbort, SaaRecv, Box, Rest
<1>u. box' = Tail(box) /\ saaTimer' = "none" /\ UNCHANGED <<ais, tx, air, short, leaves, untold, gone>>
  BY DEF RunEventAbort, Free
<1>1. rec' \in Records /\ ~rec'.used
  <2>1. 0 \in 0..RetryLimit
    BY SaaFsmAssumption
  <2> QED BY <1>a, <2>1 DEF RunEventAbort, Free, Records
<1>2. /\ Tail(box) \in Seq(SaaMessages) /\ StartsInOrder(Tail(box)) /\ StartsAhead(rec, Tail(box), ais)
      /\ StartsWanted(Tail(box), ais, untold) /\ NoAbort(Tail(box), ais) /\ Told(Tail(box), ais, gone)
  BY <1>a, TailKeeps DEF Box
<1>3. Has(box, "SAA_ABORT")
  BY <1>a, BoxButOne, LenProperties DEF Has
<1>4. ~ais.conn
  BY <1>a, <1>3 DEF Box, NoAbort
<1>5. StartsAhead(rec', Tail(box), ais) /\ NoneAhead(rec', ais) /\ ~Active(rec')
      /\ Connected(rec', Tail(box), ais, gone)
  BY <1>1, <1>2, <1>4 DEF StartsAhead, NoneAhead, Active, Connected
<1>6. Box(rec', box', ais', untold', gone')
  BY <1>a, <1>u, <1>1, <1>2, <1>5 DEF Box
<1>7. Work(rec', saaTimer', tx', untold')
  BY <1>a, <1>u, <1>5 DEF Work
<1>8. SendEnd
  BY <1>a, <1>u, <1>6, <1>7 DEF SendEnd
<1> QED BY <1>a, <1>u, <1>8, SendIsStep

\* A report moves its own frame on, and no other.
LEMMA TxDoneStep == ASSUME SaaInv, RunEventTxDone PROVE SaaInv'
<1> USE StatesDiffer
<1>a. /\ Box(rec, box, ais, untold, gone) /\ Work(rec, saaTimer, tx, untold)
      /\ rec \in Records /\ short \in 0..MaxShort /\ air \in Seq(Answers)
      /\ tx # <<>> /\ tx \in Seq(SentFrames) /\ saaTimer \in {"none", "req", "resp"}
  BY DEF SaaInv, RunEventTxDone, Box, Work, Rest
<1>u. UNCHANGED <<air, leaves, untold, gone>>
  BY DEF RunEventTxDone
<1>b. /\ Head(tx) \in SentFrames /\ Tail(tx) \in Seq(SentFrames)
      /\ \A i \in 1..Len(tx) : tx[i] = Head(tx) \/ (i - 1 \in 1..Len(Tail(tx)) /\ Tail(tx)[i - 1] = tx[i])
  <2>1. /\ Head(tx) \in SentFrames /\ Tail(tx) \in Seq(SentFrames) /\ Len(tx) \in Nat
        /\ Len(Tail(tx)) = Len(tx) - 1 /\ Head(tx) = tx[1]
        /\ \A i \in 1..Len(Tail(tx)) : Tail(tx)[i] = tx[i + 1]
    BY <1>a, HeadTailProperties, LenProperties
  <2>2. \A i \in 1..Len(tx) : tx[i] = Head(tx) \/ (i - 1 \in 1..Len(Tail(tx)) /\ Tail(tx)[i - 1] = tx[i])
    <3> SUFFICES ASSUME NEW i \in 1..Len(tx), i # 1
                 PROVE  i - 1 \in 1..Len(Tail(tx)) /\ Tail(tx)[i - 1] = tx[i]
      BY <2>1
    <3>1. i - 1 \in 1..Len(Tail(tx)) /\ (i - 1) + 1 = i
      BY <2>1
    <3> QED BY <2>1, <3>1
  <2> QED BY <2>1, <2>2
<1>c. Head(tx).f \in Frames
  BY <1>b DEF SentFrames
<1>1. CASE /\ ~IsItsFrame(Head(tx))
           /\ tx' = Tail(tx) /\ UNCHANGED <<rec, saaTimer, box, ais, short>>
  <2>1. ~Its(rec, Head(tx))
    BY <1>1 DEF IsItsFrame, Its
  <2>2. Moves(rec, saaTimer, tx) => Moves(rec, saaTimer, Tail(tx))
    BY <1>b, <2>1 DEF Moves
  <2>3. Work(rec', saaTimer', tx', untold')
    BY <1>a, <1>b, <1>u, <1>1, <2>2 DEF Work
  <2>4. SendEnd
    BY <1>a, <1>u, <1>1, <2>3 DEF SendEnd
  <2> QED BY <1>a, <1>u, <2>4, SendIsStep
<1>2. CASE /\ IsItsFrame(Head(tx))
           /\ rec' = [rec EXCEPT !.aa = Waiting[Head(tx).f]] /\ WaitTimed
           /\ tx' = Tail(tx) /\ UNCHANGED <<box, ais, short>>
  <2>1. Waiting[Head(tx).f] \in WaitStates /\ Waiting[Head(tx).f] \notin SendStates
    BY <1>c DEF Frames
  <2>2. /\ rec' \in Records /\ rec'.used = rec.used /\ rec'.seq = rec.seq /\ rec'.sta = rec.sta
        /\ rec'.aa = Waiting[Head(tx).f]
    BY <1>a, <1>2, <2>1 DEF Records
  <2>3. rec.used /\ rec.aa \in SendStates
    BY <1>2, <1>c DEF IsItsFrame, SendStates
  <2>4. AtWork(rec, box, ais, untold, gone)
    BY <2>3, ActiveAtWork DEF Active
  <2>5. AtWork(rec', box, ais, untold, gone)
    BY <2>2, <2>4 DEF AtWork, StartsAhead, NoneAhead, Wanted
  <2>6. Box(rec', box', ais', untold', gone')
    BY <1>2, <1>u, <2>5 DEF AtWork, Box, Connected
  <2>7. Work(rec', saaTimer', tx', untold')
    BY <1>b, <1>2, <2>1, <2>2, <2>3 DEF Work, WaitTimed, Moves
  <2>8. SendEnd
    BY <1>a, <1>2, <2>6, <2>7 DEF SendEnd
  <2> QED BY <1>a, <1>u, <2>8, SendIsStep
<1>3. CASE IsItsFrame(Head(tx)) /\ EnterSend(Head(tx).f, rec, saaTimer, box, Tail(tx))
  <2>1. rec.used /\ rec.aa \in SendStates
    BY <1>3, <1>c DEF IsItsFrame, SendStates
  <2>2. AtWork(rec, box, ais, untold, gone)
    BY <2>1, ActiveAtWork DEF Active
  <2>3. SendEnd
    BY <1>a, <1>b, <1>c, <1>u, <1>3, <2>2, EnterSendSound
  <2> QED BY <1>a, <1>u, <2>3, SendIsStep
<1> QED BY <1>1, <1>2, <1>3 DEF RunEventTxDone

\* A timer that expires sends the frame of its state again.
LEMMA ExpiresStep ==
  ASSUME SaaInv,
         \/ Expires("req", Sending) \/ Expires("resp", Waiting)
  PROVE  SaaInv'
<1> USE StatesDiffer
<1>a. /\ Box(rec, box, ais, untold, gone) /\ Work(rec, saaTimer, tx, untold)
      /\ rec \in Records /\ short \in 0..MaxShort /\ air \in Seq(Answers) /\ tx \in Seq(SentFrames)
  BY DEF SaaInv, Box, Work, Rest
<1>u. UNCHANGED <<air, leaves, untold, gone>>
  BY DEF Expires
<1>b. saaTimer # "none" /\ rec.used
  BY <1>a DEF Expires, Work
<1>1. CASE \E f \in Frames : rec.aa \in {Sending[f], Waiting[f]} /\ EnterSend(f, rec, "none", box, tx)
  <2> PICK f \in Frames : rec.aa \in {Sending[f], Waiting[f]} /\ EnterSend(f, rec, "none", box, tx)
    BY <1>1
  <2>1. rec.aa \in SendStates \cup WaitStates
    BY DEF SendStates, WaitStates
  <2>2. AtWork(rec, box, ais, untold, gone)
    BY <1>b, <2>1, ActiveAtWork DEF Active
  <2>3. SendEnd
    BY <1>a, <1>u, <2>2, EnterSendSound
  <2> QED BY <1>a, <1>u, <2>3, SendIsStep
<1>2. CASE /\ \/ saaTimer = "req" /\ rec.aa \notin SendStates
              \/ saaTimer = "resp" /\ rec.aa \notin WaitStates
           /\ saaTimer' = "none" /\ UNCHANGED <<rec, box, ais, tx, short>>
  <2>1. Moves(rec, saaTimer, tx) => Moves(rec, "none", tx)
    BY <1>2 DEF Moves
  <2>2. Work(rec', saaTimer', tx', untold')
    BY <1>a, <1>u, <1>2, <2>1 DEF Work
  <2>3. SendEnd
    BY <1>a, <1>u, <1>2, <2>2 DEF SendEnd
  <2> QED BY <1>a, <1>u, <2>3, SendIsStep
<1>3. /\ (\A f \in Frames : rec.aa # Sending[f]) => rec.aa \notin SendStates
      /\ (\A f \in Frames : rec.aa # Waiting[f]) => rec.aa \notin WaitStates
  BY DEF SendStates, WaitStates
<1>4. CASE Expires("req", Sending)
  <2>1. \/ \E f \in Frames : rec.aa = Sending[f] /\ EnterSend(f, rec, "none", box, tx)
        \/ /\ \A f \in Frames : rec.aa # Sending[f]
           /\ saaTimer = "req" /\ saaTimer' = "none" /\ UNCHANGED <<rec, box, ais, tx, short>>
    BY <1>4 DEF Expires
  <2>2. CASE \E f \in Frames : rec.aa = Sending[f] /\ EnterSend(f, rec, "none", box, tx)
    BY <1>1, <2>2
  <2>3. CASE /\ \A f \in Frames : rec.aa # Sending[f]
             /\ saaTimer = "req" /\ saaTimer' = "none" /\ UNCHANGED <<rec, box, ais, tx, short>>
    BY <1>2, <1>3, <2>3
  <2> QED BY <2>1, <2>2, <2>3
<1>5. CASE Expires("resp", Waiting)
  <2>1. \/ \E f \in Frames : rec.aa = Waiting[f] /\ EnterSend(f, rec, "none", box, tx)
        \/ /\ \A f \in Frames : rec.aa # Waiting[f]
           /\ saaTimer = "resp" /\ saaTimer' = "none" /\ UNCHANGED <<rec, box, ais, tx, short>>
    BY <1>5 DEF Expires
  <2>2. CASE \E f \in Frames : rec.aa = Waiting[f] /\ EnterSend(f, rec, "none", box, tx)
    BY <1>1, <2>2
  <2>3. CASE /\ \A f \in Frames : rec.aa # Waiting[f]
             /\ saaTimer = "resp" /\ saaTimer' = "none" /\ UNCHANGED <<rec, box, ais, tx, short>>
    BY <1>2, <1>3, <2>3
  <2> QED BY <2>1, <2>2, <2>3
<1> QED BY <1>4, <1>5

\* An answer in its turn moves the join on or ends it.
LEMMA RxStep == ASSUME SaaInv, RunEventRx PROVE SaaInv'
<1> USE StatesDiffer
<1>a. /\ Box(rec, box, ais, untold, gone) /\ Work(rec, saaTimer, tx, untold)
      /\ rec \in Records /\ short \in 0..MaxShort /\ air \in Seq(Answers) /\ tx \in Seq(SentFrames)
  BY DEF SaaInv, Box, Work, Rest
<1>u. UNCHANGED <<leaves, untold, gone>>
  BY DEF RunEventRx
<1>b. air # <<>> /\ air' = Tail(air) /\ Tail(air) \in Seq(Answers) /\ Head(air) \in Answers
  BY <1>a, HeadTailProperties DEF RunEventRx
<1>c. Head(air).ok \in BOOLEAN
  BY <1>b DEF Answers
<1>d. rec.used /\ rec.aa \in SendStates \cup WaitStates =>
        LET r == [rec EXCEPT !.retry = 0] IN
        /\ AtWork(r, box, ais, untold, gone)
        /\ AtWork([r EXCEPT !.sta = 2], box, ais, untold, gone)
  <2> SUFFICES ASSUME rec.used /\ rec.aa \in SendStates \cup WaitStates
               PROVE  LET r == [rec EXCEPT !.retry = 0] IN
                      /\ AtWork(r, box, ais, untold, gone)
                      /\ AtWork([r EXCEPT !.sta = 2], box, ais, untold, gone)
    OBVIOUS
  <2> DEFINE r == [rec EXCEPT !.retry = 0]
  <2>1. AtWork(rec, box, ais, untold, gone)
    BY ActiveAtWork DEF Active
  <2>2. r \in Records /\ r.used /\ r.seq = rec.seq
    BY <1>a, SaaFsmAssumption, 0 \in 0..RetryLimit DEF Records
  <2> HIDE DEF r
  <2>3. AtWork(r, box, ais, untold, gone)
    BY <2>1, <2>2 DEF AtWork, StartsAhead, NoneAhead, Wanted
  <2> DEFINE s == [r EXCEPT !.sta = 2]
  <2>4. s \in Records /\ s.used /\ s.seq = r.seq
    BY <2>2 DEF Records
  <2> HIDE DEF s
  <2>5. AtWork(s, box, ais, untold, gone)
    BY <2>3, <2>4 DEF AtWork, StartsAhead, NoneAhead, Wanted
  <2> QED BY <2>3, <2>5 DEF r, s
<1>1. CASE UNCHANGED <<rec, saaTimer, box, ais, tx, short>>
  <2>1. SendEnd
    BY <1>a, <1>u, <1>1 DEF SendEnd
  <2> QED BY <1>b, <1>u, <2>1, SendIsStep
<1>2. CASE \E f \in {"AUTH1", "AUTH3"} :
             LET r == [rec EXCEPT !.retry = 0] IN
             /\ rec.used /\ rec.aa \in {Sending[f], Waiting[f]}
             /\ \/ EnterSend("AUTH3", r, "none", box, tx)
                \/ EnterSend("ASSOC1", [r EXCEPT !.sta = 2], "none", box, tx)
                \/ EnterIdle(r, FALSE, "none", box, 0) /\ UNCHANGED tx
  <2> DEFINE r == [rec EXCEPT !.retry = 0]
             s == [r EXCEPT !.sta = 2]
  <2>1. PICK f \in {"AUTH1", "AUTH3"} :
             /\ rec.used /\ rec.aa \in {Sending[f], Waiting[f]}
             /\ \/ EnterSend("AUTH3", r, "none", box, tx)
                \/ EnterSend("ASSOC1", s, "none", box, tx)
                \/ EnterIdle(r, FALSE, "none", box, 0) /\ UNCHANGED tx
    BY <1>2
  <2>2. AtWork(r, box, ais, untold, gone) /\ AtWork(s, box, ais, untold, gone)
    BY <2>1, <1>d
  <2>3. "AUTH3" \in Frames /\ "ASSOC1" \in Frames
    BY DEF Frames
  <2> HIDE DEF r, s
  <2>4. SendEnd
    <3>1. CASE EnterSend("AUTH3", r, "none", box, tx)
      BY <1>a, <1>u, <2>2, <2>3, <3>1, EnterSendSound
    <3>2. CASE EnterSend("ASSOC1", s, "none", box, tx)
      BY <1>a, <1>u, <2>2, <2>3, <3>2, EnterSendSound
    <3>3. CASE EnterIdle(r, FALSE, "none", box, 0) /\ UNCHANGED tx
      <4>1. IdleEnd
        BY <1>a, <1>u, <2>2, <3>3, EnterIdleSound, 0 \in Nat
      <4> QED BY <1>a, <3>3, <4>1, IdleIsEnd
    <3> QED BY <2>1, <3>1, <3>2, <3>3
  <2> QED BY <1>b, <1>u, <2>4, SendIsStep
<1>3. CASE /\ rec.used /\ rec.aa \in {"SEND_ASSOC1", "WAIT_ASSOC2"}
           /\ EnterIdle([rec EXCEPT !.retry = 0], Head(air).ok, "none", box, 0)
           /\ UNCHANGED tx
  <2> DEFINE r == [rec EXCEPT !.retry = 0]
  <2>1. AtWork(r, box, ais, untold, gone) /\ EnterIdle(r, Head(air).ok, "none", box, 0)
    BY <1>3, <1>d
  <2> HIDE DEF r
  <2>2. IdleEnd
    BY <1>a, <1>c, <1>u, <2>1, EnterIdleSound, 0 \in Nat
  <2>3. SendEnd
    BY <1>a, <1>3, <2>2, IdleIsEnd
  <2> QED BY <1>b, <1>u, <2>3, SendIsStep
<1>4. CASE RxAuth(Head(air))
  BY <1>1, <1>2, <1>4 DEF RxAuth
<1>5. CASE RxAssoc(Head(air))
  BY <1>1, <1>3, <1>5 DEF RxAssoc
<1> QED BY <1>4, <1>5 DEF RunEventRx

\* A deauthentication lowers the class of the record.
LEMMA DeauthStep == ASSUME SaaInv, RunEventRxDeauth PROVE SaaInv'
<1>a. /\ Box(rec, box, ais, untold, gone) /\ Work(rec, saaTimer, tx, untold) /\ Rest
      /\ rec \in Records /\ box \in Seq(SaaMessages)
  BY DEF SaaInv, Box
<1>u. rec.used /\ leaves < MaxLeaves /\ leaves' = leaves + 1 /\ UNCHANGED <<saaTimer, ais, tx, air, untold>>
  BY DEF RunEventRxDeauth
<1> PICK sta \in 1..rec.sta - 1 : rec' = [rec EXCEPT !.sta = sta]
  BY DEF RunEventRxDeauth
<1>1. /\ rec' \in Records /\ rec'.used = rec.used /\ rec'.seq = rec.seq /\ rec'.aa = rec.aa
      /\ rec'.alg = rec.alg
  <2>1. rec.sta \in 1..3
    BY <1>a DEF Records
  <2>2. sta \in 1..3
    BY <2>1
  <2> QED BY <1>a, <2>2 DEF Records
<1> DEFINE x == [m |-> "AIS_ABORT"]
<1>2. x \in SaaMessages /\ x.m # "START" /\ x.m # "SAA_ABORT"
  BY DEF SaaMessages
<1>3. Box(rec', box', ais', untold', gone') /\ gone' \in {"no", "told", "untold"} /\ short' \in 0..MaxShort
  <2>1. /\ StartsAhead(rec', box, ais) /\ NoneAhead(rec', ais)
        /\ Active(rec') => Wanted(rec', box, ais, untold)
    BY <1>1, <1>a DEF Box, StartsAhead, NoneAhead, Active, Wanted
  <2>2. ais.conn => ~ais.join /\ rec'.used /\ ~Active(rec') /\ rec'.seq = ais.seq /\ Starts(box) = {}
    BY <1>1, <1>a DEF Box, Connected, Active
  <2>3. CASE Short(0) /\ box' = Append(box, x) /\ gone' = "told"
    <3>1. /\ box' \in Seq(SaaMessages) /\ Starts(box') = Starts(box)
          /\ StartsInOrder(box') /\ StartsAhead(rec', box', ais)
          /\ StartsWanted(box', ais, untold) /\ NoAbort(box', ais) /\ Told(box', ais, gone')
          /\ Wanted(rec', box, ais, untold) => Wanted(rec', box', ais, untold)
      <4> HIDE DEF x
      <4> QED BY <1>a, <1>2, <2>1, <2>3, AbortKeeps DEF Box, x
    <3>2. Connected(rec', box', ais, gone')
      BY <2>2, <2>3, <3>1 DEF Connected
    <3>3. short' \in 0..MaxShort
      BY <1>a, <2>3, ShortType, 0 \in Nat DEF Rest
    <3> QED BY <1>a, <1>u, <1>1, <2>1, <2>3, <3>1, <3>2, <3>3 DEF Box
  <2>4. CASE Short(1) /\ UNCHANGED box /\ gone' = "untold"
    <3>1. Told(box, ais, gone') /\ Connected(rec', box, ais, gone')
      BY <2>2, <2>4 DEF Told, Connected
    <3>2. short' \in 0..MaxShort
      BY <1>a, <2>4, ShortType, 1 \in Nat DEF Rest
    <3> QED BY <1>a, <1>u, <1>1, <2>1, <2>4, <3>1, <3>2 DEF Box
  <2> QED BY <2>3, <2>4 DEF RunEventRxDeauth, DeauthTold
<1>4. Work(rec', saaTimer', tx', untold')
  <2>1. (Active(rec') <=> Active(rec)) /\ (Moves(rec, saaTimer, tx) => Moves(rec', saaTimer, tx))
    BY <1>1 DEF Active, Moves, Its
  <2> QED BY <1>a, <1>u, <1>1, <2>1 DEF Work
<1>5. Rest'
  <2>1. leaves' \in 0..MaxLeaves
    BY <1>a, <1>u, SaaFsmAssumption DEF Rest
  <2> QED BY <1>a, <1>u, <1>3, <2>1 DEF Rest
<1> QED BY <1>3, <1>4, <1>5 DEF SaaInv

\* AIS joins: nothing is under way but joins that SAA was not told to give up.
LEMMA AisJoinsStep == ASSUME SaaInv, AisJoins PROVE SaaInv'
<1>a. /\ Box(rec, box, ais, untold, gone) /\ Work(rec, saaTimer, tx, untold) /\ Rest
      /\ rec \in Records /\ box \in Seq(SaaMessages) /\ ais \in AisStates
  BY DEF SaaInv, Box
<1>u. ~ais.join /\ ~ais.conn /\ ais.seq < MaxJoins /\ gone' = "no"
      /\ UNCHANGED <<saaTimer, tx, air, leaves, untold>>
  BY DEF AisJoins
<1>b. ~Has(box, "SAA_ABORT")
  BY LenProperties, <1>a DEF AisJoins, Has
<1> DEFINE alg == IF "open" \in Algs THEN "open" ELSE "shared"
<1>c. alg \in Algs
  BY SaaFsmAssumption
<1>1. rec' = IF rec.used THEN [rec EXCEPT !.alg = alg]
             ELSE [rec EXCEPT !.used = TRUE, !.sta = 1, !.aa = "IDLE",
                              !.retry = 0, !.alg = alg, !.seq = 0]
  BY DEF AisJoins
<1>2. \/ /\ Short(0) /\ box' = Append(box, Start(ais.seq + 1))
         /\ ais' = [ais EXCEPT !.join = TRUE, !.seq = @ + 1, !.left = Algs \ {alg}]
      \/ /\ Short(1) /\ ais' = [ais EXCEPT !.join = TRUE, !.left = Algs \ {alg}]
         /\ UNCHANGED box
  BY DEF AisJoins
<1> HIDE DEF alg
<1>3. rec' \in Records /\ rec'.used
  <2>1. CASE rec.used
    BY <1>a, <1>c, <1>1, <2>1 DEF Records
  <2>2. CASE ~rec.used
    <3>1. rec' = [rec EXCEPT !.used = TRUE, !.sta = 1, !.aa = "IDLE",
                             !.retry = 0, !.alg = alg, !.seq = 0]
      BY <1>1, <2>2
    <3>2. 0 \in 0..RetryLimit /\ 0 \in 0..MaxJoins /\ TRUE \in BOOLEAN /\ 1 \in 1..3
      BY SaaFsmAssumption
    <3> QED BY <1>a, <1>c, <3>1, <3>2 DEF Records
  <2> QED BY <2>1, <2>2
<1>4. \/ rec.used /\ rec'.seq = rec.seq /\ rec'.aa = rec.aa
      \/ ~rec.used /\ rec'.seq = 0 /\ rec'.aa = "IDLE"
  BY <1>a, <1>1 DEF Records
<1>5. ais.seq \in 0..MaxJoins /\ ais.seq + 1 \in 1..MaxJoins /\ ais.seq + 1 \in 0..MaxJoins
  BY <1>a, <1>u, SaaFsmAssumption DEF AisStates
<1>6. /\ ais' \in AisStates /\ ais'.join /\ ~ais'.conn
      /\ ais.seq <= ais'.seq
      /\ ais'.seq = ais.seq + 1 \/ (ais'.seq = ais.seq /\ UNCHANGED box)
  <2>1. Algs \ {alg} \in SUBSET Algs
    OBVIOUS
  <2>2. ais' \in AisStates
    BY <1>a, <1>2, <1>5, <2>1 DEF AisStates
  <2>3. ais'.join /\ ais'.conn = ais.conn /\ (ais'.seq = ais.seq + 1 \/ (ais'.seq = ais.seq /\ UNCHANGED box))
    BY <1>a, <1>2 DEF AisStates
  <2> QED BY <1>u, <1>5, <2>2, <2>3
<1>7. short' \in 0..MaxShort
  BY <1>a, <1>2, ShortType, 0 \in Nat, 1 \in Nat DEF Rest
<1>8. Active(rec') => Active(rec) /\ rec'.seq = rec.seq /\ rec.seq \in untold
  <2>1. Active(rec') => Active(rec) /\ rec'.seq = rec.seq
    BY <1>4, StatesDiffer DEF Active
  <2>2. Active(rec) => rec.seq \in untold
    BY <1>a, <1>b, <1>u DEF Box, Wanted
  <2> QED BY <2>1, <2>2
<1>9. Work(rec', saaTimer', tx', untold')
  BY <1>a, <1>u, <1>3, <1>8 DEF Work
<1>10. \A i \in Starts(box) : /\ box[i].seq \in untold /\ box[i].seq \in 1..MaxJoins
                              /\ box[i].seq <= ais.seq /\ rec'.seq < box[i].seq
  <2> TAKE i \in Starts(box)
  <2>1. box[i].seq \in 1..MaxJoins /\ i \in 1..Len(box)
    BY <1>a, StartSeq
  <2>2. ~\E j \in 1..Len(box) : i < j /\ box[j].m = "SAA_ABORT"
    BY <1>b DEF Has
  <2>3. box[i].seq \in untold
    BY <1>a, <1>u, <2>2 DEF Box, StartsWanted
  <2>4. box[i].seq <= ais.seq /\ (rec.used => rec.seq < box[i].seq)
    BY <1>a DEF Box, StartsAhead
  <2>5. rec'.seq < box[i].seq
    BY <1>4, <2>1, <2>4, SaaFsmAssumption
  <2> QED BY <2>1, <2>3, <2>4, <2>5
<1>11. rec'.seq <= ais.seq
  <2>1. rec.used => rec.seq <= ais.seq
    BY <1>a DEF Box, NoneAhead
  <2> QED BY <1>4, <1>5, <2>1
<1>12. rec'.seq \in 0..MaxJoins
  BY <1>3 DEF Records
<1>13. NoneAhead(rec', ais') /\ Told(box', ais', gone') /\ Connected(rec', box', ais', gone')
  <2>1. rec'.seq <= ais'.seq
    BY <1>5, <1>6, <1>11, <1>12
  <2> QED BY <1>6, <1>u, <2>1 DEF NoneAhead, Told, Connected
<1>14. Active(rec') => Wanted(rec', box', ais', untold')
  BY <1>8, <1>u DEF Wanted
<1>15. /\ box' \in Seq(SaaMessages) /\ ~Has(box', "SAA_ABORT")
       /\ StartsInOrder(box') /\ StartsAhead(rec', box', ais') /\ StartsWanted(box', ais', untold')
  <2>1. CASE box' = Append(box, Start(ais.seq + 1)) /\ ais'.seq = ais.seq + 1
    <3> DEFINE x == Start(ais.seq + 1)
    <3>1. x \in SaaMessages /\ x.m = "START" /\ x.seq = ais.seq + 1
      BY <1>5 DEF Start, SaaMessages
    <3>2. box' = Append(box, x)
      BY <2>1
    <3> HIDE DEF x
    <3>3. /\ box' \in Seq(SaaMessages) /\ Len(box) \in Nat /\ Len(box') = Len(box) + 1
          /\ \A i \in 1..Len(box) : box'[i] = box[i]
          /\ box'[Len(box')] = x
      BY <1>a, <3>1, <3>2, BoxAndOne
    <3>4. ~Has(box', "SAA_ABORT")
      BY <1>b, <3>1, <3>3 DEF Has
    <3>5. \A i \in Starts(box') : \/ i = Len(box') /\ box'[i].seq = ais.seq + 1
                                  \/ i \in Starts(box) /\ box'[i] = box[i] /\ i < Len(box')
      BY <3>1, <3>3 DEF Starts
    <3>6. StartsInOrder(box')
      <4> SUFFICES ASSUME NEW i \in Starts(box'), NEW j \in Starts(box'), i < j
                   PROVE  box'[i].seq < box'[j].seq
        BY DEF StartsInOrder
      <4>0. i \in 1..Len(box') /\ j \in 1..Len(box')
        BY DEF Starts
      <4>1. i # Len(box') /\ i \in Starts(box) /\ box'[i] = box[i]
        BY <3>3, <3>5, <4>0
      <4>2. CASE j = Len(box')
        <5>1. box'[j].seq = ais.seq + 1
          BY <3>1, <3>3, <4>2
        <5> QED BY <1>5, <1>10, <4>1, <5>1
      <4>3. CASE j \in Starts(box) /\ box'[j] = box[j]
        BY <1>a, <4>1, <4>3 DEF Box, StartsInOrder
      <4> QED BY <3>5, <4>2, <4>3
    <3>7. StartsAhead(rec', box', ais')
      <4> SUFFICES ASSUME NEW i \in Starts(box') PROVE box'[i].seq <= ais'.seq /\ rec'.seq < box'[i].seq
        BY DEF StartsAhead
      <4>1. CASE box'[i].seq = ais.seq + 1
        <5>1. ais.seq \in Nat /\ rec'.seq \in Nat
          BY <1>5, <1>12, SaaFsmAssumption
        <5>2. ais'.seq = ais.seq + 1
          BY <2>1
        <5> QED BY ONLY <4>1, <5>1, <5>2, <1>11
      <4>2. CASE i \in Starts(box) /\ box'[i] = box[i]
        <5>1. box[i].seq \in 1..MaxJoins /\ box[i].seq <= ais.seq /\ rec'.seq < box[i].seq
          BY <1>10, <4>2
        <5>2. ais'.seq = ais.seq + 1 /\ ais.seq \in Nat /\ box[i].seq \in Nat
          BY <1>5, <2>1, <5>1, SaaFsmAssumption
        <5> QED BY ONLY <4>2, <5>1, <5>2
      <4> QED BY <3>5, <4>1, <4>2
    <3>8. StartsWanted(box', ais', untold')
      <4> SUFFICES ASSUME NEW i \in Starts(box'), box'[i].seq \notin untold PROVE ais'.join /\ ais'.seq = box'[i].seq
        BY <1>u DEF StartsWanted
      <4> QED BY <1>6, <1>10, <2>1, <3>5
    <3> QED BY <3>3, <3>4, <3>6, <3>7, <3>8
  <2>2. CASE UNCHANGED box
    <3>1. StartsInOrder(box)
      BY <1>a DEF Box
    <3>2. StartsAhead(rec', box, ais')
      <4> SUFFICES ASSUME NEW i \in Starts(box) PROVE box[i].seq <= ais'.seq /\ rec'.seq < box[i].seq
        BY DEF StartsAhead
      <4> QED BY <1>5, <1>6, <1>10
    <3>3. StartsWanted(box, ais', untold)
      BY <1>10 DEF StartsWanted
    <3> QED BY <1>a, <1>b, <1>u, <2>2, <3>1, <3>2, <3>3
  <2> QED BY <1>2, <1>6, <2>1, <2>2
<1>16. NoAbort(box', ais')
  BY <1>15 DEF NoAbort
<1>17. Box(rec', box', ais', untold', gone')
  BY <1>3, <1>6, <1>13, <1>14, <1>15, <1>16 DEF Box
<1> QED BY <1>a, <1>u, <1>7, <1>9, <1>17 DEF SaaInv, Rest

\* What giving up a join does to the box and to what AIS has told; a is AIS
\* afterwards, r the record.
LEMMA GiveUp ==
  ASSUME NEW b \in Seq(SaaMessages), NEW r, NEW a, NEW g,
         ais \in AisStates, ais.join, a.seq = ais.seq, ~a.join, ~a.conn,
         short \in 0..MaxShort, untold \subseteq 0..MaxJoins,
         StartsInOrder(b), StartsAhead(r, b, a), StartsWanted(b, ais, untold),
         ~Has(b, "SAA_ABORT"), Told(b, a, g), SaaAbort(b)
  PROVE  /\ box' \in Seq(SaaMessages) /\ StartsInOrder(box') /\ StartsAhead(r, box', a)
         /\ StartsWanted(box', a, untold') /\ NoAbort(box', a) /\ Told(box', a, g)
         /\ short' \in 0..MaxShort /\ untold' \subseteq 0..MaxJoins
         /\ r.seq = ais.seq => Wanted(r, box', a, untold')
         /\ r.seq \in untold => Wanted(r, box', a, untold')
<1>1. NoAbort(box', a)
  BY DEF NoAbort
<1>2. CASE Short(0) /\ box' = Append(b, [m |-> "SAA_ABORT"]) /\ UNCHANGED untold
  <2> DEFINE x == [m |-> "SAA_ABORT"]
  <2>1. x \in SaaMessages /\ x.m = "SAA_ABORT" /\ box' = Append(b, x)
    BY <1>2 DEF SaaMessages
  <2> HIDE DEF x
  <2>2. /\ box' \in Seq(SaaMessages) /\ StartsInOrder(box') /\ StartsAhead(r, box', a)
        /\ StartsWanted(box', a, untold) /\ Wanted(r, box', a, untold) /\ Told(box', a, g)
    BY <2>1, AbortKeeps
  <2>3. short' \in 0..MaxShort
    BY <1>2, ShortType, 0 \in Nat
  <2> QED BY <1>1, <1>2, <2>2, <2>3
<1>3. CASE Short(1) /\ box' = b /\ untold' = untold \cup {ais.seq}
  <2>1. short' \in 0..MaxShort /\ untold' \subseteq 0..MaxJoins
    BY <1>3, ShortType, 1 \in Nat DEF AisStates
  <2>2. StartsWanted(b, a, untold')
    <3> SUFFICES ASSUME NEW i \in Starts(b), b[i].seq \notin untold' PROVE FALSE
      BY DEF StartsWanted
    <3>1. b[i].seq \notin untold /\ b[i].seq # ais.seq
      BY <1>3
    <3>2. \E j \in 1..Len(b) : b[j].m = "SAA_ABORT"
      BY <3>1 DEF StartsWanted
    <3> QED BY <3>2 DEF Has
  <2>3. /\ r.seq = ais.seq => Wanted(r, b, a, untold')
        /\ r.seq \in untold => Wanted(r, b, a, untold')
    BY <1>3 DEF Wanted
  <2> QED BY <1>1, <1>3, <2>1, <2>2, <2>3
<1> QED BY <1>2, <1>3 DEF SaaAbort

\* The join timer of AIS.
LEMMA JoinTimeoutStep == ASSUME SaaInv, JoinTimeout PROVE SaaInv'
<1>a. /\ Box(rec, box, ais, untold, gone) /\ Work(rec, saaTimer, tx, untold) /\ Rest
      /\ rec \in Records /\ box \in Seq(SaaMessages) /\ ais \in AisStates
  BY DEF SaaInv, Box
<1>u. ais.join /\ SaaAbort(box) /\ UNCHANGED <<rec, saaTimer, tx, air, leaves, gone>>
  BY DEF JoinTimeout
<1>1. ais' \in AisStates /\ ~ais'.join /\ ais'.seq = ais.seq /\ ais'.conn = ais.conn
  BY <1>a DEF JoinTimeout, AisStates
<1>2. ~Has(box, "SAA_ABORT") /\ ~ais'.conn
  BY <1>a, <1>u, <1>1 DEF Box, NoAbort, Connected
<1>3. StartsAhead(rec, box, ais') /\ NoneAhead(rec, ais') /\ Told(box, ais', gone)
  BY <1>a, <1>1, <1>2 DEF Box, StartsAhead, NoneAhead, Told
<1>4. StartsInOrder(box) /\ StartsWanted(box, ais, untold) /\ short \in 0..MaxShort
      /\ untold \subseteq 0..MaxJoins
  BY <1>a DEF Box, Rest
<1>5. /\ box' \in Seq(SaaMessages) /\ StartsInOrder(box') /\ StartsAhead(rec, box', ais')
      /\ StartsWanted(box', ais', untold') /\ NoAbort(box', ais') /\ Told(box', ais', gone)
      /\ short' \in 0..MaxShort /\ untold' \subseteq 0..MaxJoins
      /\ rec.seq = ais.seq => Wanted(rec, box', ais', untold')
      /\ rec.seq \in untold => Wanted(rec, box', ais', untold')
  BY <1>a, <1>u, <1>1, <1>2, <1>3, <1>4, GiveUp
<1>6. Active(rec) => Wanted(rec, box', ais', untold')
  <2>1. Active(rec) => rec.seq \in untold \/ rec.seq = ais.seq
    BY <1>a, <1>2 DEF Box, Wanted
  <2> QED BY <2>1, <1>5
<1>7. Connected(rec, box', ais', gone)
  BY <1>2 DEF Connected
<1>8. Box(rec', box', ais', untold', gone')
  BY <1>a, <1>u, <1>1, <1>3, <1>5, <1>6, <1>7 DEF Box
<1>9. untold \subseteq untold'
  BY <1>u DEF SaaAbort
<1>10. Work(rec', saaTimer', tx', untold')
  BY <1>a, <1>u, <1>9 DEF Work
<1> QED BY <1>a, <1>u, <1>5, <1>8, <1>10 DEF SaaInv, Rest

\* AIS ends what there is.
LEMMA AisAbortsStep == ASSUME SaaInv, AisAborts PROVE SaaInv'
<1>a. /\ Box(rec, box, ais, untold, gone) /\ Work(rec, saaTimer, tx, untold) /\ Rest
      /\ rec \in Records /\ box \in Seq(SaaMessages) /\ ais \in AisStates
      /\ box # <<>>
  BY DEF SaaInv, Box, AisAborts, SaaRecv
<1>u. saaTimer' = "none" /\ UNCHANGED <<tx, air, leaves, gone>>
  BY DEF AisAborts, Free
<1>1. rec' \in Records /\ ~rec'.used
  BY <1>a DEF AisAborts, Free, Records
<1>2. ais' \in AisStates /\ ~ais'.join /\ ~ais'.conn /\ ais'.seq = ais.seq
  BY <1>a DEF AisAborts, AisStates
<1>3. /\ Tail(box) \in Seq(SaaMessages) /\ StartsInOrder(Tail(box)) /\ StartsAhead(rec, Tail(box), ais)
      /\ StartsWanted(Tail(box), ais, untold) /\ NoAbort(Tail(box), ais)
  BY <1>a, TailKeeps DEF Box
<1>4. StartsAhead(rec', Tail(box), ais') /\ Told(Tail(box), ais', gone)
  BY <1>1, <1>2, <1>3 DEF StartsAhead, Told
<1>5. short \in 0..MaxShort /\ untold \subseteq 0..MaxJoins
  BY <1>a DEF Rest
<1>6. /\ box' \in Seq(SaaMessages) /\ StartsInOrder(box') /\ StartsAhead(rec', box', ais')
      /\ StartsWanted(box', ais', untold') /\ NoAbort(box', ais') /\ Told(box', ais', gone)
      /\ short' \in 0..MaxShort /\ untold' \subseteq 0..MaxJoins
  <2>1. CASE ais.join /\ SaaAbort(Tail(box))
    <3>1. ~Has(Tail(box), "SAA_ABORT")
      BY <1>3, <2>1 DEF NoAbort
    <3> QED BY <1>a, <1>2, <1>3, <1>4, <1>5, <2>1, <3>1, GiveUp
  <2>2. CASE ~ais.join /\ box' = Tail(box) /\ UNCHANGED <<short, untold>>
    <3>1. StartsWanted(Tail(box), ais', untold) /\ NoAbort(Tail(box), ais')
      BY <1>2, <1>3, <2>2 DEF StartsWanted, NoAbort
    <3> QED BY <1>3, <1>4, <1>5, <2>2, <3>1
  <2> QED BY <2>1, <2>2 DEF AisAborts
<1>7. NoneAhead(rec', ais') /\ ~Active(rec') /\ Connected(rec', box', ais', gone)
  BY <1>1, <1>2 DEF NoneAhead, Active, Connected
<1>8. Box(rec', box', ais', untold', gone')
  BY <1>u, <1>1, <1>2, <1>6, <1>7 DEF Box
<1>9. Work(rec', saaTimer', tx', untold')
  BY <1>a, <1>u, <1>7 DEF Work
<1> QED BY <1>a, <1>u, <1>6, <1>8, <1>9 DEF SaaInv, Rest

\* The user asks AIS to leave.
LEMMA DisconnectStep == ASSUME SaaInv, Disconnect PROVE SaaInv'
<1>a. /\ Box(rec, box, ais, untold, gone) /\ Work(rec, saaTimer, tx, untold) /\ Rest
      /\ rec \in Records /\ box \in Seq(SaaMessages) /\ ais \in AisStates
  BY DEF SaaInv, Box
<1>u. leaves' = leaves + 1 /\ leaves < MaxLeaves
      /\ UNCHANGED <<rec, saaTimer, ais, tx, air, short, untold, gone>>
  BY DEF Disconnect
<1> DEFINE x == [m |-> "AIS_ABORT"]
<1>1. x \in SaaMessages /\ x.m # "START" /\ x.m # "SAA_ABORT" /\ box' = Append(box, x)
  BY DEF SaaMessages, Disconnect
<1> HIDE DEF x
<1>2. /\ box' \in Seq(SaaMessages) /\ Starts(box') = Starts(box)
      /\ StartsInOrder(box') /\ StartsAhead(rec, box', ais)
      /\ StartsWanted(box', ais, untold) /\ NoAbort(box', ais) /\ Told(box', ais, gone)
      /\ Wanted(rec, box, ais, untold) => Wanted(rec, box', ais, untold)
  BY <1>a, <1>1, AbortKeeps DEF Box
<1>3. Connected(rec, box', ais, gone)
  BY <1>a, <1>2 DEF Box, Connected
<1>4. Box(rec', box', ais', untold', gone')
  BY <1>a, <1>u, <1>2, <1>3 DEF Box
<1>5. Work(rec', saaTimer', tx', untold')
  BY <1>a, <1>u
<1>6. leaves' \in 0..MaxLeaves
  BY <1>a, <1>u, SaaFsmAssumption DEF Rest
<1> QED BY <1>a, <1>u, <1>4, <1>5, <1>6 DEF SaaInv, Rest

\* The AP answers a frame on its way.
LEMMA AnswersStep == ASSUME SaaInv, ApAnswers PROVE SaaInv'
<1>a. /\ Box(rec, box, ais, untold, gone) /\ Work(rec, saaTimer, tx, untold) /\ Rest
      /\ tx \in Seq(SentFrames) /\ air \in Seq(Answers)
  BY DEF SaaInv, Work, Rest
<1>u. UNCHANGED <<rec, saaTimer, box, ais, short, leaves, untold, gone>>
  BY DEF ApAnswers
<1> PICK i \in DOMAIN tx, ok \in BOOLEAN :
       /\ tx' = [tx EXCEPT ![i].heard = TRUE]
       /\ air' = Append(air, [f |-> AnswerTo[tx[i].f], alg |-> tx[i].alg, ok |-> ok])
  BY DEF ApAnswers
<1>1. /\ Len(tx) \in Nat /\ DOMAIN tx = 1..Len(tx) /\ tx \in [1..Len(tx) -> SentFrames]
  BY <1>a, LenProperties
<1>2. tx[i] \in SentFrames /\ tx[i].f \in Frames /\ tx[i].alg \in Algs
  BY <1>1 DEF SentFrames
<1>3. air' \in Seq(Answers)
  <2>1. [f |-> AnswerTo[tx[i].f], alg |-> tx[i].alg, ok |-> ok] \in Answers
    BY <1>2 DEF Answers
  <2> QED BY <1>a, <2>1, AppendProperties
<1>4. /\ tx' \in [1..Len(tx) -> SentFrames]
      /\ \A k \in 1..Len(tx) : tx'[k].f = tx[k].f /\ tx'[k].alg = tx[k].alg
  <2>1. \A k \in 1..Len(tx) : tx'[k] = IF k = i THEN [tx[k] EXCEPT !.heard = TRUE] ELSE tx[k]
    BY <1>1
  <2>2. \A k \in 1..Len(tx) : [tx[k] EXCEPT !.heard = TRUE] \in SentFrames
                              /\ [tx[k] EXCEPT !.heard = TRUE].f = tx[k].f
                              /\ [tx[k] EXCEPT !.heard = TRUE].alg = tx[k].alg
    BY <1>1 DEF SentFrames
  <2>3. DOMAIN tx' = 1..Len(tx) /\ tx' = [k \in 1..Len(tx) |-> tx'[k]]
    BY <1>1
  <2> QED BY <1>1, <2>1, <2>2, <2>3
<1>5. tx' \in Seq(SentFrames) /\ Len(tx') = Len(tx)
  <2>1. tx' \in Seq(SentFrames)
    BY <1>1, <1>4, SeqDef
  <2> QED BY <1>1, <1>4, <2>1, LenProperties
<1>6. Work(rec', saaTimer', tx', untold')
  <2>1. \A k \in 1..Len(tx) : Its(rec, tx[k]) => Its(rec, tx'[k])
    BY <1>4 DEF Its
  <2>2. Moves(rec, saaTimer, tx) => Moves(rec, saaTimer, tx')
    BY <1>5, <2>1 DEF Moves
  <2> QED BY <1>a, <1>u, <1>5, <2>2 DEF Work
<1> QED BY <1>a, <1>u, <1>3, <1>6 DEF SaaInv, Rest

\* An answer lost on the air takes no promise with it.
LEMMA LostStep == ASSUME SaaInv, AnswerLost PROVE SaaInv'
<1>1. air' \in Seq(Answers)
  BY HeadTailProperties DEF AnswerLost, SaaInv, Rest
<1>2. /\ UNCHANGED <<rec, saaTimer, box, ais, tx, short, leaves, untold, gone>>
      /\ Box(rec, box, ais, untold, gone) /\ Work(rec, saaTimer, tx, untold) /\ Rest
  BY DEF AnswerLost, SaaInv
<1> QED BY <1>1, <1>2 DEF SaaInv, Rest

\* Every step keeps the invariant: a lemma for each action.
LEMMA SaaStep == SaaInv /\ [SaaNext]_saaVars => SaaInv'
<1> SUFFICES ASSUME SaaInv, [SaaNext]_saaVars PROVE SaaInv'
  OBVIOUS
<1>1. CASE RunEventStart
  BY <1>1, StartStep
<1>2. CASE RunEventAbort
  BY <1>2, AbortStep
<1>3. CASE AisAborts
  BY <1>3, AisAbortsStep
<1>4. CASE RunEventTxReqTimeOut \/ RunEventRxRespTimeOut
  BY <1>4, ExpiresStep DEF RunEventTxReqTimeOut, RunEventRxRespTimeOut
<1>5. CASE RunEventTxDone
  BY <1>5, TxDoneStep
<1>6. CASE RunEventRx
  BY <1>6, RxStep
<1>7. CASE RunEventRxDeauth
  BY <1>7, DeauthStep
<1>8. CASE AisJoins
  BY <1>8, AisJoinsStep
<1>9. CASE JoinTimeout
  BY <1>9, JoinTimeoutStep
<1>10. CASE Disconnect
  BY <1>10, DisconnectStep
<1>11. CASE ApAnswers
  BY <1>11, AnswersStep
<1>12. CASE AnswerLost
  BY <1>12, LostStep
<1>13. CASE UNCHANGED saaVars
  <2>1. UNCHANGED <<rec, saaTimer, box, ais, tx, air, short, leaves, untold, gone>>
    BY <1>13 DEF saaVars
  <2>2. Box(rec, box, ais, untold, gone) /\ Work(rec, saaTimer, tx, untold) /\ Rest
    BY DEF SaaInv
  <2> QED BY <2>1, <2>2 DEF SaaInv, Rest
<1> QED BY <1>1, <1>2, <1>3, <1>4, <1>5, <1>6, <1>7, <1>8, <1>9, <1>10, <1>11, <1>12, <1>13
        DEF SaaNext, SaaHandle, SaaTimeout

\* The inductive invariant holds in every behaviour.
LEMMA SaaInvariance == SaaSpec => []SaaInv
<1>1. SaaInit => SaaInv
  BY SaaInitial
<1>2. SaaInv /\ [SaaNext]_saaVars => SaaInv'
  BY SaaStep
<1> QED BY <1>1, <1>2, PTL DEF SaaSpec

\* The types of the record, the box, AIS and the frames.
THEOREM JoinTypeCorrect == SaaSpec => []SaaTypeOK
<1>1. SaaInv => SaaTypeOK
  BY DEF SaaInv, Box, Work, Rest, SaaTypeOK, Records, SaaMessages, AisStates, SentFrames
<1> QED BY <1>1, SaaInvariance, PTL

\* A connection is to a record in class 3, or the loss is on its way to AIS.
LEMMA InvConnection == SaaInv => ConnectionHasClass3
<1> SUFFICES ASSUME SaaInv, ais.conn PROVE
      /\ rec.used
      /\ \/ gone = "no" /\ rec.sta = 3
         \/ gone = "untold"
         \/ \E i \in DOMAIN box : box[i].m = "AIS_ABORT"
  BY DEF ConnectionHasClass3
<1>1. /\ Connected(rec, box, ais, gone) /\ Told(box, ais, gone) /\ box \in Seq(SaaMessages)
      /\ gone \in {"no", "told", "untold"}
  BY DEF SaaInv, Box, Rest
<1>2. rec.used /\ (gone = "no" => rec.sta = 3)
  BY <1>1 DEF Connected
<1>3. gone = "told" => \E i \in DOMAIN box : box[i].m = "AIS_ABORT"
  BY <1>1, LenProperties DEF Told, Has
<1> QED BY <1>1, <1>2, <1>3

\* Whatever frames, reports and answers of earlier joins are about, with any
\* number of joins, tries and failed allocations: a join under way has a timer
\* or a report to come, the timer of a freed record does not run, and a
\* connection is to a record in class 3 unless the loss is on its way.
THEOREM JoinSafe == SaaSpec => []JoinInv
<1>1. SaaInv => SaaTypeOK
  BY DEF SaaInv, Box, Work, Rest, SaaTypeOK, Records, SaaMessages, AisStates, SentFrames
<1>2. SaaInv => JoinMoves
  <2> SUFFICES ASSUME SaaInv, UnderWay, rec.seq \notin untold
               PROVE  /\ rec.aa \in WaitStates => saaTimer = "resp"
                      /\ rec.aa \in SendStates => saaTimer = "req" \/ \E i \in DOMAIN tx : IsItsFrame(tx[i])
    BY DEF JoinMoves
  <2>1. Moves(rec, saaTimer, tx) /\ tx \in Seq(SentFrames)
    BY DEF SaaInv, Work, UnderWay, Active
  <2> QED BY <2>1, LenProperties DEF Moves, Its, IsItsFrame
<1>3. SaaInv => NoTimerOfFreed
  BY DEF SaaInv, Work, NoTimerOfFreed
<1>4. SaaInv => JoinInv
  BY <1>1, <1>2, <1>3, InvConnection DEF JoinInv
<1> QED BY <1>4, SaaInvariance, PTL
=============================================================================
