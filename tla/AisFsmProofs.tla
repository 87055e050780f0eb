---------------------------- MODULE AisFsmProofs ----------------------------
(***************************************************************************)
(* Theorems about the Wi-Fi station, for any number of events and every    *)
(* choice of them: the OS takes it for connected only while it is; its     *)
(* variables keep their types; and, as long as remain-on-channel is asked  *)
(* and cancelled only where it may be, no channel is left with the         *)
(* firmware, no join with the auth/assoc FSM, and no window stays open.    *)
(***************************************************************************)
EXTENDS AisFsm, SequenceTheorems, WellFoundedInduction, TLAPS

-----------------------------------------------------------------------------
(* What the OS was told. *)

HostInv == HostTold /\ (host = "connected" => indicated = "connected")

\* A step that changes neither the connection nor what was told of it.
Quiet == UNCHANGED <<conn, host, indicated>> /\ ("disc" \in timers => "disc" \in timers')

\* An indication that is put off leaves its timer running.
LEMMA TellKeepsHost ==
  ASSUME HostInv, NEW c, NEW delay, NEW t, conn' = c,
         "disc" \in timers => "disc" \in t,
         c => conn,
         TellDisconnected(c, delay, t)
  PROVE  HostInv'
BY DEF HostInv, HostTold, TellDisconnected, HostToldDisconnected

\* A state that is given up ends quietly or with an indication.
LEMMA StateAbortKeepsHost ==
  ASSUME HostInv, NEW r, NEW delay, NEW p, NEW box, NEW t,
         "disc" \in timers => "disc" \in t,
         StateAbort(r, delay, p, box, t)
  PROVE  HostInv'
<1> DEFINE connected == conn /\ ais \in {"WAIT", "LOOKING_FOR", "REQ_CHANNEL_JOIN",
                                         "JOIN", "ONLINE_SCAN", "NORMAL_TR"}
           deauth == connected /\ r = "NEW" /\ apRec = "used"
           ends == ais = "JOIN" \/ ais = "DISCONNECTING" \/ (connected /\ ~deauth)
           p1 == IF ais \in {"SCAN", "ONLINE_SCAN"} THEN PutIfNone(p, "SCAN") ELSE p
           t1 == t \ ((IF ais = "WAIT" THEN {"bg"} ELSE {})
                       \cup (IF ais = "REMAIN" THEN {"ch"} ELSE {})
                       \cup (IF ends THEN {"join"} ELSE {}))
<1>1. "disc" \in timers => "disc" \in t1
  OBVIOUS
<1>2. \/ timers' = t1 /\ UNCHANGED <<conn, indicated, host>>
      \/ Disconnect(r, delay, p1, t1)
  BY DEF StateAbort
<1> HIDE DEF t1, p1
<1>3. CASE timers' = t1 /\ UNCHANGED <<conn, indicated, host>>
  BY <1>1, <1>3 DEF HostInv, HostTold
<1>4. CASE Disconnect(r, delay, p1, t1)
  <2> DEFINE c == conn /\ r = "REASSOC"
  <2>1. conn' = c /\ TellDisconnected(c, delay, t1)
    BY <1>4 DEF Disconnect
  <2>2. c => conn
    OBVIOUS
  <2> HIDE DEF c
  <2> QED BY <1>1, <2>1, <2>2, TellKeepsHost
<1> QED BY <1>2, <1>3, <1>4

\* aisFsmSteps() tells the OS nothing.
LEMMA StepsQuiet == Steps => Quiet
<1>1. EnterIdle => Quiet
  BY DEF EnterIdle, Quiet, linkVars
<1>2. EnterSearch => Quiet
  BY DEF EnterSearch, Quiet
<1>3. EnterWait => Quiet
  BY DEF EnterWait, Quiet, linkVars
<1>4. EnterScan => Quiet
  BY DEF EnterScan, Quiet, linkVars
<1>5. EnterReqChannel => Quiet
  BY DEF EnterReqChannel, Quiet, linkVars
<1>6. EnterJoin => Quiet
  BY DEF EnterJoin, Quiet
<1>7. EnterNormalTr => Quiet
  BY DEF EnterNormalTr, Quiet, linkVars
<1>8. EnterDisconnecting => Quiet
  BY DEF EnterDisconnecting, Quiet, linkVars
<1>9. EnterRemain => Quiet
  BY DEF EnterRemain, Quiet, linkVars
<1> QED BY <1>1, <1>2, <1>3, <1>4, <1>5, <1>6, <1>7, <1>8, <1>9 DEF Steps

\* Of the messages only an abort does.
LEMMA HandleKeepsHost ==
  ASSUME HostInv, Handle
  PROVE  HostInv'
<1>1. ScanDone => Quiet
  BY DEF ScanDone, Quiet, linkVars
<1>2. CASE Abort
  <2>1. Quiet \/ \E r, d, p, box : StateAbort(r, d, p, box, timers)
    BY <1>2 DEF Abort, Quiet, linkVars
  <2> QED BY <2>1, StateAbortKeepsHost DEF Quiet, HostInv, HostTold
<1>3. ChGrant => Quiet
  BY DEF ChGrant, Quiet, linkVars
<1>4. Remain => Quiet
  BY DEF Remain, Quiet, linkVars
<1>5. CancelRemain => Quiet
  BY DEF CancelRemain, Quiet, linkVars
<1>6. ScanStart => Quiet
  BY DEF ScanStart, Quiet, linkVars
<1>7. ChPrivilege => Quiet
  BY DEF ChPrivilege, Quiet, linkVars
<1>8. SaaStart => Quiet
  BY DEF SaaStart, Quiet, linkVars
<1>9. SaaAbort => Quiet
  BY DEF SaaAbort, Quiet
<1>10. Quiet => HostInv'
  BY DEF Quiet, HostInv, HostTold
<1> QED BY <1>1, <1>2, <1>3, <1>4, <1>5, <1>6, <1>7, <1>8, <1>9, <1>10 DEF Handle

\* What the user and the AP start.
LEMMA UserKeepsHost ==
  ASSUME HostInv, User
  PROVE  HostInv'
<1>1. OsScan => Quiet
  <2>1. OsScan => UNCHANGED linkVars /\ timers' = timers \cup {"scan"}
    BY DEF OsScan
  <2> QED BY <2>1 DEF Quiet, linkVars
<1>2. Connect => HostInv'
  <2>1. Connect => /\ UNCHANGED <<conn, indicated, timers>>
                   /\ (host' = host \/ host' # "connected")
    BY DEF Connect
  <2> QED BY <2>1 DEF HostInv, HostTold
<1>3. UserDisconnect => HostInv'
  <2>1. UserDisconnect => /\ UNCHANGED <<conn, indicated, timers>>
                          /\ (host' = host \/ host' # "connected")
    BY DEF UserDisconnect
  <2> QED BY <2>1 DEF HostInv, HostTold
<1>4. Deauth => Quiet
  BY DEF Deauth, Quiet, linkVars
<1>5. ASSUME NEW kind, NEW r, NEW delay, LinkLost(kind, r, delay)  PROVE HostInv'
  BY <1>5, StateAbortKeepsHost DEF LinkLost
<1>6. BeaconTimeout \/ SecurityChanged \/ BssInfoDiffers => HostInv'
  BY <1>5 DEF BeaconTimeout, SecurityChanged, BssInfoDiffers
<1>7. RoamingDiscovery => Quiet
  BY DEF RoamingDiscovery, Quiet, linkVars
<1>8. RemainOnChannel \/ CancelRemainOnChannel => Quiet
  BY DEF RemainOnChannel, CancelRemainOnChannel, RocMsg, Quiet, linkVars
<1>9. Quiet => HostInv'
  BY DEF Quiet, HostInv, HostTold
<1> QED BY <1>1, <1>2, <1>3, <1>4, <1>6, <1>7, <1>8, <1>9 DEF User

\* The end of the wait for a deauthentication.
LEMMA DeauthenticatedKeepsHost ==
  ASSUME HostInv, NEW t, "disc" \in timers => "disc" \in t, Deauthenticated(t)
  PROVE  HostInv'
<1>1. StateAbort("NEW", FALSE, pend, mbox, t)
      \/ (timers' = t /\ UNCHANGED <<conn, host, indicated>>)
  BY DEF Deauthenticated, linkVars
<1> QED BY <1>1, StateAbortKeepsHost DEF HostInv, HostTold

\* The answers of the scan FSM, the firmware and the auth/assoc FSM.
LEMMA AnswersKeepHost ==
  ASSUME HostInv, Answers
  PROVE  HostInv'
<1>1. ScanEnds \/ FwGrants \/ ChEvent \/ JoinRetries \/ JoinIgnored => Quiet
  BY DEF ScanEnds, FwGrants, ChEvent, JoinRetries, JoinIgnored, Quiet, linkVars
<1>2. JoinSucceeds => HostInv'
  BY DEF JoinSucceeds, HostInv, HostTold
<1>3. JoinFails => Quiet
  BY DEF JoinFails, Quiet, linkVars
<1>4. CASE DeauthTxDone
  <2>1. \/ Deauthenticated(timers \ {"deauth"})
        \/ Deauthenticated(timers)
        \/ Quiet
    BY <1>4 DEF DeauthTxDone, Quiet, linkVars
  <2> QED BY <2>1, DeauthenticatedKeepsHost DEF Quiet, HostInv, HostTold
<1>5. Quiet => HostInv'
  BY DEF Quiet, HostInv, HostTold
<1> QED BY <1>1, <1>2, <1>3, <1>4, <1>5 DEF Answers

\* The timers: the one of a postponed indication gives it.
LEMMA TimersKeepHost ==
  ASSUME HostInv, TimersFire
  PROVE  HostInv'
<1>1. ScanDoneTimeOut \/ BgSleepTimeOut \/ JoinReqGetsOld => Quiet
  BY DEF ScanDoneTimeOut, BgSleepTimeOut, JoinReqGetsOld, Quiet, linkVars
<1>2. JoinTimeout => Quiet
  BY DEF JoinTimeout, Quiet, linkVars
<1>3. CASE DeauthTimeout
  BY <1>3, DeauthenticatedKeepsHost DEF DeauthTimeout
<1>4. ChannelTimeout => Quiet
  BY DEF ChannelTimeout, Quiet, linkVars
<1>5. CASE PostponedDisconn
  BY <1>5 DEF PostponedDisconn, TellDisconnected, HostToldDisconnected, HostInv,
        HostTold
<1>6. Quiet => HostInv'
  BY DEF Quiet, HostInv, HostTold
<1> QED BY <1>1, <1>2, <1>3, <1>4, <1>5, <1>6 DEF TimersFire

\* The OS takes the station for connected only while it is, or until the timer
\* of an indication that was put off: no order of aborts, link losses, joins
\* and timeouts leaves it with a connection that is gone.
THEOREM HostAlwaysTold == Spec => []HostTold
<1>1. Init => HostInv
  BY DEF Init, HostInv, HostTold
<1>2. HostInv /\ [Next]_vars => HostInv'
  <2> SUFFICES ASSUME HostInv, [Next]_vars  PROVE HostInv'
    OBVIOUS
  <2>1. CASE UNCHANGED vars
    BY <2>1 DEF vars, linkVars, HostInv, HostTold
  <2>2. Steps => HostInv'
    BY StepsQuiet DEF Quiet, HostInv, HostTold
  <2> QED BY <2>1, <2>2, HandleKeepsHost, UserKeepsHost, AnswersKeepHost, TimersKeepHost
             DEF Next
<1>3. HostInv => HostTold
  BY DEF HostInv
<1> QED BY <1>1, <1>2, <1>3, PTL DEF Spec

-----------------------------------------------------------------------------
(* Types. *)

PlaceType == ais \in States /\ goto \in States \cup {"none"}
PendType == pend \in Seq(Requests)
BoxType == mbox \in Seq(Messages)
LinkType ==
  /\ conn \in BOOLEAN /\ apRec \in {"none", "used", "freed"}
  /\ target \in {"AP", "other"} /\ reason \in Reasons
  /\ indicated \in {"connected", "disconnected"}
  /\ host \in {"connected", "disconnected", "to be told"}
UserType == connReq \in BOOLEAN /\ discNR \in BOOLEAN /\ scanReq \in BOOLEAN
JoinType ==
  /\ tryScan \in BOOLEAN /\ trial \in 0..TrialLimit + 1
  /\ fails \in 0..MaxJoinFailure
  /\ joinOld \in BOOLEAN /\ authLeft \in BOOLEAN
ChType == finished \in BOOLEAN /\ chReq \in BOOLEAN /\ chGrant \in BOOLEAN
TimerType == timers \subseteq Timers
RoamType == roam \in {"IDLE", "DECISION", "DISCOVERY", "ROAM"}
ScanType == scn \subseteq Ages
FwType ==
  /\ chAsked \subseteq Ages /\ chHeld \subseteq Ages /\ grants \subseteq Ages
  /\ deauthTx \in BOOLEAN
SaaType == saa \in Ages \cup {-1}
CountType == draining \in BOOLEAN /\ events \in 0..MaxEvents

\* The parts together are the type invariant.
LEMMA TypeParts ==
  TypeOK <=> /\ PlaceType /\ PendType /\ BoxType /\ LinkType /\ UserType /\ JoinType
             /\ ChType /\ TimerType /\ RoamType /\ ScanType /\ FwType /\ SaaType
             /\ CountType
BY DEF TypeOK, PlaceType, PendType, BoxType, LinkType, UserType, JoinType, ChType,
       TimerType, RoamType, ScanType, FwType, SaaType, CountType

\* So they are in the next state.
LEMMA TypePartsNext ==
  TypeOK' <=> /\ PlaceType' /\ PendType' /\ BoxType' /\ LinkType' /\ UserType' /\ JoinType'
              /\ ChType' /\ TimerType' /\ RoamType' /\ ScanType' /\ FwType' /\ SaaType'
              /\ CountType'
BY TypeParts, PTL

\* A set of numbers that is not empty has a least one.
LEMMA MinIs ==
  ASSUME NEW S, S \subseteq Nat, S # {}
  PROVE  Min(S) \in S
<1> DEFINE R == OpToRel(<, Nat)
<1>1. IsWellFoundedOn(R, Nat)
  BY NatLessThanWellFounded
<1>2. \A u, v \in Nat : u < v => <<u, v>> \in R
  BY DEF OpToRel
<1> HIDE DEF R
<1>3. PICK m \in S : \A n \in S : ~(<<n, m>> \in R)
  BY <1>1, WFMin
<1>4. ASSUME NEW n \in S  PROVE m =< n
  <2>1. m \in Nat /\ n \in Nat /\ ~(<<n, m>> \in R)
    BY <1>3
  <2>2. ~(n < m)
    BY <1>2, <2>1
  <2> QED BY <2>1, <2>2
<1> QED BY <1>4 DEF Min

\* The list without the first request of a kind is a list of requests.
LEMMA WithoutType ==
  ASSUME NEW p \in Seq(Requests), NEW r
  PROVE  Without(p, r) \in Seq(Requests)
<1>1. CASE Pends(p, r)
  <2> DEFINE I == {k \in 1..Len(p) : p[k] = r}
  <2>1. Len(p) \in Nat /\ DOMAIN p = 1..Len(p) /\ \A k \in 1..Len(p) : p[k] \in Requests
    BY LenProperties, ElementOfSeq
  <2>2. I # {} /\ I \subseteq 1..Len(p) /\ I \subseteq Nat
    BY <1>1, <2>1 DEF Pends
  <2>3. Without(p, r) = RemoveAt(p, Min(I))
    BY <1>1, <2>2 DEF Without, SelectInSeq
  <2> HIDE DEF I
  <2>4. Min(I) \in 1..Len(p)
    BY <2>2, MinIs
  <2> DEFINE i == Min(I)
  <2> HIDE DEF i
  <2>5. i \in 1..Len(p)
    BY <2>4 DEF i
  <2>6. SubSeq(p, 1, i - 1) \in Seq(Requests) /\ SubSeq(p, i + 1, Len(p)) \in Seq(Requests)
    BY <2>1, <2>5, SubSeqProperties
  <2>7. RemoveAt(p, i) \in Seq(Requests)
    BY <2>6, ConcatProperties DEF RemoveAt
  <2> QED BY <2>3, <2>7 DEF i
<1>2. CASE ~Pends(p, r)
  BY <1>2 DEF Without
<1> QED BY <1>1, <1>2

\* The other operators on the list keep it one.
LEMMA ListTypes ==
  ASSUME NEW p \in Seq(Requests), NEW r \in Requests
  PROVE  /\ PutOnce(p, r) \in Seq(Requests)
         /\ PutIfNone(p, r) \in Seq(Requests)
         /\ NoRoaming(p) \in Seq(Requests)
<1>1. PutOnce(p, r) \in Seq(Requests)
  BY WithoutType, AppendProperties DEF PutOnce
<1>2. PutIfNone(p, r) \in Seq(Requests)
  BY AppendProperties DEF PutIfNone
<1>3. NoRoaming(p) \in Seq(Requests)
  BY WithoutType DEF NoRoaming
<1> QED BY <1>1, <1>2, <1>3

\* What is in a message.
LEMMA MessageParts ==
  ASSUME NEW x \in Messages
  PROVE  /\ x.m \in Numbered => x = Msg(x.m, x.age) /\ x.age \in Ages
         /\ x.m = "ABORT" => x.reason \in Reasons /\ x.delay \in BOOLEAN
         /\ x.m = "SAA_ABORT" => x.sta \in {"AP", "other"}
BY DEF Messages, Numbered, Msg

\* What is a message.
LEMMA MessageTypes ==
  /\ \A n \in Numbered, a \in Ages : Msg(n, a) \in Messages
  /\ \A s \in {"AP", "other"} : [m |-> "SAA_ABORT", sta |-> s] \in Messages
  /\ \A r \in Reasons, d \in BOOLEAN : AbortMsg(r, d) \in Messages
  /\ [m |-> "REMAIN"] \in Messages /\ [m |-> "CANCEL"] \in Messages
BY DEF Messages, Numbered, Msg, AbortMsg

\* The box with one kind of request aged, and a new one of it.
LEMMA AgedType ==
  ASSUME BoxType, NEW names \in SUBSET Numbered, NEW x \in Messages
  PROVE  /\ AgedBox(names) \in Seq(Messages)
         /\ Append(AgedBox(names), x) \in Seq(Messages)
<1>1. Len(mbox) \in Nat /\ DOMAIN mbox = 1..Len(mbox) /\ \A i \in 1..Len(mbox) : mbox[i] \in Messages
  BY LenProperties, ElementOfSeq DEF BoxType
<1>2. \A i \in DOMAIN mbox : (IF mbox[i].m \in names THEN Msg(mbox[i].m, 1) ELSE mbox[i]) \in Messages
  BY <1>1, MessageTypes DEF Ages
<1> DEFINE b == AgedBox(names)
<1>3. b \in [1..Len(mbox) -> Messages]
  BY <1>1, <1>2 DEF AgedBox
<1>4. b \in Seq(Messages)
  BY <1>1, <1>3, SeqDef
<1> QED BY <1>4, AppendProperties

\* What aisFsmReleaseCh(), an abort in JOIN and a cancelled scan put in the box.
LEMMA AbortTypes ==
  ASSUME target \in {"AP", "other"}
  PROVE  /\ ChAbort \in Seq(Messages) /\ JoinAbort \in Seq(Messages)
         /\ ScanCancelled \in Seq(Messages) /\ <<>> \in Seq(Messages)
<1>1. Msg("CH_ABORT", 0) \in Messages /\ Msg("SCAN_DONE", 0) \in Messages
      /\ [m |-> "SAA_ABORT", sta |-> target] \in Messages
  BY MessageTypes DEF Numbered, Ages
<1>2. <<>> \in Seq(Messages)
  BY EmptySeq
<1>3. ChAbort \in Seq(Messages) /\ ScanCancelled \in Seq(Messages)
  BY <1>1, <1>2 DEF ChAbort, ScanCancelled
<1>4. <<[m |-> "SAA_ABORT", sta |-> target]>> \in Seq(Messages)
  BY <1>1
<1> QED BY <1>2, <1>3, <1>4, ConcatProperties DEF JoinAbort

\* The indication to the OS keeps the types.
LEMMA TellType ==
  ASSUME LinkType, NEW c \in BOOLEAN, NEW delay \in BOOLEAN, NEW t \in SUBSET Timers,
         TellDisconnected(c, delay, t)
  PROVE  /\ TimerType'
         /\ indicated' \in {"connected", "disconnected"}
         /\ host' \in {"connected", "disconnected", "to be told"}
BY DEF LinkType, TellDisconnected, HostToldDisconnected, TimerType, Timers

\* So does the end of a connection.
LEMMA DisconnectType ==
  ASSUME LinkType, RoamType, NEW r \in Reasons, NEW delay \in BOOLEAN,
         NEW p \in Seq(Requests), NEW t \in SUBSET Timers,
         Disconnect(r, delay, p, t), reason' = r
  PROVE  PendType' /\ LinkType' /\ RoamType' /\ TimerType' /\ goto' = "IDLE"
<1> DEFINE p1 == IF conn /\ r = "RADIO_LOST" /\ delay THEN PutOnce(p, "RECONNECT") ELSE p
           c == conn /\ r = "REASSOC"
<1>1. p1 \in Seq(Requests)
  BY ListTypes DEF Requests
<1>2. c \in BOOLEAN
  OBVIOUS
<1>3. /\ pend' = NoRoaming(p1) /\ conn' = c
      /\ apRec' \in {apRec, "none"} /\ target' \in {target, "other"}
      /\ roam' = "IDLE" /\ TellDisconnected(c, delay, t) /\ goto' = "IDLE"
  BY DEF Disconnect, RoamAborted
<1> HIDE DEF p1, c
<1>4. PendType'
  BY <1>1, <1>3, WithoutType DEF PendType, NoRoaming
<1>5. conn' \in BOOLEAN
  BY <1>2, <1>3
<1>6. TimerType' /\ indicated' \in {"connected", "disconnected"}
      /\ host' \in {"connected", "disconnected", "to be told"}
  BY <1>2, <1>3, TellType
<1>7. apRec' \in {"none", "used", "freed"} /\ target' \in {"AP", "other"}
  BY <1>3 DEF LinkType
<1>8. LinkType'
  BY <1>5, <1>6, <1>7 DEF LinkType
<1> QED BY <1>3, <1>4, <1>6, <1>8 DEF RoamType

\* And giving up what a state was doing.
LEMMA StateAbortType ==
  ASSUME LinkType, RoamType, ChType, ScanType, connReq \in BOOLEAN,
         NEW r \in Reasons, NEW delay \in BOOLEAN, NEW p \in Seq(Requests),
         NEW box \in Seq(Messages), NEW t \in SUBSET Timers,
         StateAbort(r, delay, p, box, t)
  PROVE  /\ PendType' /\ BoxType' /\ LinkType' /\ RoamType' /\ ChType' /\ TimerType'
         /\ ScanType' /\ connReq' \in BOOLEAN /\ goto' \in {"IDLE", "DISCONNECTING"}
<1> DEFINE connected == conn /\ ais \in {"WAIT", "LOOKING_FOR", "REQ_CHANNEL_JOIN",
                                         "JOIN", "ONLINE_SCAN", "NORMAL_TR"}
           deauth == connected /\ r = "NEW" /\ apRec = "used"
           ends == ais = "JOIN" \/ ais = "DISCONNECTING" \/ (connected /\ ~deauth)
           gives == ends \/ ais \in {"REQ_CHANNEL_JOIN", "REQ_REMAIN", "REMAIN"}
           p1 == IF ais \in {"SCAN", "ONLINE_SCAN"} THEN PutIfNone(p, "SCAN") ELSE p
           t1 == t \ ((IF ais = "WAIT" THEN {"bg"} ELSE {})
                       \cup (IF ais = "REMAIN" THEN {"ch"} ELSE {})
                       \cup (IF ends THEN {"join"} ELSE {}))
           s1 == IF ais \in Scanning THEN ScanCancelled ELSE <<>>
           s2 == IF ais = "JOIN" THEN JoinAbort ELSE IF gives THEN ChAbort ELSE <<>>
<1>1. p1 \in Seq(Requests)
  BY ListTypes DEF Requests
<1>2. t1 \in SUBSET Timers
  OBVIOUS
<1>3. s1 \in Seq(Messages) /\ s2 \in Seq(Messages)
  BY AbortTypes DEF LinkType
<1>4. ends \in BOOLEAN
  OBVIOUS
<1>5. /\ reason' = r
      /\ scn' \in {scn, scn \ {0}}
      /\ mbox' = box \o s1 \o s2
      /\ finished' = (finished \/ ends)
      /\ (chReq' = FALSE /\ chGrant' = FALSE) \/ UNCHANGED <<chReq, chGrant>>
      /\ connReq' = (connReq /\ ais # "JOIN")
      /\ \/ /\ pend' = p1 /\ timers' = t1 /\ goto' = "DISCONNECTING"
            /\ UNCHANGED <<conn, apRec, target, roam, indicated, host>>
         \/ Disconnect(r, delay, p1, t1)
  BY DEF StateAbort, ReleaseChFlags
<1> HIDE DEF p1, t1, s1, s2, ends
<1>6. BoxType'
  BY <1>3, <1>5, ConcatProperties DEF BoxType
<1>7. ScanType'
  BY <1>5 DEF ScanType
<1>8. finished' \in BOOLEAN
  BY <1>4, <1>5 DEF ChType
<1>9. chReq' \in BOOLEAN /\ chGrant' \in BOOLEAN
  BY <1>5, Zenon DEF ChType
<1>10. connReq' \in BOOLEAN
  BY <1>5
<1>11. PendType' /\ LinkType' /\ RoamType' /\ TimerType' /\ goto' \in {"IDLE", "DISCONNECTING"}
  <2>1. CASE /\ pend' = p1 /\ timers' = t1 /\ goto' = "DISCONNECTING"
             /\ UNCHANGED <<conn, apRec, target, roam, indicated, host>>
    BY <1>1, <1>2, <1>5, <2>1 DEF PendType, LinkType, RoamType, TimerType
  <2>2. CASE Disconnect(r, delay, p1, t1)
    BY <1>1, <1>2, <1>5, <2>2, DisconnectType
  <2> QED BY <1>5, <2>1, <2>2
<1> QED BY <1>6, <1>7, <1>8, <1>9, <1>10, <1>11 DEF ChType

\* What is left alone keeps its type.
LEMMA Untouched ==
  /\ PlaceType /\ UNCHANGED <<ais, goto>> => PlaceType'
  /\ PendType /\ UNCHANGED <<pend>> => PendType'
  /\ BoxType /\ UNCHANGED <<mbox>> => BoxType'
  /\ LinkType /\ UNCHANGED <<linkVars>> => LinkType'
  /\ UserType /\ UNCHANGED <<userVars>> => UserType'
  /\ JoinType /\ UNCHANGED <<joinVars>> => JoinType'
  /\ ChType /\ UNCHANGED <<chVars>> => ChType'
  /\ TimerType /\ UNCHANGED <<timers>> => TimerType'
  /\ RoamType /\ UNCHANGED <<roam>> => RoamType'
  /\ ScanType /\ UNCHANGED <<scn>> => ScanType'
  /\ FwType /\ UNCHANGED <<fwVars>> => FwType'
  /\ SaaType /\ UNCHANGED <<saa>> => SaaType'
  /\ CountType /\ UNCHANGED <<draining, events>> => CountType'
<1>1. PlaceType /\ UNCHANGED <<ais, goto>> => PlaceType'
  BY DEF PlaceType
<1>2. PendType /\ UNCHANGED <<pend>> => PendType'
  BY DEF PendType
<1>3. BoxType /\ UNCHANGED <<mbox>> => BoxType'
  BY DEF BoxType
<1>4. LinkType /\ UNCHANGED <<linkVars>> => LinkType'
  BY DEF LinkType, linkVars
<1>5. UserType /\ UNCHANGED <<userVars>> => UserType'
  BY DEF UserType, userVars
<1>6. JoinType /\ UNCHANGED <<joinVars>> => JoinType'
  BY DEF JoinType, joinVars
<1>7. ChType /\ UNCHANGED <<chVars>> => ChType'
  BY DEF ChType, chVars
<1>8. TimerType /\ UNCHANGED <<timers>> => TimerType'
  BY DEF TimerType
<1>9. RoamType /\ UNCHANGED <<roam>> => RoamType'
  BY DEF RoamType
<1>10. ScanType /\ UNCHANGED <<scn>> => ScanType'
  BY DEF ScanType
<1>11. FwType /\ UNCHANGED <<fwVars>> => FwType'
  BY DEF FwType, fwVars
<1>12. SaaType /\ UNCHANGED <<saa>> => SaaType'
  BY DEF SaaType
<1>13. CountType /\ UNCHANGED <<draining, events>> => CountType'
  BY DEF CountType
<1> QED BY <1>1, <1>2, <1>3, <1>4, <1>5, <1>6, <1>7, <1>8, <1>9, <1>10, <1>11, <1>12,
           <1>13

\* A pass of aisFsmSteps() keeps the types.
LEMMA StepsKeepTypes ==
  ASSUME TypeOK, Steps
  PROVE  TypeOK'
<1> USE TypeParts, TypePartsNext
<1>1. CASE EnterIdle
  <2>1. pend \in Seq(Requests)
    BY DEF PendType
  <2> DEFINE head == IF pend = <<>> THEN "none" ELSE Head(pend)
             rest == IF pend = <<>> THEN <<>> ELSE Tail(pend)
  <2>2. rest \in Seq(Requests)
    BY <2>1, HeadTailProperties, EmptySeq
  <2>3. /\ pend' \in {rest, Without(rest, "SCAN")}
        /\ ais' = "IDLE" /\ goto' \in {"SEARCH", "SCAN", "REQ_REMAIN", "none"}
        /\ \/ tryScan' = TRUE /\ trial' = 0
           \/ UNCHANGED <<tryScan, trial>>
    BY <1>1 DEF EnterIdle, Enter, Then
  <2>4. trial' \in 0..TrialLimit + 1
    BY <2>3 DEF JoinType, TrialLimit
  <2>5. tryScan' \in BOOLEAN
    BY <2>3, Zenon DEF JoinType
  <2>6. PlaceType'
    BY <2>3 DEF PlaceType, States, Resting
  <2>7. PendType'
    BY <2>2, <2>3, WithoutType DEF PendType
  <2>8. JoinType'
    BY <2>4, <2>5, <1>1 DEF EnterIdle, JoinType
  <2>9. TimerType'
    BY <1>1 DEF EnterIdle, TimerType, Timers
  <2>10. CountType'
    BY <1>1 DEF EnterIdle, CountType, KeepDraining
  <2>11. UNCHANGED <<mbox, linkVars, userVars, chVars, roam, scn, fwVars, saa>>
    BY <1>1 DEF EnterIdle, linkVars, userVars, joinVars, chVars, fwVars
  <2>12. /\ BoxType' /\ LinkType' /\ UserType' /\ ChType' /\ RoamType'
        /\ ScanType' /\ FwType' /\ SaaType'
    BY <2>11, Untouched
  <2> QED BY <2>6, <2>7, <2>8, <2>9, <2>10, <2>12
<1>2. CASE EnterSearch
  <2>1. PlaceType'
    BY <1>2 DEF EnterSearch, PlaceType, Join, NoBss, Enter, Then, States, Resting
  <2>2. PendType'
    BY AppendProperties, <1>2 DEF EnterSearch, PendType, Join, NoBss, Requests
  <2>3. LinkType'
    BY <1>2 DEF EnterSearch, LinkType, Join, NoBss, Candidates
  <2>4. UserType'
    BY <1>2 DEF EnterSearch, UserType, Join, NoBss
  <2>5. JoinType'
    BY <1>2 DEF EnterSearch, JoinType, MoreTrial, Join, NoBss, TrialLimit
  <2>6. RoamType'
    BY <1>2 DEF EnterSearch, RoamType, RoamFailed, Join, NoBss
  <2>7. CountType'
    BY <1>2 DEF EnterSearch, CountType, KeepDraining
  <2>8. UNCHANGED <<mbox, chVars, timers, scn, fwVars, saa>>
    BY <1>2 DEF EnterSearch, linkVars, userVars, joinVars, chVars, fwVars
  <2>9. /\ BoxType' /\ ChType' /\ TimerType' /\ ScanType' /\ FwType'
        /\ SaaType'
    BY <2>8, Untouched
  <2> QED BY <2>1, <2>2, <2>3, <2>4, <2>5, <2>6, <2>7, <2>9
<1>3. CASE EnterWait
  <2>1. PlaceType'
    BY <1>3 DEF EnterWait, PlaceType, Enter, Then, States, Resting
  <2>2. TimerType'
    BY <1>3 DEF EnterWait, TimerType, Timers
  <2>3. CountType'
    BY <1>3 DEF EnterWait, CountType, KeepDraining
  <2>4. UNCHANGED <<pend, mbox, linkVars, userVars, joinVars, chVars, roam, scn,
                      fwVars, saa>>
    BY <1>3 DEF EnterWait, linkVars, userVars, joinVars, chVars, fwVars
  <2>5. /\ PendType' /\ BoxType' /\ LinkType' /\ UserType' /\ JoinType'
        /\ ChType' /\ RoamType' /\ ScanType' /\ FwType' /\ SaaType'
    BY <2>4, Untouched
  <2> QED BY <2>1, <2>2, <2>3, <2>5
<1>4. CASE EnterScan
  <2>1. PlaceType'
    BY <1>4 DEF EnterScan, PlaceType, Enter, Then, Scanning, States, Resting
  <2>2. BoxType'
    BY AgedType, MessageTypes, <1>4 DEF EnterScan, BoxType, Numbered, Ages
  <2>3. JoinType'
    BY <1>4 DEF EnterScan, JoinType
  <2>4. ScanType'
    BY <1>4 DEF EnterScan, ScanType, Aged, Ages
  <2>5. CountType'
    BY <1>4 DEF EnterScan, CountType, KeepDraining
  <2>6. UNCHANGED <<pend, linkVars, userVars, chVars, timers, roam, fwVars, saa>>
    BY <1>4 DEF EnterScan, linkVars, userVars, joinVars, chVars, fwVars
  <2>7. /\ PendType' /\ LinkType' /\ UserType' /\ ChType' /\ TimerType'
        /\ RoamType' /\ FwType' /\ SaaType'
    BY <2>6, Untouched
  <2> QED BY <2>1, <2>2, <2>3, <2>4, <2>5, <2>7
<1>5. CASE EnterReqChannel
  <2>1. PlaceType'
    BY <1>5 DEF EnterReqChannel, PlaceType, Enter, Then, States, Resting
  <2>2. BoxType'
    BY AgedType, MessageTypes, <1>5 DEF EnterReqChannel, BoxType, Numbered, Ages
  <2>3. ChType'
    BY <1>5 DEF EnterReqChannel, ChType
  <2>4. FwType'
    BY <1>5 DEF EnterReqChannel, FwType, Aged, Ages
  <2>5. CountType'
    BY <1>5 DEF EnterReqChannel, CountType, KeepDraining
  <2>6. UNCHANGED <<pend, linkVars, userVars, joinVars, timers, roam, scn, saa>>
    BY <1>5 DEF EnterReqChannel, linkVars, userVars, joinVars, chVars, fwVars
  <2>7. /\ PendType' /\ LinkType' /\ UserType' /\ JoinType' /\ TimerType'
        /\ RoamType' /\ ScanType' /\ SaaType'
    BY <2>6, Untouched
  <2> QED BY <2>1, <2>2, <2>3, <2>4, <2>5, <2>7
<1>6. CASE EnterJoin
  <2>1. PlaceType'
    BY <1>6 DEF EnterJoin, PlaceType, Enter, Then, States, Resting
  <2>2. BoxType'
    BY AgedType, MessageTypes, <1>6 DEF EnterJoin, BoxType, Numbered, Ages
  <2>3. LinkType'
    BY <1>6 DEF EnterJoin, LinkType
  <2>4. JoinType'
    BY AisFsmAssumption, <1>6 DEF EnterJoin, JoinType
  <2>5. SaaType'
    BY <1>6 DEF EnterJoin, SaaType, Ages
  <2>6. CountType'
    BY <1>6 DEF EnterJoin, CountType, KeepDraining
  <2>7. UNCHANGED <<pend, userVars, chVars, timers, roam, scn, fwVars>>
    BY <1>6 DEF EnterJoin, linkVars, userVars, joinVars, chVars, fwVars
  <2>8. /\ PendType' /\ UserType' /\ ChType' /\ TimerType' /\ RoamType'
        /\ ScanType' /\ FwType'
    BY <2>7, Untouched
  <2> QED BY <2>1, <2>2, <2>3, <2>4, <2>5, <2>6, <2>8
<1>7. CASE EnterNormalTr
  <2> DEFINE i == SelectInSeq(ServedInTurn, LAMBDA r : Pends(pend, r))
             I == {k \in 1..4 : Pends(pend, ServedInTurn[k])}
  <2>1. Len(ServedInTurn) = 4
    BY DEF ServedInTurn
  <2>2. i = IF I # {} THEN Min(I) ELSE 0
    BY <2>1 DEF SelectInSeq
  <2>3. I \subseteq 1..4 /\ I \subseteq Nat
    OBVIOUS
  <2> HIDE DEF I
  <2>4. I # {} => Min(I) \in 1..4
    BY <2>3, MinIs
  <2> HIDE DEF i
  <2>5. i > 0 => i \in 1..4
    BY <2>2, <2>4
  <2>6. /\ ais' = "NORMAL_TR"
        /\ (pend' = pend /\ goto' = "none")
           \/ (i > 0 /\ pend' = Without(pend, ServedInTurn[i]) /\ goto' = ServedBy[i])
    BY <1>7 DEF EnterNormalTr, Enter, Then, i
  <2>7. PlaceType'
    BY <2>5, <2>6 DEF PlaceType, ServedBy, States, Resting
  <2>8. PendType'
    BY <2>6, WithoutType DEF PendType
  <2>9. CountType'
    BY <1>7 DEF EnterNormalTr, CountType, KeepDraining
  <2>10. UNCHANGED <<mbox, linkVars, userVars, joinVars, chVars, timers, roam,
                      scn, fwVars, saa>>
    BY <1>7 DEF EnterNormalTr, linkVars, userVars, joinVars, chVars, fwVars
  <2>11. /\ BoxType' /\ LinkType' /\ UserType' /\ JoinType' /\ ChType'
        /\ TimerType' /\ RoamType' /\ ScanType' /\ FwType' /\ SaaType'
    BY <2>10, Untouched
  <2> QED BY <2>7, <2>8, <2>9, <2>11
<1>8. CASE EnterDisconnecting
  <2>1. PlaceType'
    BY <1>8 DEF EnterDisconnecting, PlaceType, Enter, Then, States, Resting
  <2>2. TimerType'
    BY <1>8 DEF EnterDisconnecting, TimerType, Timers
  <2>3. FwType'
    BY <1>8 DEF EnterDisconnecting, FwType
  <2>4. CountType'
    BY <1>8 DEF EnterDisconnecting, CountType, KeepDraining
  <2>5. UNCHANGED <<pend, mbox, linkVars, userVars, joinVars, chVars, roam, scn,
                      saa>>
    BY <1>8 DEF EnterDisconnecting, linkVars, userVars, joinVars, chVars, fwVars
  <2>6. /\ PendType' /\ BoxType' /\ LinkType' /\ UserType' /\ JoinType'
        /\ ChType' /\ RoamType' /\ ScanType' /\ SaaType'
    BY <2>5, Untouched
  <2> QED BY <2>1, <2>2, <2>3, <2>4, <2>6
<1>9. CASE EnterRemain
  <2>1. PlaceType'
    BY <1>9 DEF EnterRemain, PlaceType, Enter, Then, States, Resting
  <2>2. CountType'
    BY <1>9 DEF EnterRemain, CountType, KeepDraining
  <2>3. UNCHANGED <<pend, mbox, linkVars, userVars, joinVars, chVars, timers,
                      roam, scn, fwVars, saa>>
    BY <1>9 DEF EnterRemain, linkVars, userVars, joinVars, chVars, fwVars
  <2>4. /\ PendType' /\ BoxType' /\ LinkType' /\ UserType' /\ JoinType'
        /\ ChType' /\ TimerType' /\ RoamType' /\ ScanType' /\ FwType'
        /\ SaaType'
    BY <2>3, Untouched
  <2> QED BY <2>1, <2>2, <2>4
<1> QED BY <1>1, <1>2, <1>3, <1>4, <1>5, <1>6, <1>7, <1>8, <1>9 DEF Steps

\* So does the handler of a message.
LEMMA HandleKeepsTypes ==
  ASSUME TypeOK, Handle
  PROVE  TypeOK'
<1> USE TypeParts, TypePartsNext
<1>1. CASE ScanDone
  <2>1. mbox # <<>> /\ mbox \in Seq(Messages)
    BY <1>1 DEF ScanDone, Recv, BoxType
  <2>2. Head(mbox) \in Messages /\ Tail(mbox) \in Seq(Messages)
    BY <2>1, HeadTailProperties
  <2>3. PlaceType'
    BY <1>1 DEF ScanDone, PlaceType, Recv, Then, AfterScan, States, Resting
  <2>4. BoxType'
    BY <1>1, <2>2 DEF ScanDone, BoxType
  <2>5. UserType'
    BY <1>1 DEF ScanDone, UserType
  <2>6. TimerType'
    BY <1>1 DEF ScanDone, TimerType
  <2>7. RoamType'
    BY <1>1 DEF ScanDone, RoamType, RoamAfterScan
  <2>8. CountType'
    BY <1>1 DEF ScanDone, CountType, StillDraining
  <2>9. UNCHANGED <<pend, linkVars, joinVars, chVars, scn, fwVars, saa>>
    BY <1>1 DEF ScanDone, linkVars, userVars, joinVars, chVars, fwVars
  <2>10. /\ PendType' /\ LinkType' /\ JoinType' /\ ChType' /\ ScanType'
        /\ FwType' /\ SaaType'
    BY <2>9, Untouched
  <2> QED BY <2>3, <2>4, <2>5, <2>6, <2>7, <2>8, <2>10
<1>2. CASE Abort
  <2>1. mbox # <<>> /\ mbox \in Seq(Messages)
    BY <1>2 DEF Abort, Recv, BoxType
  <2>2. Head(mbox) \in Messages /\ Tail(mbox) \in Seq(Messages)
    BY <2>1, HeadTailProperties
  <2> DEFINE r == Head(mbox).reason
             roaming == r = "ROAMING" /\ ais # "DISCONNECTING"
             p == PutOnce(pend, "RECONNECT")
  <2>3. r \in Reasons /\ Head(mbox).delay \in BOOLEAN
    BY <1>2, <2>2, MessageParts DEF Abort, Recv
  <2>4. p \in Seq(Requests) /\ Append(NoRoaming(pend), "ROAMING_CONNECT") \in Seq(Requests)
    BY ListTypes, AppendProperties DEF PendType, Requests
  <2>5. \/ /\ goto' \in {"SEARCH", "none"} /\ mbox' = Tail(mbox)
           /\ pend' \in {pend, p, Append(NoRoaming(pend), "ROAMING_CONNECT")}
           /\ UNCHANGED <<linkVars, connReq, chVars, timers, roam, scn>>
        \/ StateAbort(r, Head(mbox).delay, p, Tail(mbox), timers)
    BY <1>2 DEF Abort, Then
  <2> HIDE DEF p, r
  <2>6. /\ PendType' /\ BoxType' /\ LinkType' /\ RoamType' /\ ChType' /\ TimerType'
        /\ ScanType' /\ connReq' \in BOOLEAN
        /\ goto' \in {"IDLE", "DISCONNECTING", "SEARCH", "none"}
    <3>1. CASE StateAbort(r, Head(mbox).delay, p, Tail(mbox), timers)
      <4>1. connReq \in BOOLEAN /\ timers \in SUBSET Timers
        BY DEF UserType, TimerType
      <4> QED BY <2>2, <2>3, <2>4, <3>1, <4>1, StateAbortType
    <3>2. CASE /\ goto' \in {"SEARCH", "none"} /\ mbox' = Tail(mbox)
               /\ pend' \in {pend, p, Append(NoRoaming(pend), "ROAMING_CONNECT")}
               /\ UNCHANGED <<linkVars, connReq, chVars, timers, roam, scn>>
      <4>1. PendType' /\ BoxType'
        BY <2>2, <2>4, <3>2 DEF PendType, BoxType
      <4>2. UNCHANGED <<linkVars, chVars, timers, roam, scn, connReq>>
        BY <3>2
      <4>3. LinkType' /\ RoamType' /\ ChType' /\ TimerType' /\ ScanType'
        BY <4>2, Untouched
      <4>4. connReq' \in BOOLEAN
        BY <4>2 DEF UserType
      <4> QED BY <3>2, <4>1, <4>3, <4>4
    <3> QED BY <2>5, <3>1, <3>2
  <2>7. discNR' \in BOOLEAN /\ joinOld' \in BOOLEAN
    BY <1>2 DEF Abort
  <2>8. PlaceType'
    BY <2>6, <1>2 DEF Abort, PlaceType, AbortKeeps, States, Resting
  <2>9. PendType'
    BY <2>6, <1>2 DEF Abort, PendType
  <2>10. BoxType'
    BY <2>6, <1>2 DEF Abort, BoxType
  <2>11. LinkType'
    BY <2>6, <1>2 DEF Abort, LinkType
  <2>12. UserType'
    BY <2>6, <2>7, <1>2 DEF Abort, UserType, AbortKeeps
  <2>13. JoinType'
    BY <2>7, <1>2 DEF Abort, JoinType, AbortKeeps
  <2>14. ChType'
    BY <2>6, <1>2 DEF Abort, ChType
  <2>15. TimerType'
    BY <2>6, <1>2 DEF Abort, TimerType
  <2>16. RoamType'
    BY <2>6, <1>2 DEF Abort, RoamType
  <2>17. ScanType'
    BY <2>6, <1>2 DEF Abort, ScanType
  <2>18. FwType'
    BY <1>2 DEF Abort, FwType, AbortKeeps
  <2>19. SaaType'
    BY <1>2 DEF Abort, SaaType, AbortKeeps
  <2>20. CountType'
    BY <1>2 DEF Abort, CountType, AbortKeeps, StillDraining
  <2> QED BY <2>8, <2>9, <2>10, <2>11, <2>12, <2>13, <2>14, <2>15, <2>16, <2>17,
           <2>18, <2>19, <2>20
<1>3. CASE ChGrant
  <2>1. mbox # <<>> /\ mbox \in Seq(Messages)
    BY <1>3 DEF ChGrant, Recv, BoxType
  <2>2. Head(mbox) \in Messages /\ Tail(mbox) \in Seq(Messages)
    BY <2>1, HeadTailProperties
  <2>3. /\ mbox' \in {Tail(mbox), Tail(mbox) \o ChAbort}
        /\ (chGrant' = TRUE /\ chReq' = chReq) \/ (chReq' = FALSE /\ chGrant' = FALSE)
    BY <1>3 DEF ChGrant, ReleaseChFlags
  <2>4. ChAbort \in Seq(Messages) /\ Tail(mbox) \o ChAbort \in Seq(Messages)
    BY <2>2, AbortTypes, ConcatProperties DEF LinkType
  <2>5. chReq' \in BOOLEAN /\ chGrant' \in BOOLEAN
    BY <2>3, Zenon DEF ChType
  <2>6. finished' \in BOOLEAN
    BY <1>3 DEF ChGrant
  <2>7. PlaceType'
    BY <1>3 DEF ChGrant, PlaceType, Recv, Then, States, Resting
  <2>8. BoxType'
    BY <2>2, <2>3, <2>4 DEF BoxType
  <2>9. ChType'
    BY <2>5, <2>6 DEF ChType
  <2>10. TimerType'
    BY <1>3 DEF ChGrant, TimerType, Timers
  <2>11. CountType'
    BY <1>3 DEF ChGrant, CountType, StillDraining
  <2>12. UNCHANGED <<pend, linkVars, userVars, joinVars, roam, scn, fwVars, saa>>
    BY <1>3 DEF ChGrant, linkVars, userVars, joinVars, chVars, fwVars
  <2>13. /\ PendType' /\ LinkType' /\ UserType' /\ JoinType' /\ RoamType'
        /\ ScanType' /\ FwType' /\ SaaType'
    BY <2>12, Untouched
  <2> QED BY <2>7, <2>8, <2>9, <2>10, <2>11, <2>13
<1>4. CASE Remain
  <2>1. mbox # <<>> /\ mbox \in Seq(Messages)
    BY <1>4 DEF Remain, Recv, BoxType
  <2>2. Head(mbox) \in Messages /\ Tail(mbox) \in Seq(Messages)
    BY <2>1, HeadTailProperties
  <2>3. PlaceType'
    BY <1>4 DEF Remain, PlaceType, Recv, Then, States, Resting
  <2>4. PendType'
    BY AppendProperties, <1>4 DEF Remain, PendType, Requests
  <2>5. BoxType'
    BY <1>4, <2>2 DEF Remain, BoxType
  <2>6. CountType'
    BY <1>4 DEF Remain, CountType, StillDraining
  <2>7. UNCHANGED <<linkVars, userVars, joinVars, chVars, timers, roam, scn,
                      fwVars, saa>>
    BY <1>4 DEF Remain, linkVars, userVars, joinVars, chVars, fwVars
  <2>8. /\ LinkType' /\ UserType' /\ JoinType' /\ ChType' /\ TimerType'
        /\ RoamType' /\ ScanType' /\ FwType' /\ SaaType'
    BY <2>7, Untouched
  <2> QED BY <2>3, <2>4, <2>5, <2>6, <2>8
<1>5. CASE CancelRemain
  <2>1. mbox # <<>> /\ mbox \in Seq(Messages)
    BY <1>5 DEF CancelRemain, Recv, BoxType
  <2>2. Head(mbox) \in Messages /\ Tail(mbox) \in Seq(Messages)
    BY <2>1, HeadTailProperties
  <2>3. /\ mbox' \in {Tail(mbox), Tail(mbox) \o ChAbort}
        /\ (chReq' = FALSE /\ chGrant' = FALSE) \/ UNCHANGED <<chReq, chGrant>>
    BY <1>5 DEF CancelRemain, ReleaseChFlags
  <2>4. ChAbort \in Seq(Messages) /\ Tail(mbox) \o ChAbort \in Seq(Messages)
    BY <2>2, AbortTypes, ConcatProperties DEF LinkType
  <2>5. chReq' \in BOOLEAN /\ chGrant' \in BOOLEAN
    BY <2>3, Zenon DEF ChType
  <2>6. PlaceType'
    BY <1>5 DEF CancelRemain, PlaceType, Recv, Then, States, Resting
  <2>7. PendType'
    BY WithoutType, <1>5 DEF CancelRemain, PendType
  <2>8. BoxType'
    BY <2>2, <2>3, <2>4 DEF BoxType
  <2>9. ChType'
    BY <2>5, <1>5 DEF CancelRemain, ChType
  <2>10. TimerType'
    BY <1>5 DEF CancelRemain, TimerType
  <2>11. CountType'
    BY <1>5 DEF CancelRemain, CountType, StillDraining
  <2>12. UNCHANGED <<linkVars, userVars, joinVars, roam, scn, fwVars, saa>>
    BY <1>5 DEF CancelRemain, linkVars, userVars, joinVars, chVars, fwVars
  <2>13. /\ LinkType' /\ UserType' /\ JoinType' /\ RoamType' /\ ScanType'
        /\ FwType' /\ SaaType'
    BY <2>12, Untouched
  <2> QED BY <2>6, <2>7, <2>8, <2>9, <2>10, <2>11, <2>13
<1>6. CASE ScanStart
  <2>1. mbox # <<>> /\ mbox \in Seq(Messages)
    BY <1>6 DEF ScanStart, Recv, BoxType
  <2>2. Head(mbox) \in Messages /\ Tail(mbox) \in Seq(Messages)
    BY <2>1, HeadTailProperties
  <2>3. PlaceType'
    BY <1>6 DEF ScanStart, PlaceType, Recv, Then
  <2>4. BoxType'
    BY <1>6, <2>2 DEF ScanStart, BoxType
  <2>5. ScanType'
    BY <2>2, MessageParts, <1>6 DEF ScanStart, ScanType, Recv, Numbered
  <2>6. CountType'
    BY <1>6 DEF ScanStart, CountType, StillDraining
  <2>7. UNCHANGED <<pend, linkVars, userVars, joinVars, chVars, timers, roam,
                      fwVars, saa>>
    BY <1>6 DEF ScanStart, linkVars, userVars, joinVars, chVars, fwVars
  <2>8. /\ PendType' /\ LinkType' /\ UserType' /\ JoinType' /\ ChType'
        /\ TimerType' /\ RoamType' /\ FwType' /\ SaaType'
    BY <2>7, Untouched
  <2> QED BY <2>3, <2>4, <2>5, <2>6, <2>8
<1>7. CASE ChPrivilege
  <2>1. mbox # <<>> /\ mbox \in Seq(Messages)
    BY <1>7 DEF ChPrivilege, Recv, BoxType
  <2>2. Head(mbox) \in Messages /\ Tail(mbox) \in Seq(Messages)
    BY <2>1, HeadTailProperties
  <2>3. PlaceType'
    BY <1>7 DEF ChPrivilege, PlaceType, Recv, Then
  <2>4. BoxType'
    BY <1>7, <2>2 DEF ChPrivilege, BoxType
  <2>5. FwType'
    BY <2>2, MessageParts, <1>7 DEF ChPrivilege, FwType, Recv, Numbered
  <2>6. CountType'
    BY <1>7 DEF ChPrivilege, CountType, StillDraining
  <2>7. UNCHANGED <<pend, linkVars, userVars, joinVars, chVars, timers, roam,
                      scn, saa>>
    BY <1>7 DEF ChPrivilege, linkVars, userVars, joinVars, chVars, fwVars
  <2>8. /\ PendType' /\ LinkType' /\ UserType' /\ JoinType' /\ ChType'
        /\ TimerType' /\ RoamType' /\ ScanType' /\ SaaType'
    BY <2>7, Untouched
  <2> QED BY <2>3, <2>4, <2>5, <2>6, <2>8
<1>8. CASE SaaStart
  <2>1. mbox # <<>> /\ mbox \in Seq(Messages)
    BY <1>8 DEF SaaStart, Recv, BoxType
  <2>2. Head(mbox) \in Messages /\ Tail(mbox) \in Seq(Messages)
    BY <2>1, HeadTailProperties
  <2>3. PlaceType'
    BY <1>8 DEF SaaStart, PlaceType, Recv, Then
  <2>4. BoxType'
    BY <1>8, <2>2 DEF SaaStart, BoxType
  <2>5. SaaType'
    BY <2>2, MessageParts, <1>8 DEF SaaStart, SaaType, Recv, Numbered
  <2>6. CountType'
    BY <1>8 DEF SaaStart, CountType, StillDraining
  <2>7. UNCHANGED <<pend, linkVars, userVars, joinVars, chVars, timers, roam,
                      scn, fwVars>>
    BY <1>8 DEF SaaStart, linkVars, userVars, joinVars, chVars, fwVars
  <2>8. /\ PendType' /\ LinkType' /\ UserType' /\ JoinType' /\ ChType'
        /\ TimerType' /\ RoamType' /\ ScanType' /\ FwType'
    BY <2>7, Untouched
  <2> QED BY <2>3, <2>4, <2>5, <2>6, <2>8
<1>9. CASE SaaAbort
  <2>1. mbox # <<>> /\ mbox \in Seq(Messages)
    BY <1>9 DEF SaaAbort, Recv, BoxType
  <2>2. Head(mbox) \in Messages /\ Tail(mbox) \in Seq(Messages)
    BY <2>1, HeadTailProperties
  <2>3. PlaceType'
    BY <1>9 DEF SaaAbort, PlaceType, Recv, Then
  <2>4. BoxType'
    BY <1>9, <2>2 DEF SaaAbort, BoxType
  <2>5. LinkType'
    BY <1>9 DEF SaaAbort, LinkType
  <2>6. SaaType'
    BY <1>9 DEF SaaAbort, SaaType
  <2>7. CountType'
    BY <1>9 DEF SaaAbort, CountType, StillDraining
  <2>8. UNCHANGED <<pend, userVars, joinVars, chVars, timers, roam, scn, fwVars>>
    BY <1>9 DEF SaaAbort, linkVars, userVars, joinVars, chVars, fwVars
  <2>9. /\ PendType' /\ UserType' /\ JoinType' /\ ChType' /\ TimerType'
        /\ RoamType' /\ ScanType' /\ FwType'
    BY <2>8, Untouched
  <2> QED BY <2>3, <2>4, <2>5, <2>6, <2>7, <2>9
<1> QED BY <1>1, <1>2, <1>3, <1>4, <1>5, <1>6, <1>7, <1>8, <1>9 DEF Handle

\* What the user and the AP start keeps them,
LEMMA UserKeepsTypes ==
  ASSUME TypeOK, User
  PROVE  TypeOK'
<1> USE TypeParts, TypePartsNext
<1>1. CASE OsScan
  <2>1. PlaceType'
    BY <1>1 DEF OsScan, PlaceType, Event, Outside, Then, States, Resting
  <2>2. PendType'
    BY AppendProperties, <1>1 DEF OsScan, PendType, Requests
  <2>3. UserType'
    BY <1>1 DEF OsScan, UserType
  <2>4. TimerType'
    BY <1>1 DEF OsScan, TimerType, Timers
  <2>5. CountType'
    BY AisFsmAssumption, <1>1 DEF OsScan, CountType, Event
  <2>6. UNCHANGED <<mbox, linkVars, joinVars, chVars, roam, scn, fwVars, saa>>
    BY <1>1 DEF OsScan, linkVars, userVars, joinVars, chVars, fwVars
  <2>7. /\ BoxType' /\ LinkType' /\ JoinType' /\ ChType' /\ RoamType'
        /\ ScanType' /\ FwType' /\ SaaType'
    BY <2>6, Untouched
  <2> QED BY <2>1, <2>2, <2>3, <2>4, <2>5, <2>7
<1>2. CASE Connect
  <2>1. \E r \in Reasons, d \in BOOLEAN : mbox' = Append(mbox, AbortMsg(r, d))
    <3>1. PICK sameSsid \in BOOLEAN, sameBssid \in BOOLEAN :
            Send(AbortMsg(IF (host = "connected" /\ sameSsid) /\ sameBssid THEN "REASSOC"
                          ELSE IF host = "connected" /\ sameSsid THEN "ROAMING" ELSE "NEW",
                          sameSsid \/ sameBssid))
      BY <1>2 DEF Connect
    <3>2. (sameSsid \/ sameBssid) \in BOOLEAN
      OBVIOUS
    <3> QED BY <3>1, <3>2 DEF Send, Reasons
  <2>2. BoxType'
    BY <2>1, MessageTypes, AppendProperties DEF BoxType
  <2>3. fails' \in {fails, 0} /\ UNCHANGED <<tryScan, trial, joinOld, authLeft>>
    BY <1>2 DEF Connect
  <2>4. Event("connect") /\ UNCHANGED draining
    BY <1>2 DEF Connect
  <2>5. BoxType'
    BY <2>2, <1>2 DEF Connect, BoxType
  <2>6. LinkType'
    BY <1>2 DEF Connect, LinkType
  <2>7. UserType'
    BY <1>2 DEF Connect, UserType
  <2>8. JoinType'
    BY <2>3 DEF JoinType, MaxJoinFailure
  <2>9. CountType'
    BY <2>4, AisFsmAssumption DEF CountType, Event
  <2>10. UNCHANGED <<ais, goto, pend, chVars, timers, roam, scn, fwVars, saa>>
    BY <1>2 DEF Connect, linkVars, userVars, joinVars, chVars, fwVars
  <2>11. /\ PlaceType' /\ PendType' /\ ChType' /\ TimerType' /\ RoamType'
        /\ ScanType' /\ FwType' /\ SaaType'
    BY <2>10, Untouched
  <2> QED BY <2>5, <2>6, <2>7, <2>8, <2>9, <2>11
<1>3. CASE UserDisconnect
  <2>1. BoxType'
    BY MessageTypes, AppendProperties, <1>3 DEF UserDisconnect, BoxType, Send, Reasons
  <2>2. LinkType'
    BY <1>3 DEF UserDisconnect, LinkType
  <2>3. UserType'
    BY <1>3 DEF UserDisconnect, UserType
  <2>4. CountType'
    BY AisFsmAssumption, <1>3 DEF UserDisconnect, CountType, Event
  <2>5. UNCHANGED <<ais, goto, pend, joinVars, chVars, timers, roam, scn,
                      fwVars, saa>>
    BY <1>3 DEF UserDisconnect, linkVars, userVars, joinVars, chVars, fwVars
  <2>6. /\ PlaceType' /\ PendType' /\ JoinType' /\ ChType' /\ TimerType'
        /\ RoamType' /\ ScanType' /\ FwType' /\ SaaType'
    BY <2>5, Untouched
  <2> QED BY <2>1, <2>2, <2>3, <2>4, <2>6
<1>4. CASE Deauth
  <2>1. BoxType'
    BY MessageTypes, AppendProperties, <1>4 DEF Deauth, BoxType, Send, Reasons
  <2>2. CountType'
    BY AisFsmAssumption, <1>4 DEF Deauth, CountType, Event
  <2>3. UNCHANGED <<ais, goto, pend, linkVars, userVars, joinVars, chVars,
                      timers, roam, scn, fwVars, saa>>
    BY <1>4 DEF Deauth, linkVars, userVars, joinVars, chVars, fwVars
  <2>4. /\ PlaceType' /\ PendType' /\ LinkType' /\ UserType' /\ JoinType'
        /\ ChType' /\ TimerType' /\ RoamType' /\ ScanType' /\ FwType'
        /\ SaaType'
    BY <2>3, Untouched
  <2> QED BY <2>1, <2>2, <2>4
<1>5. CASE BeaconTimeout
  <2>1. connReq \in BOOLEAN /\ timers \in SUBSET Timers
    BY DEF UserType, TimerType
  <2>2. StateAbort("RADIO_LOST", TRUE, pend, mbox, timers)
    BY <1>5 DEF BeaconTimeout, LinkLost
  <2>3. /\ PendType' /\ BoxType' /\ LinkType' /\ RoamType' /\ ChType' /\ TimerType'
        /\ ScanType' /\ connReq' \in BOOLEAN /\ goto' \in {"IDLE", "DISCONNECTING"}
    BY <2>1, <2>2, StateAbortType DEF Reasons, PendType, BoxType
  <2>4. PlaceType'
    BY <2>3, <1>5 DEF BeaconTimeout, LinkLost, PlaceType, States, Resting
  <2>5. PendType'
    BY <2>3, <1>5 DEF BeaconTimeout, LinkLost, PendType
  <2>6. BoxType'
    BY <2>3, <1>5 DEF BeaconTimeout, LinkLost, BoxType
  <2>7. LinkType'
    BY <2>3, <1>5 DEF BeaconTimeout, LinkLost, LinkType
  <2>8. UserType'
    BY <2>3, <1>5 DEF BeaconTimeout, LinkLost, UserType
  <2>9. ChType'
    BY <2>3, <1>5 DEF BeaconTimeout, LinkLost, ChType
  <2>10. TimerType'
    BY <2>3, <1>5 DEF BeaconTimeout, LinkLost, TimerType
  <2>11. RoamType'
    BY <2>3, <1>5 DEF BeaconTimeout, LinkLost, RoamType
  <2>12. ScanType'
    BY <2>3, <1>5 DEF BeaconTimeout, LinkLost, ScanType
  <2>13. FwType'
    BY <1>5 DEF BeaconTimeout, LinkLost, FwType, fwVars
  <2>14. CountType'
    BY AisFsmAssumption, <1>5 DEF BeaconTimeout, LinkLost, CountType, Event
  <2>15. UNCHANGED <<joinVars, saa>>
    BY <1>5 DEF BeaconTimeout, LinkLost, linkVars, userVars, joinVars, chVars, fwVars
  <2>16. JoinType' /\ SaaType'
    BY <2>15, Untouched
  <2> QED BY <2>4, <2>5, <2>6, <2>7, <2>8, <2>9, <2>10, <2>11, <2>12, <2>13, <2>14,
           <2>16
<1>6. CASE SecurityChanged
  <2>1. connReq \in BOOLEAN /\ timers \in SUBSET Timers
    BY DEF UserType, TimerType
  <2>2. StateAbort("DEAUTH", FALSE, pend, mbox, timers)
    BY <1>6 DEF SecurityChanged, LinkLost
  <2>3. /\ PendType' /\ BoxType' /\ LinkType' /\ RoamType' /\ ChType' /\ TimerType'
        /\ ScanType' /\ connReq' \in BOOLEAN /\ goto' \in {"IDLE", "DISCONNECTING"}
    BY <2>1, <2>2, StateAbortType DEF Reasons, PendType, BoxType
  <2>4. PlaceType'
    BY <2>3, <1>6 DEF SecurityChanged, LinkLost, PlaceType, States, Resting
  <2>5. PendType'
    BY <2>3, <1>6 DEF SecurityChanged, LinkLost, PendType
  <2>6. BoxType'
    BY <2>3, <1>6 DEF SecurityChanged, LinkLost, BoxType
  <2>7. LinkType'
    BY <2>3, <1>6 DEF SecurityChanged, LinkLost, LinkType
  <2>8. UserType'
    BY <2>3, <1>6 DEF SecurityChanged, LinkLost, UserType
  <2>9. ChType'
    BY <2>3, <1>6 DEF SecurityChanged, LinkLost, ChType
  <2>10. TimerType'
    BY <2>3, <1>6 DEF SecurityChanged, LinkLost, TimerType
  <2>11. RoamType'
    BY <2>3, <1>6 DEF SecurityChanged, LinkLost, RoamType
  <2>12. ScanType'
    BY <2>3, <1>6 DEF SecurityChanged, LinkLost, ScanType
  <2>13. FwType'
    BY <1>6 DEF SecurityChanged, LinkLost, FwType, fwVars
  <2>14. CountType'
    BY AisFsmAssumption, <1>6 DEF SecurityChanged, LinkLost, CountType, Event
  <2>15. UNCHANGED <<joinVars, saa>>
    BY <1>6 DEF SecurityChanged, LinkLost, linkVars, userVars, joinVars, chVars,
          fwVars
  <2>16. JoinType' /\ SaaType'
    BY <2>15, Untouched
  <2> QED BY <2>4, <2>5, <2>6, <2>7, <2>8, <2>9, <2>10, <2>11, <2>12, <2>13, <2>14,
           <2>16
<1>7. CASE BssInfoDiffers
  <2>1. connReq \in BOOLEAN /\ timers \in SUBSET Timers
    BY DEF UserType, TimerType
  <2>2. StateAbort("RADIO_LOST", FALSE, pend, mbox, timers)
    BY <1>7 DEF BssInfoDiffers, LinkLost
  <2>3. /\ PendType' /\ BoxType' /\ LinkType' /\ RoamType' /\ ChType' /\ TimerType'
        /\ ScanType' /\ connReq' \in BOOLEAN /\ goto' \in {"IDLE", "DISCONNECTING"}
    BY <2>1, <2>2, StateAbortType DEF Reasons, PendType, BoxType
  <2>4. PlaceType'
    BY <2>3, <1>7 DEF BssInfoDiffers, LinkLost, PlaceType, States, Resting
  <2>5. PendType'
    BY <2>3, <1>7 DEF BssInfoDiffers, LinkLost, PendType
  <2>6. BoxType'
    BY <2>3, <1>7 DEF BssInfoDiffers, LinkLost, BoxType
  <2>7. LinkType'
    BY <2>3, <1>7 DEF BssInfoDiffers, LinkLost, LinkType
  <2>8. UserType'
    BY <2>3, <1>7 DEF BssInfoDiffers, LinkLost, UserType
  <2>9. ChType'
    BY <2>3, <1>7 DEF BssInfoDiffers, LinkLost, ChType
  <2>10. TimerType'
    BY <2>3, <1>7 DEF BssInfoDiffers, LinkLost, TimerType
  <2>11. RoamType'
    BY <2>3, <1>7 DEF BssInfoDiffers, LinkLost, RoamType
  <2>12. ScanType'
    BY <2>3, <1>7 DEF BssInfoDiffers, LinkLost, ScanType
  <2>13. FwType'
    BY <1>7 DEF BssInfoDiffers, LinkLost, FwType, fwVars
  <2>14. CountType'
    BY AisFsmAssumption, <1>7 DEF BssInfoDiffers, LinkLost, CountType, Event
  <2>15. UNCHANGED <<joinVars, saa>>
    BY <1>7 DEF BssInfoDiffers, LinkLost, linkVars, userVars, joinVars, chVars, fwVars
  <2>16. JoinType' /\ SaaType'
    BY <2>15, Untouched
  <2> QED BY <2>4, <2>5, <2>6, <2>7, <2>8, <2>9, <2>10, <2>11, <2>12, <2>13, <2>14,
           <2>16
<1>8. CASE RoamingDiscovery
  <2>1. \A r \in {"ROAMING_SEARCH", "ROAMING_CONNECT"} : Append(NoRoaming(pend), r) \in Seq(Requests)
    BY ListTypes, AppendProperties DEF PendType, Requests
  <2>2. PlaceType'
    BY <1>8 DEF RoamingDiscovery, PlaceType, Event, Outside, Then, States, Resting
  <2>3. PendType'
    BY <2>1, <1>8 DEF RoamingDiscovery, PendType
  <2>4. RoamType'
    BY <1>8 DEF RoamingDiscovery, RoamType
  <2>5. CountType'
    BY AisFsmAssumption, <1>8 DEF RoamingDiscovery, CountType, Event
  <2>6. UNCHANGED <<mbox, linkVars, userVars, joinVars, chVars, timers, scn,
                      fwVars, saa>>
    BY <1>8 DEF RoamingDiscovery, linkVars, userVars, joinVars, chVars, fwVars
  <2>7. /\ BoxType' /\ LinkType' /\ UserType' /\ JoinType' /\ ChType'
        /\ TimerType' /\ ScanType' /\ FwType' /\ SaaType'
    BY <2>6, Untouched
  <2> QED BY <2>2, <2>3, <2>4, <2>5, <2>7
<1>9. CASE RemainOnChannel
  <2>1. BoxType'
    BY MessageTypes, AppendProperties, <1>9 DEF RemainOnChannel, RocMsg, BoxType, Send
  <2>2. CountType'
    BY AisFsmAssumption, <1>9 DEF RemainOnChannel, RocMsg, CountType, Event
  <2>3. UNCHANGED <<ais, goto, pend, linkVars, userVars, joinVars, chVars,
                      timers, roam, scn, fwVars, saa>>
    BY <1>9 DEF RemainOnChannel, RocMsg, linkVars, userVars, joinVars, chVars, fwVars
  <2>4. /\ PlaceType' /\ PendType' /\ LinkType' /\ UserType' /\ JoinType'
        /\ ChType' /\ TimerType' /\ RoamType' /\ ScanType' /\ FwType'
        /\ SaaType'
    BY <2>3, Untouched
  <2> QED BY <2>1, <2>2, <2>4
<1>10. CASE CancelRemainOnChannel
  <2>1. BoxType'
    BY MessageTypes, AppendProperties, <1>10 DEF CancelRemainOnChannel, RocMsg,
          BoxType, Send
  <2>2. CountType'
    BY AisFsmAssumption, <1>10 DEF CancelRemainOnChannel, RocMsg, CountType, Event
  <2>3. UNCHANGED <<ais, goto, pend, linkVars, userVars, joinVars, chVars,
                      timers, roam, scn, fwVars, saa>>
    BY <1>10 DEF CancelRemainOnChannel, RocMsg, linkVars, userVars, joinVars, chVars,
           fwVars
  <2>4. /\ PlaceType' /\ PendType' /\ LinkType' /\ UserType' /\ JoinType'
        /\ ChType' /\ TimerType' /\ RoamType' /\ ScanType' /\ FwType'
        /\ SaaType'
    BY <2>3, Untouched
  <2> QED BY <2>1, <2>2, <2>4
<1> QED BY <1>1, <1>2, <1>3, <1>4, <1>5, <1>6, <1>7, <1>8, <1>9, <1>10 DEF User

\* the answers of the services do,
LEMMA AnswersKeepTypes ==
  ASSUME TypeOK, Answers
  PROVE  TypeOK'
<1> USE TypeParts, TypePartsNext
<1>1. CASE ScanEnds
  <2>1. BoxType'
    BY MessageTypes, AppendProperties, <1>1 DEF ScanEnds, BoxType, Send, ScanType,
          Ages, Numbered
  <2>2. ScanType'
    BY <1>1 DEF ScanEnds, ScanType
  <2>3. UNCHANGED <<ais, goto, pend, linkVars, userVars, joinVars, chVars,
                      timers, roam, fwVars, saa, draining, events>>
    BY <1>1 DEF ScanEnds, linkVars, userVars, joinVars, chVars, fwVars
  <2>4. /\ PlaceType' /\ PendType' /\ LinkType' /\ UserType' /\ JoinType'
        /\ ChType' /\ TimerType' /\ RoamType' /\ FwType' /\ SaaType'
        /\ CountType'
    BY <2>3, Untouched
  <2> QED BY <2>1, <2>2, <2>4
<1>2. CASE FwGrants
  <2>1. FwType'
    BY <1>2 DEF FwGrants, FwType
  <2>2. UNCHANGED <<ais, goto, pend, mbox, linkVars, userVars, joinVars, chVars,
                      timers, roam, scn, saa, draining, events>>
    BY <1>2 DEF FwGrants, linkVars, userVars, joinVars, chVars, fwVars
  <2>3. /\ PlaceType' /\ PendType' /\ BoxType' /\ LinkType' /\ UserType'
        /\ JoinType' /\ ChType' /\ TimerType' /\ RoamType' /\ ScanType'
        /\ SaaType' /\ CountType'
    BY <2>2, Untouched
  <2> QED BY <2>1, <2>3
<1>3. CASE ChEvent
  <2>1. BoxType'
    BY MessageTypes, AppendProperties, <1>3 DEF ChEvent, BoxType, Send, FwType, Ages,
          Numbered
  <2>2. FwType'
    BY <1>3 DEF ChEvent, FwType
  <2>3. UNCHANGED <<ais, goto, pend, linkVars, userVars, joinVars, chVars,
                      timers, roam, scn, saa, draining, events>>
    BY <1>3 DEF ChEvent, linkVars, userVars, joinVars, chVars, fwVars
  <2>4. /\ PlaceType' /\ PendType' /\ LinkType' /\ UserType' /\ JoinType'
        /\ ChType' /\ TimerType' /\ RoamType' /\ ScanType' /\ SaaType'
        /\ CountType'
    BY <2>3, Untouched
  <2> QED BY <2>1, <2>2, <2>4
<1>4. CASE JoinSucceeds
  <2>1. PlaceType'
    BY <1>4 DEF JoinSucceeds, PlaceType, JoinEnds, Outside, Then, States, Resting
  <2>2. LinkType'
    BY <1>4 DEF JoinSucceeds, LinkType
  <2>3. JoinType'
    BY <1>4 DEF JoinSucceeds, JoinType, TrialLimit, MaxJoinFailure
  <2>4. TimerType'
    BY <1>4 DEF JoinSucceeds, TimerType
  <2>5. RoamType'
    BY <1>4 DEF JoinSucceeds, RoamType, RoamStarts
  <2>6. SaaType'
    BY <1>4 DEF JoinSucceeds, SaaType
  <2>7. UNCHANGED <<pend, mbox, userVars, chVars, scn, fwVars, draining, events>>
    BY <1>4 DEF JoinSucceeds, linkVars, userVars, joinVars, chVars, fwVars
  <2>8. /\ PendType' /\ BoxType' /\ UserType' /\ ChType' /\ ScanType'
        /\ FwType' /\ CountType'
    BY <2>7, Untouched
  <2> QED BY <2>1, <2>2, <2>3, <2>4, <2>5, <2>6, <2>8
<1>5. CASE JoinRetries
  <2>1. BoxType'
    BY AgedType, MessageTypes, <1>5 DEF JoinRetries, BoxType, Numbered, Ages
  <2>2. JoinType'
    BY <1>5 DEF JoinRetries, JoinType
  <2>3. SaaType'
    BY <1>5 DEF JoinRetries, SaaType
  <2>4. UNCHANGED <<ais, goto, pend, linkVars, userVars, chVars, timers, roam,
                      scn, fwVars, draining, events>>
    BY <1>5 DEF JoinRetries, linkVars, userVars, joinVars, chVars, fwVars
  <2>5. /\ PlaceType' /\ PendType' /\ LinkType' /\ UserType' /\ ChType'
        /\ TimerType' /\ RoamType' /\ ScanType' /\ FwType' /\ CountType'
    BY <2>4, Untouched
  <2> QED BY <2>1, <2>2, <2>3, <2>5
<1>6. CASE JoinFails
  <2>1. ChAbort \in Seq(Messages)
    BY AbortTypes DEF LinkType
  <2>2. PlaceType'
    BY <1>6 DEF JoinFails, PlaceType, JoinEnds, Outside, Then, States, Resting
  <2>3. PendType'
    BY AppendProperties, <1>6 DEF JoinFails, PendType, Requests
  <2>4. BoxType'
    BY <2>1, ConcatProperties, <1>6 DEF JoinFails, BoxType
  <2>5. UserType'
    BY <1>6 DEF JoinFails, UserType
  <2>6. JoinType'
    BY <1>6 DEF JoinFails, JoinType, MoreFails, MaxJoinFailure
  <2>7. ChType'
    BY <1>6 DEF JoinFails, ChType, ReleaseChFlags
  <2>8. TimerType'
    BY <1>6 DEF JoinFails, TimerType
  <2>9. SaaType'
    BY <1>6 DEF JoinFails, SaaType
  <2>10. UNCHANGED <<linkVars, roam, scn, fwVars, draining, events>>
    BY <1>6 DEF JoinFails, linkVars, userVars, joinVars, chVars, fwVars
  <2>11. LinkType' /\ RoamType' /\ ScanType' /\ FwType' /\ CountType'
    BY <2>10, Untouched
  <2> QED BY <2>2, <2>3, <2>4, <2>5, <2>6, <2>7, <2>8, <2>9, <2>11
<1>7. CASE JoinIgnored
  <2>1. SaaType'
    BY <1>7 DEF JoinIgnored, SaaType
  <2>2. UNCHANGED <<ais, goto, pend, mbox, linkVars, userVars, joinVars, chVars,
                      timers, roam, scn, fwVars, draining, events>>
    BY <1>7 DEF JoinIgnored, linkVars, userVars, joinVars, chVars, fwVars
  <2>3. /\ PlaceType' /\ PendType' /\ BoxType' /\ LinkType' /\ UserType'
        /\ JoinType' /\ ChType' /\ TimerType' /\ RoamType' /\ ScanType'
        /\ FwType' /\ CountType'
    BY <2>2, Untouched
  <2> QED BY <2>1, <2>3
<1>8. CASE DeauthTxDone
  <2>1. connReq \in BOOLEAN /\ timers \in SUBSET Timers
        /\ timers \ {"deauth"} \in SUBSET Timers
    BY DEF UserType, TimerType
  <2>2. ASSUME NEW t \in SUBSET Timers, Deauthenticated(t)
        PROVE  /\ PendType' /\ BoxType' /\ LinkType' /\ RoamType' /\ ChType' /\ TimerType'
               /\ ScanType' /\ connReq' \in BOOLEAN
               /\ goto' \in {goto, "IDLE", "DISCONNECTING"}
    <3>1. CASE StateAbort("NEW", FALSE, pend, mbox, t)
      BY <2>1, <3>1, StateAbortType DEF Reasons, PendType, BoxType
    <3>2. CASE timers' = t /\ UNCHANGED <<goto, pend, linkVars, connReq, chVars, roam, mbox, scn>>
      <4>1. PendType' /\ BoxType'
        BY <3>2 DEF PendType, BoxType
      <4>2. LinkType' /\ RoamType' /\ ScanType'
        BY <3>2 DEF LinkType, RoamType, ScanType, linkVars
      <4>3. ChType' /\ TimerType'
        BY <2>1, <3>2 DEF ChType, TimerType, chVars
      <4>4. connReq' \in BOOLEAN
        BY <2>1, <3>2
      <4>5. goto' = goto
        BY <3>2
      <4> QED BY <4>1, <4>2, <4>3, <4>4, <4>5
    <3> QED BY <2>2, <3>1, <3>2 DEF Deauthenticated
  <2>3. /\ PendType' /\ BoxType' /\ LinkType' /\ RoamType' /\ ChType' /\ TimerType'
        /\ ScanType' /\ connReq' \in BOOLEAN
        /\ goto' \in {goto, "IDLE", "DISCONNECTING"}
    <3>1. CASE UNCHANGED <<goto, pend, linkVars, connReq, chVars, timers, roam, mbox, scn>>
      <4>1. PendType' /\ BoxType'
        BY <3>1 DEF PendType, BoxType
      <4>2. LinkType' /\ RoamType' /\ ScanType'
        BY <3>1 DEF LinkType, RoamType, ScanType, linkVars
      <4>3. ChType' /\ TimerType'
        BY <2>1, <3>1 DEF ChType, TimerType, chVars
      <4>4. connReq' \in BOOLEAN
        BY <2>1, <3>1
      <4>5. goto' = goto
        BY <3>1
      <4> QED BY <4>1, <4>2, <4>3, <4>4, <4>5
    <3> QED BY <1>8, <2>1, <2>2, <3>1 DEF DeauthTxDone
  <2>4. PlaceType'
    BY <2>3, <1>8 DEF DeauthTxDone, PlaceType, States, Resting
  <2>5. PendType'
    BY <2>3, <1>8 DEF DeauthTxDone, PendType
  <2>6. BoxType'
    BY <2>3, <1>8 DEF DeauthTxDone, BoxType
  <2>7. LinkType'
    BY <2>3, <1>8 DEF DeauthTxDone, LinkType
  <2>8. UserType'
    BY <2>3, <1>8 DEF DeauthTxDone, UserType
  <2>9. ChType'
    BY <2>3, <1>8 DEF DeauthTxDone, ChType
  <2>10. TimerType'
    BY <2>3, <1>8 DEF DeauthTxDone, TimerType
  <2>11. RoamType'
    BY <2>3, <1>8 DEF DeauthTxDone, RoamType
  <2>12. ScanType'
    BY <2>3, <1>8 DEF DeauthTxDone, ScanType
  <2>13. FwType'
    BY <1>8 DEF DeauthTxDone, FwType
  <2>14. UNCHANGED <<joinVars, saa, draining, events>>
    BY <1>8 DEF DeauthTxDone, linkVars, userVars, joinVars, chVars, fwVars
  <2>15. JoinType' /\ SaaType' /\ CountType'
    BY <2>14, Untouched
  <2> QED BY <2>4, <2>5, <2>6, <2>7, <2>8, <2>9, <2>10, <2>11, <2>12, <2>13, <2>15
<1> QED BY <1>1, <1>2, <1>3, <1>4, <1>5, <1>6, <1>7, <1>8 DEF Answers

\* and the timers.
LEMMA TimersKeepTypes ==
  ASSUME TypeOK, TimersFire
  PROVE  TypeOK'
<1> USE TypeParts, TypePartsNext
<1>1. CASE ScanDoneTimeOut
  <2>1. ChAbort \in Seq(Messages) /\ JoinAbort \in Seq(Messages) /\ ScanCancelled \in Seq(Messages)
    BY AbortTypes DEF LinkType
  <2>2. PlaceType'
    BY <1>1 DEF ScanDoneTimeOut, PlaceType, Fires, Outside, Then, AfterScan, States,
          Resting
  <2>3. BoxType'
    BY <2>1, <1>1 DEF ScanDoneTimeOut, BoxType
  <2>4. UserType'
    BY <1>1 DEF ScanDoneTimeOut, UserType
  <2>5. TimerType'
    BY <1>1 DEF ScanDoneTimeOut, TimerType
  <2>6. RoamType'
    BY <1>1 DEF ScanDoneTimeOut, RoamType, RoamAfterScan
  <2>7. ScanType'
    BY <1>1 DEF ScanDoneTimeOut, ScanType
  <2>8. UNCHANGED <<pend, linkVars, joinVars, chVars, fwVars, saa,
                      draining, events>>
    BY <1>1 DEF ScanDoneTimeOut, linkVars, userVars, joinVars, chVars, fwVars
  <2>9. /\ PendType' /\ LinkType' /\ JoinType' /\ ChType' /\ FwType'
        /\ SaaType' /\ CountType'
    BY <2>8, Untouched
  <2> QED BY <2>2, <2>3, <2>4, <2>5, <2>6, <2>7, <2>9
<1>2. CASE BgSleepTimeOut
  <2>1. PlaceType'
    BY <1>2 DEF BgSleepTimeOut, PlaceType, Fires, Outside, Then, States, Resting
  <2>2. TimerType'
    BY <1>2 DEF BgSleepTimeOut, TimerType
  <2>3. UNCHANGED <<pend, mbox, linkVars, userVars, joinVars, chVars, roam, scn,
                      fwVars, saa, draining, events>>
    BY <1>2 DEF BgSleepTimeOut, linkVars, userVars, joinVars, chVars, fwVars
  <2>4. /\ PendType' /\ BoxType' /\ LinkType' /\ UserType' /\ JoinType'
        /\ ChType' /\ RoamType' /\ ScanType' /\ FwType' /\ SaaType'
        /\ CountType'
    BY <2>3, Untouched
  <2> QED BY <2>1, <2>2, <2>4
<1>3. CASE JoinTimeout
  <2>1. ChAbort \in Seq(Messages) /\ JoinAbort \in Seq(Messages) /\ ScanCancelled \in Seq(Messages)
    BY AbortTypes DEF LinkType
  <2>2. PlaceType'
    BY <1>3 DEF JoinTimeout, PlaceType, Fires, Outside, Then, States, Resting
  <2>3. PendType'
    BY WithoutType, <1>3 DEF JoinTimeout, PendType
  <2>4. BoxType'
    BY <2>1, <1>3 DEF JoinTimeout, BoxType
  <2>5. UserType'
    BY <1>3 DEF JoinTimeout, UserType
  <2>6. JoinType'
    BY <1>3 DEF JoinTimeout, JoinType, MoreFails, MaxJoinFailure
  <2>7. ChType'
    BY <1>3 DEF JoinTimeout, ChType, ReleaseChFlags
  <2>8. TimerType'
    BY <1>3 DEF JoinTimeout, TimerType
  <2>9. UNCHANGED <<linkVars, roam, scn, fwVars, saa, draining, events>>
    BY <1>3 DEF JoinTimeout, linkVars, userVars, joinVars, chVars, fwVars
  <2>10. /\ LinkType' /\ RoamType' /\ ScanType' /\ FwType' /\ SaaType'
        /\ CountType'
    BY <2>9, Untouched
  <2> QED BY <2>2, <2>3, <2>4, <2>5, <2>6, <2>7, <2>8, <2>10
<1>4. CASE DeauthTimeout
  <2>1. connReq \in BOOLEAN /\ timers \in SUBSET Timers
        /\ timers \ {"deauth"} \in SUBSET Timers
    BY DEF UserType, TimerType
  <2>2. ASSUME NEW t \in SUBSET Timers, Deauthenticated(t)
        PROVE  /\ PendType' /\ BoxType' /\ LinkType' /\ RoamType' /\ ChType' /\ TimerType'
               /\ ScanType' /\ connReq' \in BOOLEAN
               /\ goto' \in {goto, "IDLE", "DISCONNECTING"}
    <3>1. CASE StateAbort("NEW", FALSE, pend, mbox, t)
      BY <2>1, <3>1, StateAbortType DEF Reasons, PendType, BoxType
    <3>2. CASE timers' = t /\ UNCHANGED <<goto, pend, linkVars, connReq, chVars, roam, mbox, scn>>
      <4>1. PendType' /\ BoxType'
        BY <3>2 DEF PendType, BoxType
      <4>2. LinkType' /\ RoamType' /\ ScanType'
        BY <3>2 DEF LinkType, RoamType, ScanType, linkVars
      <4>3. ChType' /\ TimerType'
        BY <2>1, <3>2 DEF ChType, TimerType, chVars
      <4>4. connReq' \in BOOLEAN
        BY <2>1, <3>2
      <4>5. goto' = goto
        BY <3>2
      <4> QED BY <4>1, <4>2, <4>3, <4>4, <4>5
    <3> QED BY <2>2, <3>1, <3>2 DEF Deauthenticated
  <2>3. /\ PendType' /\ BoxType' /\ LinkType' /\ RoamType' /\ ChType' /\ TimerType'
        /\ ScanType' /\ connReq' \in BOOLEAN
        /\ goto' \in {goto, "IDLE", "DISCONNECTING"}
    BY <1>4, <2>1, <2>2 DEF DeauthTimeout
  <2>4. PlaceType'
    BY <2>3, <1>4 DEF DeauthTimeout, PlaceType, States, Resting
  <2>5. PendType'
    BY <2>3, <1>4 DEF DeauthTimeout, PendType
  <2>6. BoxType'
    BY <2>3, <1>4 DEF DeauthTimeout, BoxType
  <2>7. LinkType'
    BY <2>3, <1>4 DEF DeauthTimeout, LinkType
  <2>8. UserType'
    BY <2>3, <1>4 DEF DeauthTimeout, UserType
  <2>9. ChType'
    BY <2>3, <1>4 DEF DeauthTimeout, ChType
  <2>10. TimerType'
    BY <2>3, <1>4 DEF DeauthTimeout, TimerType
  <2>11. RoamType'
    BY <2>3, <1>4 DEF DeauthTimeout, RoamType
  <2>12. ScanType'
    BY <2>3, <1>4 DEF DeauthTimeout, ScanType
  <2>13. UNCHANGED <<joinVars, fwVars, saa, draining, events>>
    BY <1>4 DEF DeauthTimeout, linkVars, userVars, joinVars, chVars, fwVars
  <2>14. JoinType' /\ FwType' /\ SaaType' /\ CountType'
    BY <2>13, Untouched
  <2> QED BY <2>4, <2>5, <2>6, <2>7, <2>8, <2>9, <2>10, <2>11, <2>12, <2>14
<1>5. CASE ChannelTimeout
  <2>1. ChAbort \in Seq(Messages) /\ JoinAbort \in Seq(Messages) /\ ScanCancelled \in Seq(Messages)
    BY AbortTypes DEF LinkType
  <2>2. PlaceType'
    BY <1>5 DEF ChannelTimeout, PlaceType, Fires, Outside, Then, States, Resting
  <2>3. BoxType'
    BY <2>1, <1>5 DEF ChannelTimeout, BoxType
  <2>4. ChType'
    BY <1>5 DEF ChannelTimeout, ChType, ReleaseChFlags
  <2>5. TimerType'
    BY <1>5 DEF ChannelTimeout, TimerType
  <2>6. UNCHANGED <<pend, linkVars, userVars, joinVars, roam, scn, fwVars, saa,
                      draining, events>>
    BY <1>5 DEF ChannelTimeout, linkVars, userVars, joinVars, chVars, fwVars
  <2>7. /\ PendType' /\ LinkType' /\ UserType' /\ JoinType' /\ RoamType'
        /\ ScanType' /\ FwType' /\ SaaType' /\ CountType'
    BY <2>6, Untouched
  <2> QED BY <2>2, <2>3, <2>4, <2>5, <2>7
<1>6. CASE PostponedDisconn
  <2>1. conn \in BOOLEAN /\ timers \ {"disc"} \in SUBSET Timers
    BY DEF LinkType, TimerType
  <2>2. TimerType' /\ indicated' \in {"connected", "disconnected"}
        /\ host' \in {"connected", "disconnected", "to be told"}
    BY <1>6, <2>1, TellType DEF PostponedDisconn
  <2>3. apRec' = "none" /\ target' = "other" /\ discNR' = TRUE
        /\ UNCHANGED <<conn, reason, connReq, scanReq>>
    BY <1>6 DEF PostponedDisconn
  <2>4. PendType'
    BY WithoutType, <1>6 DEF PostponedDisconn, PendType
  <2>5. LinkType'
    BY <2>2, <2>3 DEF LinkType
  <2>6. UserType'
    BY <2>3 DEF UserType
  <2>7. TimerType'
    BY <2>2
  <2>8. UNCHANGED <<ais, goto, mbox, joinVars, chVars, roam, scn, fwVars, saa,
                      draining, events>>
    BY <1>6 DEF PostponedDisconn, linkVars, userVars, joinVars, chVars, fwVars
  <2>9. /\ PlaceType' /\ BoxType' /\ JoinType' /\ ChType' /\ RoamType'
        /\ ScanType' /\ FwType' /\ SaaType' /\ CountType'
    BY <2>8, Untouched
  <2> QED BY <2>4, <2>5, <2>6, <2>7, <2>9
<1>7. CASE JoinReqGetsOld
  <2>1. JoinType'
    BY <1>7 DEF JoinReqGetsOld, JoinType
  <2>2. UNCHANGED <<ais, goto, pend, mbox, linkVars, userVars, chVars, timers,
                      roam, scn, fwVars, saa, draining, events>>
    BY <1>7 DEF JoinReqGetsOld, linkVars, userVars, joinVars, chVars, fwVars
  <2>3. /\ PlaceType' /\ PendType' /\ BoxType' /\ LinkType' /\ UserType'
        /\ ChType' /\ TimerType' /\ RoamType' /\ ScanType' /\ FwType'
        /\ SaaType' /\ CountType'
    BY <2>2, Untouched
  <2> QED BY <2>1, <2>3
<1> QED BY <1>1, <1>2, <1>3, <1>4, <1>5, <1>6, <1>7 DEF TimersFire

-----------------------------------------------------------------------------
(* The order of the box: what was asked is taken back behind it. *)

\* A channel request of the box, or one at the firmware (asked), is the one AIS
\* counts on, or is taken back by a message behind it.
AsksEnd(b, asked, counts) ==
  /\ \A i \in 1..Len(b) : b[i].m = "CH_REQ" =>
       (counts /\ b[i].age = 0)
       \/ \E j \in 1..Len(b) : i < j /\ b[j] = Msg("CH_ABORT", b[i].age)
  /\ \A a \in asked :
       (counts /\ a = 0) \/ \E j \in 1..Len(b) : b[j] = Msg("CH_ABORT", a)

\* A join request of the box is the one AIS is in, or another or an abort
\* follows; there is one current request at most, in the box or at SAA.
Stops(x) == x.m \in {"JOIN_REQ", "SAA_ABORT"}
JoinsEnd(b, joining, at) ==
  /\ \A i \in 1..Len(b) : b[i].m = "JOIN_REQ" =>
       (joining /\ b[i].age = 0) \/ \E j \in 1..Len(b) : i < j /\ Stops(b[j])
  /\ \A i, j \in 1..Len(b) : i < j /\ b[i].m = "JOIN_REQ" /\ b[j].m = "JOIN_REQ" => b[i].age = 1
  /\ at = 0 => \A i \in 1..Len(b) : b[i].m = "JOIN_REQ" => b[i].age = 1
  /\ at # -1 => (joining /\ at = 0) \/ \E j \in 1..Len(b) : Stops(b[j])

\* Messages that ask for nothing.
Tame(t) == \A k \in 1..Len(t) : t[k].m \notin {"CH_REQ", "JOIN_REQ"}

\* The places of two boxes in one.
LEMMA Joined ==
  ASSUME NEW b \in Seq(Messages), NEW t \in Seq(Messages)
  PROVE  /\ Len(b) \in Nat /\ Len(t) \in Nat
         /\ Len(b \o t) = Len(b) + Len(t)
         /\ \A i \in 1..Len(b) : i \in 1..Len(b \o t) /\ (b \o t)[i] = b[i]
         /\ \A k \in 1..Len(t) : Len(b) + k \in 1..Len(b \o t) /\ (b \o t)[Len(b) + k] = t[k]
         /\ \A i \in 1..Len(b \o t) : i \in 1..Len(b) \/ \E k \in 1..Len(t) : i = Len(b) + k
<1> DEFINE c == b \o t
           m == Len(b)
           n == Len(t)
<1>1. m \in Nat /\ n \in Nat
  BY LenProperties
<1>2. Len(c) = m + n /\ \A i \in 1..m + n : c[i] = IF i <= m THEN b[i] ELSE t[i - m]
  BY ConcatProperties
<1> HIDE DEF c, m, n
<1>3. ASSUME NEW i \in 1..m  PROVE i \in 1..Len(c) /\ c[i] = b[i]
  BY <1>1, <1>2
<1>4. ASSUME NEW k \in 1..n  PROVE m + k \in 1..Len(c) /\ c[m + k] = t[k]
  <2>1. m + k \in 1..m + n /\ ~(m + k <= m) /\ (m + k) - m = k
    BY <1>1
  <2> QED BY <1>2, <2>1
<1>5. ASSUME NEW i \in 1..Len(c), i \notin 1..m  PROVE \E k \in 1..n : i = m + k
  <2>1. i - m \in 1..n /\ i = m + (i - m)
    BY <1>1, <1>2, <1>5
  <2> QED BY <2>1
<1> QED BY <1>1, <1>2, <1>3, <1>4, <1>5 DEF c, m, n

\* Tame messages at the end change nothing,
LEMMA AsksGrow ==
  ASSUME NEW b \in Seq(Messages), NEW t \in Seq(Messages), Tame(t),
         NEW asked, NEW counts \in BOOLEAN, AsksEnd(b, asked, counts)
  PROVE  AsksEnd(b \o t, asked, counts)
<1> DEFINE c == b \o t
<1>1. /\ Len(b) \in Nat /\ Len(t) \in Nat
      /\ \A i \in 1..Len(b) : i \in 1..Len(c) /\ c[i] = b[i]
      /\ \A k \in 1..Len(t) : Len(b) + k \in 1..Len(c) /\ c[Len(b) + k] = t[k]
      /\ \A i \in 1..Len(c) : i \in 1..Len(b) \/ \E k \in 1..Len(t) : i = Len(b) + k
  BY Joined
<1> HIDE DEF c
<1>2. ASSUME NEW i \in 1..Len(c), c[i].m = "CH_REQ"
      PROVE  (counts /\ c[i].age = 0)
             \/ \E j \in 1..Len(c) : i < j /\ c[j] = Msg("CH_ABORT", c[i].age)
  <2>1. i \in 1..Len(b) /\ c[i] = b[i]
    BY <1>1, <1>2 DEF Tame
  <2> QED BY <1>1, <1>2, <2>1 DEF AsksEnd
<1>3. ASSUME NEW a \in asked
      PROVE  (counts /\ a = 0) \/ \E j \in 1..Len(c) : c[j] = Msg("CH_ABORT", a)
  BY <1>1 DEF AsksEnd
<1> QED BY <1>2, <1>3 DEF AsksEnd, c

\* and an abort of the channel AIS counts on lets it count on none.
LEMMA AsksTakenBack ==
  ASSUME NEW b \in Seq(Messages), NEW t \in Seq(Messages), Tame(t),
         NEW asked, NEW counts \in BOOLEAN, AsksEnd(b, asked, counts),
         counts => \E k \in 1..Len(t) : t[k] = Msg("CH_ABORT", 0)
  PROVE  AsksEnd(b \o t, asked, FALSE)
<1> DEFINE c == b \o t
<1>1. /\ Len(b) \in Nat /\ Len(t) \in Nat
      /\ \A i \in 1..Len(b) : i \in 1..Len(c) /\ c[i] = b[i]
      /\ \A k \in 1..Len(t) : Len(b) + k \in 1..Len(c) /\ c[Len(b) + k] = t[k]
      /\ \A i \in 1..Len(c) : i \in 1..Len(b) \/ \E k \in 1..Len(t) : i = Len(b) + k
  BY Joined
<1> HIDE DEF c
<1>2. ASSUME NEW i \in 1..Len(c), c[i].m = "CH_REQ"
      PROVE  \E j \in 1..Len(c) : i < j /\ c[j] = Msg("CH_ABORT", c[i].age)
  <2>1. i \in 1..Len(b) /\ c[i] = b[i]
    BY <1>1, <1>2 DEF Tame
  <2>2. CASE counts /\ c[i].age = 0
    <3>1. PICK k \in 1..Len(t) : t[k] = Msg("CH_ABORT", 0)
      BY <2>2
    <3>2. Len(b) + k \in 1..Len(c) /\ c[Len(b) + k] = Msg("CH_ABORT", 0)
      BY <1>1, <3>1
    <3>3. i < Len(b) + k
      BY <1>1, <2>1
    <3> QED BY <2>2, <3>2, <3>3
  <2>3. CASE ~(counts /\ c[i].age = 0)
    BY <1>1, <1>2, <2>1, <2>3 DEF AsksEnd
  <2> QED BY <2>2, <2>3
<1>3. ASSUME NEW a \in asked
      PROVE  \E j \in 1..Len(c) : c[j] = Msg("CH_ABORT", a)
  <2>1. CASE counts /\ a = 0
    <3>1. PICK k \in 1..Len(t) : t[k] = Msg("CH_ABORT", 0)
      BY <2>1
    <3>2. Len(b) + k \in 1..Len(c) /\ c[Len(b) + k] = Msg("CH_ABORT", 0)
      BY <1>1, <3>1
    <3> QED BY <2>1, <3>2
  <2>2. CASE ~(counts /\ a = 0)
    BY <1>1, <2>2 DEF AsksEnd
  <2> QED BY <2>1, <2>2
<1> QED BY <1>2, <1>3 DEF AsksEnd, c

\* The firmware gets a channel message: what it is asked follows the box.
LEMMA AsksShrink ==
  ASSUME NEW b \in Seq(Messages), b # <<>>,
         NEW asked, NEW counts \in BOOLEAN, AsksEnd(b, asked, counts)
  PROVE  /\ Head(b).m = "CH_REQ" => AsksEnd(Tail(b), asked \cup {Head(b).age}, counts)
         /\ Head(b).m = "CH_ABORT" => AsksEnd(Tail(b), asked \ {Head(b).age}, counts)
         /\ Head(b).m \notin {"CH_REQ", "CH_ABORT"} => AsksEnd(Tail(b), asked, counts)
<1> DEFINE c == Tail(b)
           h == Head(b)
           left == IF h.m = "CH_REQ" THEN asked \cup {h.age}
                   ELSE IF h.m = "CH_ABORT" THEN asked \ {h.age} ELSE asked
<1>1. /\ Len(b) \in Nat \ {0} /\ Len(c) = Len(b) - 1 /\ h = b[1]
      /\ \A i \in 1..Len(c) : c[i] = b[i + 1]
  BY HeadTailProperties, LenProperties, EmptySeq
<1> HIDE DEF c, h
<1>2. \A i \in 1..Len(c) : i + 1 \in 1..Len(b)
  BY <1>1
<1>3. \A j \in 2..Len(b) : j - 1 \in 1..Len(c) /\ c[j - 1] = b[j]
  <2> TAKE j \in 2..Len(b)
  <2>1. j - 1 \in 1..Len(c) /\ (j - 1) + 1 = j
    BY <1>1
  <2> QED BY <1>1, <2>1
<1>4. ASSUME NEW i \in 1..Len(c), c[i].m = "CH_REQ"
      PROVE  (counts /\ c[i].age = 0)
             \/ \E j \in 1..Len(c) : i < j /\ c[j] = Msg("CH_ABORT", c[i].age)
  <2>1. c[i] = b[i + 1] /\ i + 1 \in 1..Len(b)
    BY <1>1, <1>2
  <2>2. CASE counts /\ c[i].age = 0
    BY <2>2
  <2>3. ASSUME NEW j \in 1..Len(b), i + 1 < j, b[j] = Msg("CH_ABORT", c[i].age)
        PROVE  \E k \in 1..Len(c) : i < k /\ c[k] = Msg("CH_ABORT", c[i].age)
    <3>1. j \in 2..Len(b) /\ i < j - 1
      BY <1>1, <2>3
    <3> QED BY <1>3, <2>3, <3>1
  <2> QED BY <1>4, <2>1, <2>2, <2>3 DEF AsksEnd
<1>5. ASSUME NEW a \in left
      PROVE  (counts /\ a = 0) \/ \E j \in 1..Len(c) : c[j] = Msg("CH_ABORT", a)
  <2>1. ASSUME NEW j \in 2..Len(b), b[j] = Msg("CH_ABORT", a)
        PROVE  \E k \in 1..Len(c) : c[k] = Msg("CH_ABORT", a)
    BY <1>3, <2>1
  <2>2. 1 \in 1..Len(b) /\ \A j \in 1..Len(b) : j # 1 => j \in 2..Len(b)
    BY <1>1
  <2>3. CASE a \in asked /\ ~(h.m = "CH_ABORT" /\ a = h.age)
    <3>1. b[1] # Msg("CH_ABORT", a)
      BY <1>1, <2>3 DEF Msg
    <3> QED BY <2>1, <2>2, <2>3, <3>1 DEF AsksEnd
  <2>4. CASE h.m = "CH_REQ" /\ a = h.age
    <3>1. \A j \in 1..Len(b) : 1 < j => j \in 2..Len(b)
      BY <1>1
    <3> QED BY <1>1, <2>1, <2>2, <2>4, <3>1 DEF AsksEnd
  <2> QED BY <2>3, <2>4
<1>6. AsksEnd(c, left, counts)
  BY <1>4, <1>5 DEF AsksEnd
<1>7. CASE h.m = "CH_REQ"
  BY <1>6, <1>7 DEF c, h
<1>8. CASE h.m = "CH_ABORT"
  BY <1>6, <1>8 DEF c, h
<1>9. CASE h.m \notin {"CH_REQ", "CH_ABORT"}
  BY <1>6, <1>9 DEF c, h
<1> QED BY <1>7, <1>8, <1>9 DEF c, h

\* A message that asks for nothing counts as before if nothing was counted on.
LEMMA AsksCount ==
  ASSUME NEW b, NEW asked, AsksEnd(b, asked, FALSE)
  PROVE  \A counts \in BOOLEAN : AsksEnd(b, asked, counts)
BY DEF AsksEnd

\* A new number of a kind, and a message at the end: the places keep their
\* messages, the ones of the kind with an old number.
LEMMA AgedPlaces ==
  ASSUME BoxType, NEW names \in SUBSET Numbered, NEW x \in Messages
  PROVE  LET c == Append(AgedBox(names), x) IN
         /\ Len(mbox) \in Nat /\ Len(c) = Len(mbox) + 1 /\ c[Len(mbox) + 1] = x
         /\ \A i \in 1..Len(mbox) :
              /\ i \in 1..Len(c)
              /\ c[i] = IF mbox[i].m \in names THEN Msg(mbox[i].m, 1) ELSE mbox[i]
         /\ \A i \in 1..Len(c) : i \in 1..Len(mbox) \/ i = Len(mbox) + 1
<1> DEFINE a == AgedBox(names)
           c == Append(a, x)
<1>1. Len(mbox) \in Nat /\ DOMAIN mbox = 1..Len(mbox)
  BY LenProperties DEF BoxType
<1>2. a \in Seq(Messages)
  BY AgedType
<1>3. DOMAIN a = 1..Len(mbox)
      /\ \A i \in 1..Len(mbox) : a[i] = IF mbox[i].m \in names THEN Msg(mbox[i].m, 1) ELSE mbox[i]
  BY <1>1 DEF AgedBox
<1>4. Len(a) \in Nat /\ DOMAIN a = 1..Len(a)
  BY <1>2, LenProperties
<1> HIDE DEF a
<1>5. Len(a) = Len(mbox)
  BY <1>1, <1>3, <1>4
<1>6. Len(c) = Len(a) + 1 /\ (\A i \in 1..Len(a) : c[i] = a[i]) /\ c[Len(a) + 1] = x
  BY <1>2, AppendProperties
<1> HIDE DEF c
<1>7. \A i \in 1..Len(mbox) : i \in 1..Len(c)
  BY <1>1, <1>5, <1>6
<1>8. \A i \in 1..Len(c) : i \in 1..Len(mbox) \/ i = Len(mbox) + 1
  BY <1>1, <1>5, <1>6
<1> QED BY <1>1, <1>3, <1>5, <1>6, <1>7, <1>8 DEF c, a

\* A new channel request when AIS counts on none.
LEMMA AsksAnew ==
  ASSUME BoxType, NEW asked, asked \subseteq Ages, AsksEnd(mbox, asked, FALSE)
  PROVE  AsksEnd(Append(AgedBox({"CH_REQ", "CH_ABORT", "CH_GRANT"}), Msg("CH_REQ", 0)),
                 Aged(asked), TRUE)
<1> DEFINE names == {"CH_REQ", "CH_ABORT", "CH_GRANT"}
           c == Append(AgedBox(names), Msg("CH_REQ", 0))
<1>1. names \in SUBSET Numbered /\ Msg("CH_REQ", 0) \in Messages
  BY MessageTypes DEF Numbered, Ages
<1>2. /\ Len(mbox) \in Nat /\ Len(c) = Len(mbox) + 1 /\ c[Len(mbox) + 1] = Msg("CH_REQ", 0)
      /\ \A i \in 1..Len(mbox) :
           /\ i \in 1..Len(c)
           /\ c[i] = IF mbox[i].m \in names THEN Msg(mbox[i].m, 1) ELSE mbox[i]
      /\ \A i \in 1..Len(c) : i \in 1..Len(mbox) \/ i = Len(mbox) + 1
  BY <1>1, AgedPlaces
<1> HIDE DEF c
<1>3. \A n, a : Msg(n, a).m = n /\ Msg(n, a).age = a
  BY DEF Msg
<1>4. ASSUME NEW j \in 1..Len(mbox), NEW a, mbox[j] = Msg("CH_ABORT", a)
      PROVE  j \in 1..Len(c) /\ c[j] = Msg("CH_ABORT", 1)
  BY <1>2, <1>3, <1>4
<1>5. ASSUME NEW i \in 1..Len(c), c[i].m = "CH_REQ", c[i].age # 0
      PROVE  \E j \in 1..Len(c) : i < j /\ c[j] = Msg("CH_ABORT", c[i].age)
  <2>1. i \in 1..Len(mbox)
    BY <1>2, <1>3, <1>5
  <2>2. mbox[i].m = "CH_REQ" /\ c[i].age = 1
    BY <1>2, <1>3, <1>5, <2>1
  <2>3. PICK j \in 1..Len(mbox) : i < j /\ mbox[j] = Msg("CH_ABORT", mbox[i].age)
    BY <2>1, <2>2 DEF AsksEnd
  <2> QED BY <1>4, <2>2, <2>3
<1>6. ASSUME NEW a \in Aged(asked)
      PROVE  \E j \in 1..Len(c) : c[j] = Msg("CH_ABORT", a)
  <2>1. a = 1 /\ asked # {}
    BY <1>6 DEF Aged
  <2>2. PICK o \in asked : TRUE
    BY <2>1
  <2>3. PICK j \in 1..Len(mbox) : mbox[j] = Msg("CH_ABORT", o)
    BY <2>2 DEF AsksEnd
  <2> QED BY <1>4, <2>1, <2>3
<1> QED BY <1>5, <1>6 DEF AsksEnd, c

\* A new request of another kind.
LEMMA AsksBeside ==
  ASSUME BoxType, NEW names \in SUBSET Numbered, "CH_REQ" \notin names, "CH_ABORT" \notin names,
         NEW x \in Messages, x.m # "CH_REQ",
         NEW asked, NEW counts \in BOOLEAN, AsksEnd(mbox, asked, counts)
  PROVE  AsksEnd(Append(AgedBox(names), x), asked, counts)
<1> DEFINE c == Append(AgedBox(names), x)
<1>1. /\ Len(mbox) \in Nat /\ Len(c) = Len(mbox) + 1 /\ c[Len(mbox) + 1] = x
      /\ \A i \in 1..Len(mbox) :
           /\ i \in 1..Len(c)
           /\ c[i] = IF mbox[i].m \in names THEN Msg(mbox[i].m, 1) ELSE mbox[i]
      /\ \A i \in 1..Len(c) : i \in 1..Len(mbox) \/ i = Len(mbox) + 1
  BY AgedPlaces
<1> HIDE DEF c
<1>2. \A n, a : Msg(n, a).m = n
  BY DEF Msg
<1>3. ASSUME NEW j \in 1..Len(mbox), NEW a, mbox[j] = Msg("CH_ABORT", a)
      PROVE  j \in 1..Len(c) /\ c[j] = Msg("CH_ABORT", a)
  BY <1>1, <1>2, <1>3
<1>4. ASSUME NEW i \in 1..Len(c), c[i].m = "CH_REQ"
      PROVE  (counts /\ c[i].age = 0)
             \/ \E j \in 1..Len(c) : i < j /\ c[j] = Msg("CH_ABORT", c[i].age)
  <2>1. i \in 1..Len(mbox)
    BY <1>1, <1>4
  <2>2. mbox[i].m = "CH_REQ" /\ c[i] = mbox[i]
    BY <1>1, <1>2, <1>4, <2>1
  <2>3. CASE counts /\ c[i].age = 0
    BY <2>3
  <2>4. CASE \E j \in 1..Len(mbox) : i < j /\ mbox[j] = Msg("CH_ABORT", mbox[i].age)
    BY <1>3, <2>2, <2>4
  <2> QED BY <2>1, <2>2, <2>3, <2>4 DEF AsksEnd
<1>5. ASSUME NEW a \in asked
      PROVE  (counts /\ a = 0) \/ \E j \in 1..Len(c) : c[j] = Msg("CH_ABORT", a)
  BY <1>3 DEF AsksEnd
<1> QED BY <1>4, <1>5 DEF AsksEnd, c

\* Tame messages leave the joins as they are.
LEMMA JoinsGrow ==
  ASSUME NEW b \in Seq(Messages), NEW t \in Seq(Messages), Tame(t),
         NEW joining \in BOOLEAN, NEW at, JoinsEnd(b, joining, at)
  PROVE  JoinsEnd(b \o t, joining, at)
<1> DEFINE c == b \o t
<1>1. /\ Len(b) \in Nat /\ Len(t) \in Nat
      /\ \A i \in 1..Len(b) : i \in 1..Len(c) /\ c[i] = b[i]
      /\ \A k \in 1..Len(t) : Len(b) + k \in 1..Len(c) /\ c[Len(b) + k] = t[k]
      /\ \A i \in 1..Len(c) : i \in 1..Len(b) \/ \E k \in 1..Len(t) : i = Len(b) + k
  BY Joined
<1> HIDE DEF c
<1>2. \A i \in 1..Len(c) : c[i].m = "JOIN_REQ" => i \in 1..Len(b) /\ c[i] = b[i]
  BY <1>1 DEF Tame
<1>3. ASSUME NEW i \in 1..Len(c), c[i].m = "JOIN_REQ"
      PROVE  (joining /\ c[i].age = 0) \/ \E j \in 1..Len(c) : i < j /\ Stops(c[j])
  BY <1>1, <1>2, <1>3 DEF JoinsEnd
<1>4. ASSUME NEW i \in 1..Len(c), NEW j \in 1..Len(c),
             i < j, c[i].m = "JOIN_REQ", c[j].m = "JOIN_REQ"
      PROVE  c[i].age = 1
  BY <1>2, <1>4 DEF JoinsEnd
<1>5. ASSUME at = 0, NEW i \in 1..Len(c), c[i].m = "JOIN_REQ"  PROVE c[i].age = 1
  BY <1>2, <1>5 DEF JoinsEnd
<1>6. ASSUME at # -1
      PROVE  (joining /\ at = 0) \/ \E j \in 1..Len(c) : Stops(c[j])
  BY <1>1, <1>6 DEF JoinsEnd
<1> QED BY <1>3, <1>4, <1>5, <1>6 DEF JoinsEnd, c

\* With an abort among them AIS need be in none.
LEMMA JoinsStopped ==
  ASSUME NEW b \in Seq(Messages), NEW t \in Seq(Messages), Tame(t),
         \E k \in 1..Len(t) : t[k].m = "SAA_ABORT",
         NEW joining, NEW at, JoinsEnd(b, joining, at)
  PROVE  JoinsEnd(b \o t, FALSE, at)
<1> DEFINE c == b \o t
<1>1. /\ Len(b) \in Nat /\ Len(t) \in Nat
      /\ \A i \in 1..Len(b) : i \in 1..Len(c) /\ c[i] = b[i]
      /\ \A k \in 1..Len(t) : Len(b) + k \in 1..Len(c) /\ c[Len(b) + k] = t[k]
      /\ \A i \in 1..Len(c) : i \in 1..Len(b) \/ \E k \in 1..Len(t) : i = Len(b) + k
  BY Joined
<1> HIDE DEF c
<1>2. \A i \in 1..Len(c) : c[i].m = "JOIN_REQ" => i \in 1..Len(b) /\ c[i] = b[i]
  <2>1. \A k \in 1..Len(t) : c[Len(b) + k].m # "JOIN_REQ"
    BY <1>1 DEF Tame
  <2> QED BY <1>1, <2>1
<1>3. PICK k \in 1..Len(t) : t[k].m = "SAA_ABORT"
  OBVIOUS
<1>4. Len(b) + k \in 1..Len(c) /\ Stops(c[Len(b) + k])
  BY <1>1, <1>3 DEF Stops
<1>5. \A i \in 1..Len(b) : i < Len(b) + k
  BY <1>1
<1>6. ASSUME NEW i \in 1..Len(c), NEW j \in 1..Len(c),
             i < j, c[i].m = "JOIN_REQ", c[j].m = "JOIN_REQ"
      PROVE  c[i].age = 1
  BY <1>2, <1>6 DEF JoinsEnd
<1>7. ASSUME at = 0, NEW i \in 1..Len(c), c[i].m = "JOIN_REQ"  PROVE c[i].age = 1
  BY <1>2, <1>7 DEF JoinsEnd
<1> QED BY <1>2, <1>4, <1>5, <1>6, <1>7 DEF JoinsEnd, c

\* SAA gets a message.
LEMMA JoinsShrink ==
  ASSUME NEW b \in Seq(Messages), b # <<>>,
         NEW joining \in BOOLEAN, NEW at, JoinsEnd(b, joining, at)
  PROVE  /\ Head(b).m = "JOIN_REQ" => JoinsEnd(Tail(b), joining, Head(b).age)
         /\ Head(b).m = "SAA_ABORT" => JoinsEnd(Tail(b), joining, -1)
         /\ Head(b).m \notin {"JOIN_REQ", "SAA_ABORT"} => JoinsEnd(Tail(b), joining, at)
<1> DEFINE c == Tail(b)
           h == Head(b)
           next == IF h.m = "JOIN_REQ" THEN h.age ELSE IF h.m = "SAA_ABORT" THEN -1 ELSE at
<1>1. /\ Len(b) \in Nat \ {0} /\ Len(c) = Len(b) - 1 /\ h = b[1]
      /\ \A i \in 1..Len(c) : c[i] = b[i + 1]
  BY HeadTailProperties, LenProperties, EmptySeq
<1> HIDE DEF c, h
<1>2. \A i \in 1..Len(c) : i + 1 \in 1..Len(b)
  BY <1>1
<1>3. ASSUME NEW j \in 2..Len(b)  PROVE j - 1 \in 1..Len(c) /\ c[j - 1] = b[j]
  <2>1. j - 1 \in 1..Len(c) /\ (j - 1) + 1 = j
    BY <1>1
  <2> QED BY <1>1, <2>1
<1>4. ASSUME NEW i \in 1..Len(c), c[i].m = "JOIN_REQ"
      PROVE  (joining /\ c[i].age = 0) \/ \E j \in 1..Len(c) : i < j /\ Stops(c[j])
  <2>1. c[i] = b[i + 1] /\ i + 1 \in 1..Len(b)
    BY <1>1, <1>2
  <2>2. ASSUME NEW j \in 1..Len(b), i + 1 < j, Stops(b[j])
        PROVE  \E k \in 1..Len(c) : i < k /\ Stops(c[k])
    <3>1. j \in 2..Len(b) /\ i < j - 1
      BY <1>1, <2>2
    <3> QED BY <1>3, <2>2, <3>1
  <2> QED BY <1>4, <2>1, <2>2 DEF JoinsEnd
<1>5. ASSUME NEW i \in 1..Len(c), NEW j \in 1..Len(c),
             i < j, c[i].m = "JOIN_REQ", c[j].m = "JOIN_REQ"
      PROVE  c[i].age = 1
  <2>1. c[i] = b[i + 1] /\ c[j] = b[j + 1] /\ i + 1 < j + 1
    BY <1>1, <1>5
  <2> QED BY <1>2, <1>5, <2>1 DEF JoinsEnd
<1>6. ASSUME next = 0, NEW i \in 1..Len(c), c[i].m = "JOIN_REQ"  PROVE c[i].age = 1
  <2>1. c[i] = b[i + 1] /\ i + 1 \in 1..Len(b) /\ 1 \in 1..Len(b) /\ 1 < i + 1
    BY <1>1, <1>2
  <2>2. CASE h.m = "JOIN_REQ"
    BY <1>1, <1>6, <2>1, <2>2 DEF JoinsEnd
  <2>3. CASE h.m # "JOIN_REQ"
    BY <1>6, <2>1, <2>3 DEF JoinsEnd
  <2> QED BY <2>2, <2>3
<1>7. ASSUME next # -1
      PROVE  (joining /\ next = 0) \/ \E j \in 1..Len(c) : Stops(c[j])
  <2>1. ASSUME NEW j \in 1..Len(b), j # 1, Stops(b[j])
        PROVE  \E k \in 1..Len(c) : Stops(c[k])
    <3>1. j \in 2..Len(b)
      BY <1>1, <2>1
    <3> QED BY <1>3, <2>1, <3>1
  <2>2. 1 \in 1..Len(b) /\ \A j \in 1..Len(b) : 1 < j => j # 1
    BY <1>1
  <2>3. CASE h.m = "JOIN_REQ"
    BY <1>1, <2>1, <2>2, <2>3 DEF JoinsEnd
  <2>4. CASE h.m \notin {"JOIN_REQ", "SAA_ABORT"}
    <3>1. ~Stops(b[1])
      BY <1>1, <2>4 DEF Stops
    <3> QED BY <1>7, <2>1, <2>4, <3>1 DEF JoinsEnd
  <2> QED BY <1>7, <2>3, <2>4
<1>8. JoinsEnd(c, joining, next)
  BY <1>4, <1>5, <1>6, <1>7 DEF JoinsEnd
<1>9. CASE h.m = "JOIN_REQ"
  BY <1>8, <1>9 DEF c, h
<1>10. CASE h.m = "SAA_ABORT"
  BY <1>8, <1>10 DEF c, h
<1>11. CASE h.m \notin {"JOIN_REQ", "SAA_ABORT"}
  BY <1>8, <1>11 DEF c, h
<1> QED BY <1>9, <1>10, <1>11 DEF c, h

\* A new join request, while SAA has none or an old one.
LEMMA JoinsAnew ==
  ASSUME BoxType, NEW joining, NEW at, JoinsEnd(mbox, joining, at), NEW next, next # 0
  PROVE  JoinsEnd(Append(AgedBox({"JOIN_REQ"}), Msg("JOIN_REQ", 0)), TRUE, next)
<1> DEFINE c == Append(AgedBox({"JOIN_REQ"}), Msg("JOIN_REQ", 0))
           n == Len(mbox) + 1
<1>1. {"JOIN_REQ"} \in SUBSET Numbered /\ Msg("JOIN_REQ", 0) \in Messages
  BY MessageTypes DEF Numbered, Ages
<1>2. /\ Len(mbox) \in Nat /\ Len(c) = n /\ c[n] = Msg("JOIN_REQ", 0)
      /\ \A i \in 1..Len(mbox) :
           /\ i \in 1..Len(c)
           /\ c[i] = IF mbox[i].m \in {"JOIN_REQ"} THEN Msg(mbox[i].m, 1) ELSE mbox[i]
      /\ \A i \in 1..Len(c) : i \in 1..Len(mbox) \/ i = n
  BY <1>1, AgedPlaces
<1> HIDE DEF c
<1>3. \A m, a : Msg(m, a).m = m /\ Msg(m, a).age = a
  BY DEF Msg
<1>4. n \in 1..Len(c) /\ Stops(c[n]) /\ c[n].age = 0 /\ (\A i \in 1..Len(mbox) : i < n)
  BY <1>2, <1>3 DEF Stops
<1>5. \A i \in 1..Len(mbox) : c[i].m = "JOIN_REQ" => c[i].age = 1
  BY <1>2, <1>3
<1>6. \A i, j \in 1..Len(c) : i < j => i \in 1..Len(mbox)
  BY <1>2
<1> HIDE DEF n
<1> QED BY <1>2, <1>4, <1>5, <1>6 DEF JoinsEnd, c

\* A new request of another kind.
LEMMA JoinsBeside ==
  ASSUME BoxType, NEW names \in SUBSET Numbered, "JOIN_REQ" \notin names,
         NEW x \in Messages, x.m # "JOIN_REQ",
         NEW joining \in BOOLEAN, NEW at, JoinsEnd(mbox, joining, at)
  PROVE  JoinsEnd(Append(AgedBox(names), x), joining, at)
<1> DEFINE c == Append(AgedBox(names), x)
<1>1. /\ Len(mbox) \in Nat /\ Len(c) = Len(mbox) + 1 /\ c[Len(mbox) + 1] = x
      /\ \A i \in 1..Len(mbox) :
           /\ i \in 1..Len(c)
           /\ c[i] = IF mbox[i].m \in names THEN Msg(mbox[i].m, 1) ELSE mbox[i]
      /\ \A i \in 1..Len(c) : i \in 1..Len(mbox) \/ i = Len(mbox) + 1
  BY AgedPlaces
<1> HIDE DEF c
<1>2. (\A n, a : Msg(n, a).m = n) /\ "SAA_ABORT" \notin names
  BY DEF Msg, Numbered
<1>3. \A i \in 1..Len(mbox) : Stops(mbox[i]) => i \in 1..Len(c) /\ Stops(c[i])
  BY <1>1, <1>2 DEF Stops
<1>4. \A i \in 1..Len(c) : c[i].m = "JOIN_REQ" => i \in 1..Len(mbox) /\ c[i] = mbox[i]
  BY <1>1, <1>2
<1>5. ASSUME NEW i \in 1..Len(c), c[i].m = "JOIN_REQ"
      PROVE  (joining /\ c[i].age = 0) \/ \E j \in 1..Len(c) : i < j /\ Stops(c[j])
  BY <1>3, <1>4, <1>5 DEF JoinsEnd
<1>6. ASSUME NEW i \in 1..Len(c), NEW j \in 1..Len(c),
             i < j, c[i].m = "JOIN_REQ", c[j].m = "JOIN_REQ"
      PROVE  c[i].age = 1
  BY <1>4, <1>6 DEF JoinsEnd
<1>7. ASSUME at = 0, NEW i \in 1..Len(c), c[i].m = "JOIN_REQ"  PROVE c[i].age = 1
  BY <1>4, <1>7 DEF JoinsEnd
<1>8. ASSUME at # -1
      PROVE  (joining /\ at = 0) \/ \E j \in 1..Len(c) : Stops(c[j])
  BY <1>3, <1>8 DEF JoinsEnd
<1> QED BY <1>5, <1>6, <1>7, <1>8 DEF JoinsEnd, c

\* The current join has ended; or SAA has given one up.
LEMMA JoinsOver ==
  ASSUME NEW b, NEW joining \in BOOLEAN, NEW at, JoinsEnd(b, joining, at)
  PROVE  /\ JoinsEnd(b, joining, -1)
         /\ at = 0 => JoinsEnd(b, FALSE, -1)
         /\ ~joining => \A now \in BOOLEAN : JoinsEnd(b, now, at)
BY DEF JoinsEnd

-----------------------------------------------------------------------------
(* The invariant.  The first part follows the state, the window that is kept *)
(* for a join and the handshake, and the channel; it needs to know where     *)
(* remain-on-channel may be asked and cancelled.                             *)

Has(b, name) == \E i \in 1..Len(b) : b[i].m = name
Counts == chReq \/ chGrant

\* A cancel is alone in the box, while the channel is asked or held; a request
\* in the box has met the window only if the join began in this round of the box.
RocInd ==
  /\ Has(mbox, "CANCEL") =>
       Len(mbox) = 1 /\ goto = "none" /\ ais \in {"REQ_REMAIN", "REMAIN"}
  /\ Has(mbox, "REMAIN") /\ ~finished => draining /\ State = "JOIN"

\* The window is open in JOIN, and only with its timer or until a
\* deauthentication that ends it; the channel AIS counts on is for something.
ControlInd ==
  /\ WindowCloses
  /\ State = "JOIN" => ~finished
  /\ State \in {"NORMAL_TR", "ONLINE_SCAN"} => conn
  /\ Counts => \/ State = "REMAIN" \/ ~finished
               \/ goto = "none" /\ ais \in {"REQ_CHANNEL_JOIN", "REQ_REMAIN"}

AsksInd == AsksEnd(mbox, chAsked \cup chHeld, Counts)
JoinsInd == JoinsEnd(mbox, State = "JOIN", saa)
AisInd == TypeOK /\ RocInd /\ ControlInd /\ AsksInd /\ JoinsInd

\* What an abort puts in the box.
Aborts(t) == \A k \in 1..Len(t) : t[k].m \in {"SAA_ABORT", "CH_ABORT", "SCAN_DONE"}
GivesChannel(t) == Counts => \E k \in 1..Len(t) : t[k] = Msg("CH_ABORT", 0)
StopsJoin(t) == \E k \in 1..Len(t) : t[k].m = "SAA_ABORT"

\* The three pieces of an abort.
LEMMA AbortPieces ==
  ASSUME LinkType
  PROVE  /\ <<>> \in Seq(Messages) /\ Aborts(<<>>)
         /\ ScanCancelled \in Seq(Messages) /\ Aborts(ScanCancelled)
         /\ ChAbort \in Seq(Messages) /\ Aborts(ChAbort) /\ GivesChannel(ChAbort)
         /\ JoinAbort \in Seq(Messages) /\ Aborts(JoinAbort) /\ GivesChannel(JoinAbort)
         /\ StopsJoin(JoinAbort)
<1>1. <<>> \in Seq(Messages) /\ ScanCancelled \in Seq(Messages)
      /\ ChAbort \in Seq(Messages) /\ JoinAbort \in Seq(Messages)
  BY AbortTypes DEF LinkType
<1>2. Aborts(<<>>)
  BY DEF Aborts
<1>3. \A x : Len(<<x>>) = 1 /\ <<x>>[1] = x /\ 1..Len(<<x>>) = {1}
  OBVIOUS
<1>4. \A n, a : Msg(n, a).m = n
  BY DEF Msg
<1>5. \A n \in {"CH_ABORT", "SCAN_DONE"} : Aborts(<<Msg(n, 0)>>)
  BY <1>3, <1>4 DEF Aborts
<1>6. Aborts(ScanCancelled) /\ Aborts(ChAbort)
  BY <1>2, <1>5 DEF ScanCancelled, ChAbort
<1>7. GivesChannel(ChAbort)
  BY <1>3 DEF GivesChannel, ChAbort, Counts
<1> DEFINE x == [m |-> "SAA_ABORT", sta |-> target]
<1>8. x.m = "SAA_ABORT" /\ <<x>> \in Seq(Messages) /\ JoinAbort = <<x>> \o ChAbort
  <2>1. x \in Messages
    BY MessageTypes DEF LinkType
  <2> QED BY <2>1 DEF JoinAbort
<1> HIDE DEF x
<1>9. /\ \A i \in 1..Len(<<x>>) : i \in 1..Len(JoinAbort) /\ JoinAbort[i] = <<x>>[i]
      /\ \A k \in 1..Len(ChAbort) : Len(<<x>>) + k \in 1..Len(JoinAbort)
                                    /\ JoinAbort[Len(<<x>>) + k] = ChAbort[k]
      /\ \A i \in 1..Len(JoinAbort) : i \in 1..Len(<<x>>)
                                      \/ \E k \in 1..Len(ChAbort) : i = Len(<<x>>) + k
  BY <1>1, <1>8, Joined
<1>10. Aborts(JoinAbort)
  BY <1>3, <1>6, <1>8, <1>9 DEF Aborts
<1>11. GivesChannel(JoinAbort)
  BY <1>7, <1>9 DEF GivesChannel
<1>12. StopsJoin(JoinAbort)
  BY <1>3, <1>8, <1>9 DEF StopsJoin
<1> QED BY <1>1, <1>2, <1>6, <1>7, <1>10, <1>11, <1>12

\* What giving up a state does to the box, the window and the channel.
LEMMA StateAbortEffect ==
  ASSUME TypeOK, NEW r, NEW delay, NEW p, NEW box \in Seq(Messages), NEW t,
         StateAbort(r, delay, p, box, t)
  PROVE  /\ \E s \in Seq(Messages) :
              /\ Aborts(s) /\ mbox' = box \o s
              /\ ais = "JOIN" => StopsJoin(s)
              /\ UNCHANGED <<chReq, chGrant>> \/ (~Counts' /\ GivesChannel(s))
         /\ ais \in {"JOIN", "DISCONNECTING", "REQ_CHANNEL_JOIN", "REQ_REMAIN", "REMAIN"} => ~Counts'
         /\ goto' \in {"IDLE", "DISCONNECTING"}
         /\ \/ finished' /\ ~Counts'
            \/ /\ finished' = finished /\ ais \notin {"JOIN", "DISCONNECTING"}
               /\ ais = "NORMAL_TR" /\ conn => goto' = "DISCONNECTING"
<1> DEFINE connected == conn /\ ais \in {"WAIT", "LOOKING_FOR", "REQ_CHANNEL_JOIN",
                                         "JOIN", "ONLINE_SCAN", "NORMAL_TR"}
           deauth == connected /\ r = "NEW" /\ apRec = "used"
           ends == ais = "JOIN" \/ ais = "DISCONNECTING" \/ (connected /\ ~deauth)
           gives == ends \/ ais \in {"REQ_CHANNEL_JOIN", "REQ_REMAIN", "REMAIN"}
           s1 == IF ais \in Scanning THEN ScanCancelled ELSE <<>>
           s2 == IF ais = "JOIN" THEN JoinAbort ELSE IF gives THEN ChAbort ELSE <<>>
<1>1. /\ mbox' = box \o s1 \o s2
      /\ finished' = (finished \/ ends)
      /\ IF gives THEN chReq' = FALSE /\ chGrant' = FALSE ELSE UNCHANGED <<chReq, chGrant>>
      /\ IF deauth THEN goto' = "DISCONNECTING" ELSE goto' = "IDLE"
  BY DEF StateAbort, ReleaseChFlags, Disconnect
<1>2. gives => ~Counts'
  BY <1>1 DEF Counts
<1>3. LinkType /\ finished \in BOOLEAN
  BY TypeParts DEF ChType
<1>4. /\ s1 \in Seq(Messages) /\ Aborts(s1) /\ s2 \in Seq(Messages) /\ Aborts(s2)
      /\ ais = "JOIN" => StopsJoin(s2)
      /\ gives => GivesChannel(s2)
  BY <1>3, AbortPieces
<1>5. ais = "NORMAL_TR" /\ conn /\ ~ends => goto' = "DISCONNECTING"
  BY <1>1
<1>6. /\ ends => gives
      /\ ais \in {"JOIN", "DISCONNECTING", "REQ_CHANNEL_JOIN", "REQ_REMAIN", "REMAIN"} => gives
      /\ ~ends => ais \notin {"JOIN", "DISCONNECTING"}
  OBVIOUS
<1> HIDE DEF s1, s2, gives, ends, deauth
<1> DEFINE s == s1 \o s2
<1>7. s \in Seq(Messages) /\ box \o s1 \o s2 = box \o s
  BY <1>4, ConcatProperties, ConcatAssociative
<1>8. /\ \A i \in 1..Len(s1) : i \in 1..Len(s) /\ s[i] = s1[i]
      /\ \A k \in 1..Len(s2) : Len(s1) + k \in 1..Len(s) /\ s[Len(s1) + k] = s2[k]
      /\ \A i \in 1..Len(s) : i \in 1..Len(s1) \/ \E k \in 1..Len(s2) : i = Len(s1) + k
  BY <1>4, Joined
<1> HIDE DEF s
<1>9. Aborts(s) /\ (StopsJoin(s2) => StopsJoin(s)) /\ (GivesChannel(s2) => GivesChannel(s))
  <2>1. Aborts(s)
    BY <1>4, <1>8 DEF Aborts
  <2>2. StopsJoin(s2) => StopsJoin(s)
    BY <1>8 DEF StopsJoin
  <2>3. GivesChannel(s2) => GivesChannel(s)
    BY <1>8 DEF GivesChannel
  <2> QED BY <2>1, <2>2, <2>3
<1>10. UNCHANGED <<chReq, chGrant>> \/ (~Counts' /\ GivesChannel(s))
  BY <1>1, <1>2, <1>4, <1>9
<1>11. mbox' = box \o s
  BY <1>1, <1>7
<1>12. goto' \in {"IDLE", "DISCONNECTING"}
  BY <1>1
<1>13. \/ finished' /\ ~Counts'
       \/ /\ finished' = finished /\ ais \notin {"JOIN", "DISCONNECTING"}
          /\ ais = "NORMAL_TR" /\ conn => goto' = "DISCONNECTING"
  BY <1>1, <1>2, <1>3, <1>5, <1>6
<1> QED BY <1>2, <1>4, <1>6, <1>7, <1>9, <1>10, <1>11, <1>12, <1>13

\* What NORMAL_TR serves.
LEMMA ServedIs ==
  ASSUME EnterNormalTr
  PROVE  /\ ais' = "NORMAL_TR"
         /\ \/ pend' = pend /\ goto' = "none"
            \/ /\ finished /\ goto' \in {"ONLINE_SCAN", "LOOKING_FOR", "SEARCH", "REQ_REMAIN"}
               /\ \E r : pend' = Without(pend, r)
<1> DEFINE i == SelectInSeq(ServedInTurn, LAMBDA r : Pends(pend, r))
           I == {k \in 1..4 : Pends(pend, ServedInTurn[k])}
<1>1. Len(ServedInTurn) = 4
  BY DEF ServedInTurn
<1>2. i = IF I # {} THEN Min(I) ELSE 0
  BY <1>1 DEF SelectInSeq
<1>3. I \subseteq 1..4 /\ I \subseteq Nat
  OBVIOUS
<1> HIDE DEF I
<1>4. I # {} => Min(I) \in 1..4
  BY <1>3, MinIs
<1> HIDE DEF i
<1>5. i > 0 => i \in 1..4
  BY <1>2, <1>4
<1>6. /\ ais' = "NORMAL_TR"
      /\ IF finished /\ i > 0
           THEN pend' = Without(pend, ServedInTurn[i]) /\ goto' = ServedBy[i]
           ELSE UNCHANGED pend /\ goto' = "none"
  BY DEF EnterNormalTr, Enter, Then, i
<1>7. \A k \in 1..4 : ServedBy[k] \in {"ONLINE_SCAN", "LOOKING_FOR", "SEARCH", "REQ_REMAIN"}
  BY DEF ServedBy
<1> QED BY <1>5, <1>6, <1>7

\* A message that is handled is in the box.
LEMMA RecvHas ==
  ASSUME BoxType, NEW names, Recv(names)
  PROVE  goto = "none" /\ Head(mbox).m \in names /\ Has(mbox, Head(mbox).m)
<1>1. mbox # <<>> /\ mbox \in Seq(Messages)
  BY DEF Recv, BoxType
<1>2. 1 \in 1..Len(mbox) /\ Head(mbox) = mbox[1]
  BY <1>1, HeadTailProperties, LenProperties, EmptySeq
<1> QED BY <1>2 DEF Recv, Has

\* A state that is given up leaves neither a window nor a channel without its end.
LEMMA AbortKeepsControl ==
  ASSUME TypeOK, ControlInd, goto = "none", NEW r, NEW delay, NEW p,
         NEW box \in Seq(Messages), NEW t, StateAbort(r, delay, p, box, t)
  PROVE  ControlInd'
<1>1. ais \in States /\ finished \in BOOLEAN /\ finished' \in BOOLEAN
  BY TypeParts DEF PlaceType, ChType, StateAbort
<1>2. /\ UNCHANGED <<chReq, chGrant>> \/ ~Counts'
      /\ ais \in {"JOIN", "DISCONNECTING", "REQ_CHANNEL_JOIN", "REQ_REMAIN", "REMAIN"} => ~Counts'
      /\ goto' \in {"IDLE", "DISCONNECTING"}
      /\ \/ finished' /\ ~Counts'
         \/ /\ finished' = finished /\ ais \notin {"JOIN", "DISCONNECTING"}
            /\ ais = "NORMAL_TR" /\ conn => goto' = "DISCONNECTING"
  BY StateAbortEffect
<1>3. State = ais /\ State' = goto'
  BY <1>2 DEF State
<1>4. UNCHANGED <<chReq, chGrant>> => Counts' = Counts
  BY DEF Counts
<1> QED BY <1>1, <1>2, <1>3, <1>4 DEF ControlInd, WindowCloses

\* A pass of aisFsmSteps() keeps the window and the channel tied to the state.
LEMMA StepsKeepControl ==
  ASSUME TypeOK, ControlInd, Steps
  PROVE  ControlInd'
<1>1. CASE EnterIdle
  BY <1>1, TypeParts DEF EnterIdle, Requests, Enter, ControlInd, WindowCloses, State,
        Counts, Then, linkVars, chVars
<1>2. CASE EnterSearch
  BY <1>2, TypeParts DEF EnterSearch, Join, NoBss, Enter, ControlInd, WindowCloses,
        State, Counts, Then, linkVars, chVars
<1>3. CASE EnterWait
  BY <1>3, TypeParts DEF EnterWait, Enter, ControlInd, WindowCloses, State, Counts,
        Then, linkVars, chVars
<1>4. CASE EnterScan
  BY <1>4, TypeParts DEF EnterScan, Scanning, Enter, ControlInd, WindowCloses, State,
        Counts, Then, linkVars, chVars
<1>5. CASE EnterReqChannel
  BY <1>5, TypeParts DEF EnterReqChannel, Enter, ControlInd, WindowCloses, State,
        Counts, Then, linkVars, chVars
<1>6. CASE EnterJoin
  BY <1>6, TypeParts DEF EnterJoin, Enter, ControlInd, WindowCloses, State, Counts,
        Then, linkVars, chVars
<1>7. CASE EnterNormalTr
  BY <1>7, ServedIs DEF EnterNormalTr, Enter, ControlInd, WindowCloses, State, Counts,
        Then, linkVars, chVars
<1>8. CASE EnterDisconnecting
  BY <1>8, TypeParts DEF EnterDisconnecting, Enter, ControlInd, WindowCloses, State,
        Counts, Then, linkVars, chVars
<1>9. CASE EnterRemain
  BY <1>9, TypeParts DEF EnterRemain, Enter, ControlInd, WindowCloses, State, Counts,
        Then, linkVars, chVars
<1> QED BY <1>1, <1>2, <1>3, <1>4, <1>5, <1>6, <1>7, <1>8, <1>9 DEF Steps

\* A handler does, since a cancel finds AIS in remain-on-channel and a request
\* meets no window.
LEMMA HandleKeepsControl ==
  ASSUME TypeOK, RocInd, ControlInd, Handle
  PROVE  ControlInd'
<1>1. CASE ScanDone
  BY <1>1, TypeParts DEF ScanDone, AfterScan, Recv, ControlInd, WindowCloses, State,
        Counts, Then, linkVars, chVars
<1>2. CASE Abort
  <2>1. goto = "none" /\ Tail(mbox) \in Seq(Messages)
    BY <1>2, TypeParts, HeadTailProperties DEF Abort, Recv, BoxType
  <2>2. CASE \E p : StateAbort(Head(mbox).reason, Head(mbox).delay, p, Tail(mbox), timers)
    BY <2>1, <2>2, AbortKeepsControl
  <2>3. CASE goto' = "none" /\ UNCHANGED <<ais, conn, finished, chReq, chGrant, timers>>
    BY <2>1, <2>3 DEF ControlInd, WindowCloses, State, Counts, Then, linkVars, chVars
  <2>4. CASE /\ ais = "NORMAL_TR" /\ finished /\ goto' = "SEARCH"
             /\ UNCHANGED <<conn, finished, chReq, chGrant, timers>>
    BY <2>1, <2>4 DEF ControlInd, WindowCloses, State, Counts, Then, linkVars, chVars
  <2> QED BY <1>2, <2>1, <2>2, <2>3, <2>4 DEF Abort, AbortKeeps, Then, linkVars,
                chVars
<1>3. CASE ChGrant
  <2>1. goto = "none"
    BY <1>3 DEF ChGrant, Recv
  <2>2. \/ /\ ais \in {"REQ_CHANNEL_JOIN"} /\ goto' = "JOIN" /\ ~finished' /\ "join" \in timers'
        \/ /\ finished' = finished /\ timers \subseteq timers' /\ ais' = ais
           /\ \/ ais = "REQ_REMAIN" /\ goto' = "REMAIN"
              \/ goto' = "none" /\ ~Counts'
    BY <1>3, TypeParts DEF ChGrant, ReleaseChFlags, Then, Counts, ChType
  <2>3. conn' = conn
    BY <1>3 DEF ChGrant, linkVars
  <2> QED BY <2>1, <2>2, <2>3 DEF ControlInd, WindowCloses, State
<1>4. CASE Remain
  <2>1. goto = "none" /\ Has(mbox, "REMAIN")
    BY <1>4, TypeParts, RecvHas DEF Remain
  <2>2. finished \/ ais = "JOIN"
    BY <2>1 DEF RocInd, State
  <2> QED BY <1>4, <2>1, <2>2 DEF Remain, ControlInd, WindowCloses, State, Counts,
                Then, linkVars, chVars
<1>5. CASE CancelRemain
  <2>1. goto = "none" /\ ais \in {"REQ_REMAIN", "REMAIN"}
    BY <1>5, TypeParts, RecvHas DEF CancelRemain, RocInd
  <2>2. ~Counts' /\ finished' = finished /\ conn' = conn
        /\ goto' = IF conn THEN "NORMAL_TR" ELSE "IDLE"
    BY <1>5, <2>1 DEF CancelRemain, ReleaseChFlags, Then, Counts, linkVars
  <2> QED BY <2>1, <2>2 DEF ControlInd, WindowCloses, State
<1>6. CASE ScanStart
  BY <1>6, TypeParts DEF ScanStart, Recv, ControlInd, WindowCloses, State, Counts,
        Then, linkVars, chVars
<1>7. CASE ChPrivilege
  BY <1>7, TypeParts DEF ChPrivilege, Recv, ControlInd, WindowCloses, State, Counts,
        Then, linkVars, chVars
<1>8. CASE SaaStart
  BY <1>8, TypeParts DEF SaaStart, Recv, ControlInd, WindowCloses, State, Counts,
        Then, linkVars, chVars
<1>9. CASE SaaAbort
  BY <1>9, TypeParts DEF SaaAbort, Recv, ControlInd, WindowCloses, State, Counts,
        Then, linkVars, chVars
<1> QED BY <1>1, <1>2, <1>3, <1>4, <1>5, <1>6, <1>7, <1>8, <1>9 DEF Handle

\* What the user and the AP start does,
LEMMA UserKeepsControl ==
  ASSUME TypeOK, ControlInd, User
  PROVE  ControlInd'
<1>1. CASE OsScan
  BY <1>1, TypeParts DEF OsScan, Event, Outside, ControlInd, WindowCloses, State,
        Counts, Then, linkVars, chVars
<1>2. CASE Connect
  BY <1>2, TypeParts DEF Connect, Event, Outside, ControlInd, WindowCloses, State,
        Counts, Then, linkVars, chVars
<1>3. CASE UserDisconnect
  BY <1>3, TypeParts DEF UserDisconnect, Event, Outside, ControlInd, WindowCloses,
        State, Counts, Then, linkVars, chVars
<1>4. CASE Deauth
  BY <1>4, TypeParts DEF Deauth, Event, Outside, ControlInd, WindowCloses, State,
        Counts, Then, linkVars, chVars
<1>5. CASE BeaconTimeout
  <2>1. goto = "none" /\ mbox \in Seq(Messages)
    BY <1>5, TypeParts DEF BeaconTimeout, LinkLost, Event, Outside, BoxType
  <2> QED BY <1>5, <2>1, AbortKeepsControl DEF BeaconTimeout, LinkLost
<1>6. CASE SecurityChanged
  <2>1. goto = "none" /\ mbox \in Seq(Messages)
    BY <1>6, TypeParts DEF SecurityChanged, LinkLost, Event, Outside, BoxType
  <2> QED BY <1>6, <2>1, AbortKeepsControl DEF SecurityChanged, LinkLost
<1>7. CASE BssInfoDiffers
  <2>1. goto = "none" /\ mbox \in Seq(Messages)
    BY <1>7, TypeParts DEF BssInfoDiffers, LinkLost, Event, Outside, BoxType
  <2> QED BY <1>7, <2>1, AbortKeepsControl DEF BssInfoDiffers, LinkLost
<1>8. CASE RoamingDiscovery
  BY <1>8, TypeParts DEF RoamingDiscovery, Event, Outside, ControlInd, WindowCloses,
        State, Counts, Then, linkVars, chVars
<1>9. CASE RemainOnChannel
  BY <1>9, TypeParts DEF RemainOnChannel, RocMsg, Event, Outside, ControlInd,
        WindowCloses, State, Counts, Then, linkVars, chVars
<1>10. CASE CancelRemainOnChannel
  BY <1>10, TypeParts DEF CancelRemainOnChannel, RocMsg, Event, Outside, ControlInd,
        WindowCloses, State, Counts, Then, linkVars, chVars
<1> QED BY <1>1, <1>2, <1>3, <1>4, <1>5, <1>6, <1>7, <1>8, <1>9, <1>10 DEF User

\* the end of a join, which closes the window or goes on with the handshake,
LEMMA AnswersKeepControl ==
  ASSUME TypeOK, ControlInd, Answers
  PROVE  ControlInd'
<1>1. CASE ScanEnds
  BY <1>1, TypeParts DEF ScanEnds, Outside, ControlInd, WindowCloses, State, Counts,
        Then, linkVars, chVars
<1>2. CASE FwGrants
  BY <1>2, TypeParts DEF FwGrants, Outside, ControlInd, WindowCloses, State, Counts,
        Then, linkVars, chVars
<1>3. CASE ChEvent
  BY <1>3, TypeParts DEF ChEvent, Outside, ControlInd, WindowCloses, State, Counts,
        Then, linkVars, chVars
<1>4. CASE JoinSucceeds
  BY <1>4, TypeParts DEF JoinSucceeds, JoinEnds, Outside, ControlInd, WindowCloses,
        State, Counts, Then, linkVars, chVars
<1>5. CASE JoinRetries
  BY <1>5, TypeParts DEF JoinRetries, JoinEnds, Outside, ControlInd, WindowCloses,
        State, Counts, Then, linkVars, chVars
<1>6. CASE JoinFails
  BY <1>6, TypeParts DEF JoinFails, JoinEnds, ReleaseChFlags, Outside, ControlInd,
        WindowCloses, State, Counts, Then, linkVars, chVars
<1>7. CASE JoinIgnored
  BY <1>7, TypeParts DEF JoinIgnored, Outside, ControlInd, WindowCloses, State,
        Counts, Then, linkVars, chVars
<1>8. CASE DeauthTxDone
  <2>1. goto = "none" /\ mbox \in Seq(Messages)
    BY <1>8, TypeParts DEF DeauthTxDone, Outside, BoxType
  <2>2. CASE \E t : StateAbort("NEW", FALSE, pend, mbox, t)
    BY <2>1, <2>2, AbortKeepsControl
  <2>3. CASE UNCHANGED <<ais, goto, conn, chVars>> /\ ("join" \in timers => "join" \in timers')
    BY <2>1, <2>3 DEF ControlInd, WindowCloses, State, Counts, Then, linkVars, chVars
  <2> QED BY <1>8, <2>2, <2>3 DEF DeauthTxDone, Deauthenticated, linkVars
<1> QED BY <1>1, <1>2, <1>3, <1>4, <1>5, <1>6, <1>7, <1>8 DEF Answers

\* and the timers, of which the one of the join closes the window.
LEMMA TimersKeepControl ==
  ASSUME TypeOK, ControlInd, TimersFire
  PROVE  ControlInd'
<1>1. CASE ScanDoneTimeOut
  BY <1>1, TypeParts DEF ScanDoneTimeOut, AfterScan, Fires, Outside, ControlInd,
        WindowCloses, State, Counts, Then, linkVars, chVars
<1>2. CASE BgSleepTimeOut
  BY <1>2, TypeParts DEF BgSleepTimeOut, Fires, Outside, ControlInd, WindowCloses,
        State, Counts, Then, linkVars, chVars
<1>3. CASE JoinTimeout
  BY <1>3, TypeParts DEF JoinTimeout, ReleaseChFlags, Fires, Outside, ControlInd,
        WindowCloses, State, Counts, Then, linkVars, chVars
<1>4. CASE DeauthTimeout
  <2>1. goto = "none" /\ mbox \in Seq(Messages)
    BY <1>4, TypeParts DEF DeauthTimeout, Fires, Outside, BoxType
  <2>2. CASE \E t : StateAbort("NEW", FALSE, pend, mbox, t)
    BY <2>1, <2>2, AbortKeepsControl
  <2>3. CASE UNCHANGED <<ais, goto, conn, chVars>> /\ ("join" \in timers => "join" \in timers')
    BY <2>1, <2>3 DEF ControlInd, WindowCloses, State, Counts, Then, linkVars, chVars
  <2> QED BY <1>4, <2>2, <2>3 DEF DeauthTimeout, Deauthenticated, linkVars
<1>5. CASE ChannelTimeout
  BY <1>5, TypeParts DEF ChannelTimeout, ReleaseChFlags, Fires, Outside, ControlInd,
        WindowCloses, State, Counts, Then, linkVars, chVars
<1>6. CASE PostponedDisconn
  BY <1>6, TypeParts DEF PostponedDisconn, TellDisconnected, HostToldDisconnected,
        Fires, Outside, ControlInd, WindowCloses, State, Counts, Then, linkVars,
        chVars
<1>7. CASE JoinReqGetsOld
  BY <1>7, TypeParts DEF JoinReqGetsOld, Fires, Outside, ControlInd, WindowCloses,
        State, Counts, Then, linkVars, chVars
<1> QED BY <1>1, <1>2, <1>3, <1>4, <1>5, <1>6, <1>7 DEF TimersFire

-----------------------------------------------------------------------------
(* Remain-on-channel in the box. *)

\* What a box has that was made of others.
LEMMA HasJoined ==
  ASSUME NEW b \in Seq(Messages), NEW t \in Seq(Messages), NEW n, Has(b \o t, n)
  PROVE  Has(b, n) \/ Has(t, n)
<1>1. PICK i \in 1..Len(b \o t) : (b \o t)[i].m = n
  BY DEF Has
<1>2. i \in 1..Len(b) \/ \E k \in 1..Len(t) : i = Len(b) + k
  BY Joined
<1>3. CASE i \in 1..Len(b)
  <2>1. b[i].m = n
    BY <1>1, <1>3, Joined
  <2> QED BY <1>3, <2>1 DEF Has
<1>4. CASE \E k \in 1..Len(t) : i = Len(b) + k
  <2>1. PICK k \in 1..Len(t) : i = Len(b) + k
    BY <1>4
  <2>2. t[k].m = n
    BY <1>1, <2>1, Joined
  <2> QED BY <2>2 DEF Has
<1> QED BY <1>2, <1>3, <1>4

\* The rest of a box has nothing that the box has not.
LEMMA HasTail ==
  ASSUME NEW b \in Seq(Messages), b # <<>>, NEW n, Has(Tail(b), n)
  PROVE  Has(b, n)
<1>1. /\ Len(b) \in Nat /\ Len(Tail(b)) = Len(b) - 1
      /\ \A i \in 1..Len(Tail(b)) : Tail(b)[i] = b[i + 1]
  BY HeadTailProperties, LenProperties
<1>2. PICK i \in 1..Len(Tail(b)) : Tail(b)[i].m = n
  BY DEF Has
<1>3. i + 1 \in 1..Len(b)
  BY <1>1
<1> QED BY <1>1, <1>2, <1>3 DEF Has

\* A message at the end.
LEMMA HasAppend ==
  ASSUME NEW b \in Seq(Messages), NEW x \in Messages, NEW n, Has(Append(b, x), n)
  PROVE  Has(b, n) \/ x.m = n
<1>1. /\ Len(b) \in Nat /\ Len(Append(b, x)) = Len(b) + 1
      /\ (\A i \in 1..Len(b) : Append(b, x)[i] = b[i]) /\ Append(b, x)[Len(b) + 1] = x
  BY AppendProperties, LenProperties
<1>2. PICK i \in 1..Len(Append(b, x)) : Append(b, x)[i].m = n
  BY DEF Has
<1>3. i \in 1..Len(b) \/ i = Len(b) + 1
  BY <1>1
<1> QED BY <1>1, <1>2, <1>3 DEF Has

\* A message at the end of a box with old numbers.
LEMMA HasAged ==
  ASSUME BoxType, NEW names \in SUBSET Numbered, NEW x \in Messages, NEW n,
         Has(Append(AgedBox(names), x), n)
  PROVE  Has(mbox, n) \/ x.m = n
<1> DEFINE c == Append(AgedBox(names), x)
<1>1. /\ Len(mbox) \in Nat /\ Len(c) = Len(mbox) + 1 /\ c[Len(mbox) + 1] = x
      /\ \A i \in 1..Len(mbox) : c[i] = IF mbox[i].m \in names THEN Msg(mbox[i].m, 1) ELSE mbox[i]
      /\ \A i \in 1..Len(c) : i \in 1..Len(mbox) \/ i = Len(mbox) + 1
  BY AgedPlaces
<1>2. PICK i \in 1..Len(c) : c[i].m = n
  BY DEF Has
<1> HIDE DEF c
<1>3. \A m : Msg(m, 1).m = m
  BY DEF Msg
<1> QED BY <1>1, <1>2, <1>3 DEF Has

\* An empty box has nothing, and an abort puts nothing of the kind in it.
LEMMA HasNone ==
  /\ \A n : ~Has(<<>>, n)
  /\ \A b : Aborts(b) => ~Has(b, "CANCEL") /\ ~Has(b, "REMAIN")
BY DEF Has, Aborts

Requested == {"CANCEL", "REMAIN"}
NothingAsked == \A n \in Requested : Has(mbox', n) => Has(mbox, n)

\* The first message is the cancel if there is one.
LEMMA CancelFirst ==
  ASSUME BoxType, RocInd, NEW names, Recv(names), "CANCEL" \notin names
  PROVE  ~Has(mbox, "CANCEL")
<1>1. mbox # <<>> /\ mbox \in Seq(Messages) /\ Head(mbox).m \in names
  BY DEF Recv, BoxType
<1>2. Len(mbox) \in Nat /\ Head(mbox) = mbox[1]
  BY <1>1, HeadTailProperties, LenProperties
<1>3. ASSUME Has(mbox, "CANCEL")  PROVE FALSE
  <2>1. Len(mbox) = 1
    BY <1>3 DEF RocInd
  <2>2. mbox[1].m = "CANCEL"
    BY <1>3, <2>1 DEF Has
  <2> QED BY <1>1, <1>2, <2>2
<1> QED BY <1>3

\* A pass of aisFsmSteps() that asks for nothing.
LEMMA RocStep ==
  ASSUME RocInd, goto # "none", KeepDraining, finished' = finished, NothingAsked,
         goto = "JOIN" => ais' = "JOIN" /\ goto' = "none"
  PROVE  RocInd'
<1>1. ~Has(mbox', "CANCEL")
  BY DEF RocInd, NothingAsked, Requested
<1>2. ASSUME Has(mbox', "REMAIN"), ~finished'  PROVE draining' /\ State' = "JOIN"
  <2>1. draining /\ goto = "JOIN"
    BY <1>2 DEF RocInd, NothingAsked, Requested, State
  <2>2. mbox' # <<>>
    BY <1>2, HasNone
  <2> QED BY <2>1, <2>2 DEF KeepDraining, State
<1> QED BY <1>1, <1>2 DEF RocInd

\* A handler that asks for nothing.
LEMMA RocHandler ==
  ASSUME BoxType, RocInd, NEW names, Recv(names), "CANCEL" \notin names, StillDraining, NothingAsked,
         finished' \/ goto' = "JOIN"
         \/ (finished' = finished /\ (ais = "JOIN" => ais' = "JOIN" /\ goto' = "none"))
  PROVE  RocInd'
<1>1. ~Has(mbox', "CANCEL")
  BY CancelFirst DEF NothingAsked, Requested
<1>2. ASSUME Has(mbox', "REMAIN"), ~finished'  PROVE draining' /\ State' = "JOIN"
  <2>1. mbox' # <<>> /\ goto = "none"
    BY <1>2, HasNone DEF Recv
  <2>2. draining'
    BY <2>1 DEF StillDraining
  <2>3. finished' = finished => ais = "JOIN"
    BY <1>2, <2>1 DEF RocInd, NothingAsked, Requested, State
  <2>4. State' = "JOIN"
    BY <1>2, <2>3 DEF State
  <2> QED BY <2>2, <2>4
<1> QED BY <1>1, <1>2 DEF RocInd

\* Between two rounds of the box there is no cancel, and no request meets the window.
LEMMA BetweenRounds ==
  ASSUME RocAnytime = FALSE, BoxType, RocInd, Outside
  PROVE  ~Has(mbox, "CANCEL") /\ (Has(mbox, "REMAIN") => finished \/ finished \notin BOOLEAN)
<1>1. DOMAIN mbox = 1..Len(mbox)
  BY LenProperties DEF BoxType
<1> QED BY <1>1 DEF Outside, Has, RocInd

\* What starts between two rounds and asks for nothing.
LEMMA RocOutside ==
  ASSUME RocAnytime = FALSE, BoxType, RocInd, Outside, NothingAsked, finished => finished'
  PROVE  RocInd'
<1>1. ~Has(mbox', "CANCEL")
  BY BetweenRounds DEF NothingAsked, Requested
<1>2. Has(mbox', "REMAIN") => finished'
  BY DEF RocInd, Outside, NothingAsked, Requested
<1> QED BY <1>1, <1>2 DEF RocInd

\* What an abort puts behind the box asks for nothing.
LEMMA NothingBehind ==
  ASSUME NEW b \in Seq(Messages), NEW t \in Seq(Messages), Aborts(t), mbox' = b \o t,
         \A n \in Requested : Has(b, n) => Has(mbox, n)
  PROVE  NothingAsked
<1>1. \A n \in Requested : Has(mbox', n) => Has(b, n) \/ Has(t, n)
  BY HasJoined
<1> QED BY <1>1, HasNone DEF NothingAsked, Requested

\* Neither does a state that is given up between two rounds.
LEMMA NothingGivenUp ==
  ASSUME TypeOK, NEW r, NEW delay, NEW p, NEW t, StateAbort(r, delay, p, mbox, t)
  PROVE  NothingAsked /\ (finished => finished')
<1>1. BoxType /\ finished \in BOOLEAN
  BY TypeParts DEF ChType
<1>2. PICK s \in Seq(Messages) : Aborts(s) /\ mbox' = mbox \o s
  BY <1>1, StateAbortEffect DEF BoxType
<1>3. NothingAsked
  BY <1>1, <1>2, NothingBehind DEF BoxType
<1> QED BY <1>3 DEF StateAbort

\* A pass of aisFsmSteps() asks for nothing.
LEMMA StepsKeepRoc ==
  ASSUME TypeOK, RocInd, Steps
  PROVE  RocInd'
<1>1. CASE EnterIdle
  <2>1. goto # "none" /\ KeepDraining /\ finished' = finished /\ NothingAsked
    BY <1>1 DEF EnterIdle, Enter, chVars, NothingAsked
  <2>2. goto # "JOIN"
    BY <1>1 DEF EnterIdle, Enter
  <2> QED BY <2>1, <2>2, RocStep
<1>2. CASE EnterSearch
  <2>1. goto # "none" /\ KeepDraining /\ finished' = finished /\ NothingAsked
    BY <1>2 DEF EnterSearch, Enter, chVars, NothingAsked
  <2>2. goto # "JOIN"
    BY <1>2 DEF EnterSearch, Enter
  <2> QED BY <2>1, <2>2, RocStep
<1>3. CASE EnterWait
  <2>1. goto # "none" /\ KeepDraining /\ finished' = finished /\ NothingAsked
    BY <1>3 DEF EnterWait, Enter, chVars, NothingAsked
  <2>2. goto # "JOIN"
    BY <1>3 DEF EnterWait, Enter
  <2> QED BY <2>1, <2>2, RocStep
<1>4. CASE EnterScan
  <2>1. goto # "none" /\ KeepDraining /\ finished' = finished
        /\ ais' = goto /\ goto' = "none"
    BY <1>4, TypeParts DEF EnterScan, Enter, Then, chVars, Scanning, PlaceType,
          States, Resting
  <2>2. /\ {"SCAN_REQ", "SCAN_DONE"} \in SUBSET Numbered
        /\ Msg("SCAN_REQ", 0) \in Messages /\ Msg("SCAN_REQ", 0).m = "SCAN_REQ"
    BY MessageTypes DEF Numbered, Ages, Msg
  <2>3. NothingAsked
    BY <1>4, <2>2, TypeParts, HasAged DEF EnterScan, NothingAsked, Requested
  <2> QED BY <2>1, <2>3, RocStep
<1>5. CASE EnterReqChannel
  <2>1. goto # "none" /\ KeepDraining /\ finished' = finished
        /\ ais' = goto /\ goto' = "none"
    BY <1>5, TypeParts DEF EnterReqChannel, Enter, Then, chVars, Scanning, PlaceType,
          States, Resting
  <2>2. /\ {"CH_REQ", "CH_ABORT", "CH_GRANT"} \in SUBSET Numbered
        /\ Msg("CH_REQ", 0) \in Messages /\ Msg("CH_REQ", 0).m = "CH_REQ"
    BY MessageTypes DEF Numbered, Ages, Msg
  <2>3. NothingAsked
    BY <1>5, <2>2, TypeParts, HasAged DEF EnterReqChannel, NothingAsked, Requested
  <2> QED BY <2>1, <2>3, RocStep
<1>6. CASE EnterJoin
  <2>1. goto # "none" /\ KeepDraining /\ finished' = finished
        /\ ais' = goto /\ goto' = "none"
    BY <1>6, TypeParts DEF EnterJoin, Enter, Then, chVars, Scanning, PlaceType,
          States, Resting
  <2>2. /\ {"JOIN_REQ"} \in SUBSET Numbered
        /\ Msg("JOIN_REQ", 0) \in Messages /\ Msg("JOIN_REQ", 0).m = "JOIN_REQ"
    BY MessageTypes DEF Numbered, Ages, Msg
  <2>3. NothingAsked
    BY <1>6, <2>2, TypeParts, HasAged DEF EnterJoin, NothingAsked, Requested
  <2> QED BY <2>1, <2>3, RocStep
<1>7. CASE EnterNormalTr
  <2>1. goto # "none" /\ KeepDraining /\ finished' = finished /\ NothingAsked
    BY <1>7 DEF EnterNormalTr, Enter, chVars, NothingAsked
  <2>2. goto # "JOIN"
    BY <1>7 DEF EnterNormalTr, Enter
  <2> QED BY <2>1, <2>2, RocStep
<1>8. CASE EnterDisconnecting
  <2>1. goto # "none" /\ KeepDraining /\ finished' = finished /\ NothingAsked
    BY <1>8 DEF EnterDisconnecting, Enter, chVars, NothingAsked
  <2>2. goto # "JOIN"
    BY <1>8 DEF EnterDisconnecting, Enter
  <2> QED BY <2>1, <2>2, RocStep
<1>9. CASE EnterRemain
  <2>1. goto # "none" /\ KeepDraining /\ finished' = finished /\ NothingAsked
    BY <1>9 DEF EnterRemain, Enter, chVars, NothingAsked
  <2>2. goto # "JOIN"
    BY <1>9 DEF EnterRemain, Enter
  <2> QED BY <2>1, <2>2, RocStep
<1> QED BY <1>1, <1>2, <1>3, <1>4, <1>5, <1>6, <1>7, <1>8, <1>9 DEF Steps

\* A handler asks for nothing, and the one of a cancel finds it alone.
LEMMA HandleKeepsRoc ==
  ASSUME TypeOK, RocInd, Handle
  PROVE  RocInd'
<1>1. CASE ScanDone
  <2>1. BoxType /\ mbox # <<>> /\ mbox \in Seq(Messages) /\ Tail(mbox) \in Seq(Messages)
    BY <1>1, TypeParts, HeadTailProperties DEF ScanDone, Recv, BoxType
  <2>2. \A n \in Requested : Has(Tail(mbox), n) => Has(mbox, n)
    BY <2>1, HasTail
  <2>3. /\ Recv({"SCAN_DONE"}) /\ StillDraining /\ NothingAsked
        /\ finished' = finished /\ ais' = ais /\ (ais = "JOIN" => goto' = "none")
    BY <1>1, <2>2 DEF ScanDone, NothingAsked, chVars, Then
  <2> QED BY <2>1, <2>3, RocHandler
<1>2. CASE Abort
  <2>1. BoxType /\ mbox # <<>> /\ mbox \in Seq(Messages) /\ Tail(mbox) \in Seq(Messages)
    BY <1>2, TypeParts, HeadTailProperties DEF Abort, Recv, BoxType
  <2>2. \A n \in Requested : Has(Tail(mbox), n) => Has(mbox, n)
    BY <2>1, HasTail
  <2>3. Recv({"ABORT"}) /\ StillDraining /\ ais' = ais
    BY <1>2 DEF Abort, AbortKeeps
  <2>4. \/ StateAbort(Head(mbox).reason, Head(mbox).delay, PutOnce(pend, "RECONNECT"),
                      Tail(mbox), timers)
        \/ /\ mbox' = Tail(mbox) /\ finished' = finished
           /\ goto' = "none" \/ ais = "NORMAL_TR"
    BY <1>2 DEF Abort, Then, chVars
  <2>5. NothingAsked
    <3>1. CASE mbox' = Tail(mbox)
      BY <2>2, <3>1 DEF NothingAsked
    <3>2. CASE \E s \in Seq(Messages) : Aborts(s) /\ mbox' = Tail(mbox) \o s
      BY <2>1, <2>2, <3>2, NothingBehind
    <3> QED BY <2>1, <2>4, <3>1, <3>2, StateAbortEffect
  <2>6. finished' \/ (finished' = finished /\ (ais = "JOIN" => goto' = "none"))
    <3>1. CASE StateAbort(Head(mbox).reason, Head(mbox).delay, PutOnce(pend, "RECONNECT"),
                           Tail(mbox), timers)
      BY <2>1, <3>1, StateAbortEffect
    <3> QED BY <2>4, <3>1
  <2> QED BY <2>1, <2>3, <2>5, <2>6, RocHandler
<1>3. CASE ChGrant
  <2>1. BoxType /\ mbox # <<>> /\ mbox \in Seq(Messages) /\ Tail(mbox) \in Seq(Messages)
    BY <1>3, TypeParts, HeadTailProperties DEF ChGrant, Recv, BoxType
  <2>2. \A n \in Requested : Has(Tail(mbox), n) => Has(mbox, n)
    BY <2>1, HasTail
  <2>3. ChAbort \in Seq(Messages) /\ Aborts(ChAbort)
    BY TypeParts, AbortPieces
  <2>4. /\ Recv({"CH_GRANT"}) /\ StillDraining /\ mbox' \in {Tail(mbox), Tail(mbox) \o ChAbort}
        /\ goto' = "JOIN" \/ (finished' = finished /\ (ais = "JOIN" => ais' = "JOIN" /\ goto' = "none"))
    BY <1>3, TypeParts DEF ChGrant, Then, ChType
  <2>5. NothingAsked
    <3>1. CASE mbox' = Tail(mbox)
      BY <2>2, <3>1 DEF NothingAsked
    <3>2. CASE mbox' = Tail(mbox) \o ChAbort
      BY <2>1, <2>2, <2>3, <3>2, NothingBehind
    <3> QED BY <2>4, <3>1, <3>2
  <2> QED BY <2>1, <2>4, <2>5, RocHandler
<1>4. CASE Remain
  <2>1. BoxType /\ mbox # <<>> /\ mbox \in Seq(Messages) /\ Tail(mbox) \in Seq(Messages)
    BY <1>4, TypeParts, HeadTailProperties DEF Remain, Recv, BoxType
  <2>2. \A n \in Requested : Has(Tail(mbox), n) => Has(mbox, n)
    BY <2>1, HasTail
  <2>3. /\ Recv({"REMAIN"}) /\ StillDraining /\ NothingAsked
        /\ finished' = finished /\ ais' = ais /\ (ais = "JOIN" => goto' = "none")
    BY <1>4, <2>2 DEF Remain, NothingAsked, chVars, Then
  <2> QED BY <2>1, <2>3, RocHandler
<1>5. CASE CancelRemain
  <2>1. mbox # <<>> /\ mbox \in Seq(Messages) /\ Has(mbox, "CANCEL")
    BY <1>5, TypeParts, RecvHas DEF CancelRemain, Recv, BoxType
  <2>2. Tail(mbox) \in Seq(Messages) /\ Len(Tail(mbox)) = 0
    BY <2>1, HeadTailProperties DEF RocInd
  <2>3. Tail(mbox) = <<>>
    BY <2>2, EmptySeq
  <2>4. ChAbort \in Seq(Messages) /\ Aborts(ChAbort)
    BY TypeParts, AbortPieces
  <2>5. mbox' \in {<<>>, ChAbort}
    <3>1. mbox' \in {Tail(mbox), Tail(mbox) \o ChAbort}
      BY <1>5 DEF CancelRemain
    <3>2. <<>> \o ChAbort = ChAbort
      BY <2>4, ConcatEmptySeq
    <3> QED BY <2>3, <3>1, <3>2
  <2> QED BY <2>4, <2>5, HasNone DEF RocInd
<1>6. CASE ScanStart
  <2>1. BoxType /\ mbox # <<>> /\ mbox \in Seq(Messages) /\ Tail(mbox) \in Seq(Messages)
    BY <1>6, TypeParts, HeadTailProperties DEF ScanStart, Recv, BoxType
  <2>2. \A n \in Requested : Has(Tail(mbox), n) => Has(mbox, n)
    BY <2>1, HasTail
  <2>3. /\ Recv({"SCAN_REQ"}) /\ StillDraining /\ NothingAsked
        /\ finished' = finished /\ ais' = ais /\ (ais = "JOIN" => goto' = "none")
    BY <1>6, <2>2 DEF ScanStart, NothingAsked, chVars, Then
  <2> QED BY <2>1, <2>3, RocHandler
<1>7. CASE ChPrivilege
  <2>1. BoxType /\ mbox # <<>> /\ mbox \in Seq(Messages) /\ Tail(mbox) \in Seq(Messages)
    BY <1>7, TypeParts, HeadTailProperties DEF ChPrivilege, Recv, BoxType
  <2>2. \A n \in Requested : Has(Tail(mbox), n) => Has(mbox, n)
    BY <2>1, HasTail
  <2>3. /\ Recv({"CH_REQ", "CH_ABORT"}) /\ StillDraining /\ NothingAsked
        /\ finished' = finished /\ ais' = ais /\ (ais = "JOIN" => goto' = "none")
    BY <1>7, <2>2 DEF ChPrivilege, NothingAsked, chVars, Then
  <2> QED BY <2>1, <2>3, RocHandler
<1>8. CASE SaaStart
  <2>1. BoxType /\ mbox # <<>> /\ mbox \in Seq(Messages) /\ Tail(mbox) \in Seq(Messages)
    BY <1>8, TypeParts, HeadTailProperties DEF SaaStart, Recv, BoxType
  <2>2. \A n \in Requested : Has(Tail(mbox), n) => Has(mbox, n)
    BY <2>1, HasTail
  <2>3. /\ Recv({"JOIN_REQ"}) /\ StillDraining /\ NothingAsked
        /\ finished' = finished /\ ais' = ais /\ (ais = "JOIN" => goto' = "none")
    BY <1>8, <2>2 DEF SaaStart, NothingAsked, chVars, Then
  <2> QED BY <2>1, <2>3, RocHandler
<1>9. CASE SaaAbort
  <2>1. BoxType /\ mbox # <<>> /\ mbox \in Seq(Messages) /\ Tail(mbox) \in Seq(Messages)
    BY <1>9, TypeParts, HeadTailProperties DEF SaaAbort, Recv, BoxType
  <2>2. \A n \in Requested : Has(Tail(mbox), n) => Has(mbox, n)
    BY <2>1, HasTail
  <2>3. /\ Recv({"SAA_ABORT"}) /\ StillDraining /\ NothingAsked
        /\ finished' = finished /\ ais' = ais /\ (ais = "JOIN" => goto' = "none")
    BY <1>9, <2>2 DEF SaaAbort, NothingAsked, chVars, Then
  <2> QED BY <2>1, <2>3, RocHandler
<1> QED BY <1>1, <1>2, <1>3, <1>4, <1>5, <1>6, <1>7, <1>8, <1>9 DEF Handle

\* The request to connect is an abort with a reason.
LEMMA ConnectSends ==
  ASSUME Connect
  PROVE  \E x \in Messages : x.m = "ABORT" /\ mbox' = Append(mbox, x)
<1>1. PICK sameSsid \in BOOLEAN, sameBssid \in BOOLEAN :
        Send(AbortMsg(IF (host = "connected" /\ sameSsid) /\ sameBssid THEN "REASSOC"
                      ELSE IF host = "connected" /\ sameSsid THEN "ROAMING" ELSE "NEW",
                      sameSsid \/ sameBssid))
  BY DEF Connect
<1>2. (sameSsid \/ sameBssid) \in BOOLEAN
  OBVIOUS
<1>3. \E r \in Reasons, d \in BOOLEAN : mbox' = Append(mbox, AbortMsg(r, d))
  BY <1>1, <1>2 DEF Send, Reasons
<1>4. \A r, d : AbortMsg(r, d).m = "ABORT"
  BY DEF AbortMsg
<1> QED BY <1>3, <1>4, MessageTypes

\* The user asks for it when no join is under way, and cancels it while it is on.
LEMMA UserKeepsRoc ==
  ASSUME RocAnytime = FALSE, TypeOK, RocInd, User
  PROVE  RocInd'
<1>1. CASE OsScan
  <2>1. Outside /\ finished' = finished /\ mbox' = mbox
    BY <1>1 DEF OsScan, Event, chVars
  <2> QED BY <2>1, TypeParts, RocOutside DEF NothingAsked
<1>2. CASE Connect
  <2>1. /\ Outside /\ finished' = finished
        /\ \E x \in Messages : x.m = "ABORT" /\ mbox' = Append(mbox, x)
    BY <1>2, ConnectSends DEF Connect, Event, AbortMsg, chVars
  <2>2. NothingAsked
    BY <2>1, TypeParts, HasAppend DEF NothingAsked, Requested, BoxType
  <2> QED BY <2>1, <2>2, TypeParts, RocOutside
<1>3. CASE UserDisconnect
  <2>1. /\ Outside /\ finished' = finished
        /\ \E x \in Messages : x.m = "ABORT" /\ mbox' = Append(mbox, x)
    BY <1>3, MessageTypes DEF UserDisconnect, Event, Send, AbortMsg, Reasons, chVars
  <2>2. NothingAsked
    BY <2>1, TypeParts, HasAppend DEF NothingAsked, Requested, BoxType
  <2> QED BY <2>1, <2>2, TypeParts, RocOutside
<1>4. CASE Deauth
  <2>1. /\ Outside /\ finished' = finished
        /\ \E x \in Messages : x.m = "ABORT" /\ mbox' = Append(mbox, x)
    BY <1>4, MessageTypes DEF Deauth, Event, Send, AbortMsg, Reasons, chVars
  <2>2. NothingAsked
    BY <2>1, TypeParts, HasAppend DEF NothingAsked, Requested, BoxType
  <2> QED BY <2>1, <2>2, TypeParts, RocOutside
<1>5. CASE BeaconTimeout
  <2>1. Outside /\ \E r, d : StateAbort(r, d, pend, mbox, timers)
    BY <1>5 DEF BeaconTimeout, LinkLost, Event
  <2> QED BY <2>1, TypeParts, NothingGivenUp, RocOutside
<1>6. CASE SecurityChanged
  <2>1. Outside /\ \E r, d : StateAbort(r, d, pend, mbox, timers)
    BY <1>6 DEF SecurityChanged, LinkLost, Event
  <2> QED BY <2>1, TypeParts, NothingGivenUp, RocOutside
<1>7. CASE BssInfoDiffers
  <2>1. Outside /\ \E r, d : StateAbort(r, d, pend, mbox, timers)
    BY <1>7 DEF BssInfoDiffers, LinkLost, Event
  <2> QED BY <2>1, TypeParts, NothingGivenUp, RocOutside
<1>8. CASE RoamingDiscovery
  <2>1. Outside /\ finished' = finished /\ mbox' = mbox
    BY <1>8 DEF RoamingDiscovery, Event, chVars
  <2> QED BY <2>1, TypeParts, RocOutside DEF NothingAsked
<1>9. CASE RemainOnChannel
  <2>1. Outside /\ finished /\ finished' = finished /\ mbox' = Append(mbox, [m |-> "REMAIN"])
    BY <1>9 DEF RemainOnChannel, RocMsg, Event, Send, chVars
  <2>2. Has(mbox', "CANCEL") => Has(mbox, "CANCEL")
    BY <2>1, TypeParts, MessageTypes, HasAppend DEF BoxType
  <2>3. ~Has(mbox', "CANCEL")
    BY <2>1, <2>2, TypeParts, BetweenRounds
  <2> QED BY <2>1, <2>3 DEF RocInd
<1>10. CASE CancelRemainOnChannel
  <2>1. /\ goto' = "none" /\ ais' \in {"REQ_REMAIN", "REMAIN"}
        /\ mbox = <<>> /\ mbox' = Append(mbox, [m |-> "CANCEL"])
    BY <1>10 DEF CancelRemainOnChannel, RocMsg, Event, Outside, Send
  <2>2. Len(mbox') = 1
    BY <2>1, MessageTypes, AppendProperties, EmptySeq
  <2>3. ~Has(mbox', "REMAIN")
    BY <2>1, TypeParts, MessageTypes, HasAppend, HasNone DEF BoxType
  <2> QED BY <2>1, <2>2, <2>3 DEF RocInd
<1> QED BY <1>1, <1>2, <1>3, <1>4, <1>5, <1>6, <1>7, <1>8, <1>9, <1>10 DEF User

\* The answers of the services come between two rounds of the box,
LEMMA AnswersKeepRoc ==
  ASSUME RocAnytime = FALSE, TypeOK, RocInd, Answers
  PROVE  RocInd'
<1>1. CASE ScanEnds
  <2>1. /\ Outside /\ finished' = finished
        /\ \E x \in Messages : x.m = "SCAN_DONE" /\ mbox' = Append(mbox, x)
    BY <1>1, TypeParts, MessageTypes DEF ScanEnds, Send, Msg, ScanType, FwType, Ages,
          Numbered, chVars
  <2>2. NothingAsked
    BY <2>1, TypeParts, HasAppend DEF NothingAsked, Requested, BoxType
  <2> QED BY <2>1, <2>2, TypeParts, RocOutside
<1>2. CASE FwGrants
  BY <1>2 DEF FwGrants, RocInd, State, Has, chVars
<1>3. CASE ChEvent
  <2>1. /\ Outside /\ finished' = finished
        /\ \E x \in Messages : x.m = "CH_GRANT" /\ mbox' = Append(mbox, x)
    BY <1>3, TypeParts, MessageTypes DEF ChEvent, Send, Msg, ScanType, FwType, Ages,
          Numbered, chVars
  <2>2. NothingAsked
    BY <2>1, TypeParts, HasAppend DEF NothingAsked, Requested, BoxType
  <2> QED BY <2>1, <2>2, TypeParts, RocOutside
<1>4. CASE JoinSucceeds
  <2>1. Outside /\ finished' = finished /\ mbox' = mbox
    BY <1>4 DEF JoinSucceeds, JoinEnds, chVars
  <2> QED BY <2>1, TypeParts, RocOutside DEF NothingAsked
<1>5. CASE JoinRetries
  <2>1. /\ {"JOIN_REQ"} \in SUBSET Numbered
        /\ Msg("JOIN_REQ", 0) \in Messages /\ Msg("JOIN_REQ", 0).m = "JOIN_REQ"
    BY MessageTypes DEF Numbered, Ages, Msg
  <2>2. Outside /\ finished' = finished /\ mbox' = Append(AgedBox({"JOIN_REQ"}), Msg("JOIN_REQ", 0))
    BY <1>5 DEF JoinRetries, JoinEnds, chVars
  <2>3. NothingAsked
    BY <2>1, <2>2, TypeParts, HasAged DEF NothingAsked, Requested
  <2> QED BY <2>2, <2>3, TypeParts, RocOutside
<1>6. CASE JoinFails
  <2>1. Outside /\ finished' = TRUE /\ mbox' = mbox \o ChAbort
    BY <1>6 DEF JoinFails, JoinEnds
  <2>2. NothingAsked
    BY <2>1, TypeParts, AbortPieces, NothingBehind DEF BoxType
  <2> QED BY <2>1, <2>2, TypeParts, RocOutside
<1>7. CASE JoinIgnored
  <2>1. Outside /\ finished' = finished /\ mbox' = mbox
    BY <1>7 DEF JoinIgnored, chVars
  <2> QED BY <2>1, TypeParts, RocOutside DEF NothingAsked
<1>8. CASE DeauthTxDone
  <2>1. Outside
    BY <1>8 DEF DeauthTxDone
  <2>2. CASE \E t : StateAbort("NEW", FALSE, pend, mbox, t)
    BY <2>1, <2>2, TypeParts, NothingGivenUp, RocOutside
  <2>3. CASE UNCHANGED <<chVars, mbox>>
    BY <2>1, <2>3, TypeParts, RocOutside DEF chVars, NothingAsked
  <2> QED BY <1>8, <2>2, <2>3 DEF DeauthTxDone, Deauthenticated
<1> QED BY <1>1, <1>2, <1>3, <1>4, <1>5, <1>6, <1>7, <1>8 DEF Answers

\* and so do the timers.
LEMMA TimersKeepRoc ==
  ASSUME RocAnytime = FALSE, TypeOK, RocInd, TimersFire
  PROVE  RocInd'
<1>1. CASE ScanDoneTimeOut
  <2>1. Outside /\ (finished => finished') /\ mbox' \in {ScanCancelled}
    BY <1>1 DEF ScanDoneTimeOut, Fires, chVars
  <2>2. NothingAsked
    BY <2>1, TypeParts, AbortPieces, HasNone DEF NothingAsked, Requested
  <2> QED BY <2>1, <2>2, TypeParts, RocOutside
<1>2. CASE BgSleepTimeOut
  <2>1. Outside /\ finished' = finished /\ mbox' = mbox
    BY <1>2 DEF BgSleepTimeOut, Fires, chVars
  <2> QED BY <2>1, TypeParts, RocOutside DEF NothingAsked
<1>3. CASE JoinTimeout
  <2>1. Outside /\ (finished => finished') /\ mbox' \in {JoinAbort, ChAbort}
    BY <1>3 DEF JoinTimeout, Fires, chVars
  <2>2. NothingAsked
    BY <2>1, TypeParts, AbortPieces, HasNone DEF NothingAsked, Requested
  <2> QED BY <2>1, <2>2, TypeParts, RocOutside
<1>4. CASE DeauthTimeout
  <2>1. Outside
    BY <1>4 DEF DeauthTimeout, Fires
  <2>2. CASE \E t : StateAbort("NEW", FALSE, pend, mbox, t)
    BY <2>1, <2>2, TypeParts, NothingGivenUp, RocOutside
  <2>3. CASE UNCHANGED <<chVars, mbox>>
    BY <2>1, <2>3, TypeParts, RocOutside DEF chVars, NothingAsked
  <2> QED BY <1>4, <2>2, <2>3 DEF DeauthTimeout, Deauthenticated
<1>5. CASE ChannelTimeout
  <2>1. Outside /\ (finished => finished') /\ mbox' \in {ChAbort, mbox}
    BY <1>5 DEF ChannelTimeout, Fires, chVars
  <2>2. NothingAsked
    BY <2>1, TypeParts, AbortPieces, HasNone DEF NothingAsked, Requested
  <2> QED BY <2>1, <2>2, TypeParts, RocOutside
<1>6. CASE PostponedDisconn
  <2>1. Outside /\ finished' = finished /\ mbox' = mbox
    BY <1>6 DEF PostponedDisconn, Fires, chVars
  <2> QED BY <2>1, TypeParts, RocOutside DEF NothingAsked
<1>7. CASE JoinReqGetsOld
  BY <1>7 DEF JoinReqGetsOld, RocInd, State, Has, chVars
<1> QED BY <1>1, <1>2, <1>3, <1>4, <1>5, <1>6, <1>7 DEF TimersFire

-----------------------------------------------------------------------------
(* The order of the box is kept. *)

OrderInd == AsksInd /\ JoinsInd

\* Counting on more is no harm.
LEMMA AsksWeaken ==
  ASSUME NEW b, NEW asked, NEW counts, NEW now, AsksEnd(b, asked, counts), counts => now
  PROVE  AsksEnd(b, asked, now)
BY DEF AsksEnd

\* Nor is joining.
LEMMA JoinsWeaken ==
  ASSUME NEW b, NEW joining, NEW now, NEW at, JoinsEnd(b, joining, at), joining => now
  PROVE  JoinsEnd(b, now, at)
BY DEF JoinsEnd

\* What the invariant says of the next state.
LEMMA OrderNext ==
  ASSUME AsksEnd(mbox', chAsked' \cup chHeld', Counts'),
         JoinsEnd(mbox', State' = "JOIN", saa')
  PROVE  OrderInd'
BY DEF OrderInd, AsksInd, JoinsInd, AsksEnd, JoinsEnd

\* A box in order, and messages behind it that ask for nothing: what AIS no
\* longer counts on, and the join it leaves, they take back.
LEMMA OrderBehind ==
  ASSUME NEW b \in Seq(Messages), NEW t \in Seq(Messages), Tame(t), mbox' = b \o t,
         AsksEnd(b, chAsked' \cup chHeld', Counts), JoinsEnd(b, State = "JOIN", saa'),
         (Counts => Counts') \/ GivesChannel(t),
         (State = "JOIN" => State' = "JOIN") \/ StopsJoin(t)
  PROVE  OrderInd'
<1> DEFINE A == chAsked' \cup chHeld'
           J == State = "JOIN"
           K == State' = "JOIN"
           c == Counts
           d == Counts'
<1>1. c \in BOOLEAN /\ J \in BOOLEAN
  BY DEF Counts
<1>2. /\ AsksEnd(b, A, c) /\ JoinsEnd(b, J, saa')
      /\ (c => d) \/ (c => \E k \in 1..Len(t) : t[k] = Msg("CH_ABORT", 0))
      /\ (J => K) \/ \E k \in 1..Len(t) : t[k].m = "SAA_ABORT"
  BY DEF GivesChannel, StopsJoin
<1>3. AsksEnd(mbox', A, d) /\ JoinsEnd(mbox', K, saa') => OrderInd'
  BY OrderNext
<1> HIDE DEF A, J, K, c, d
<1>4. AsksEnd(b \o t, A, d)
  <2>1. CASE c => d
    <3>1. AsksEnd(b \o t, A, c)
      BY <1>1, <1>2, AsksGrow
    <3> QED BY <2>1, <3>1, AsksWeaken
  <2>2. CASE c => \E k \in 1..Len(t) : t[k] = Msg("CH_ABORT", 0)
    <3>1. AsksEnd(b \o t, A, FALSE)
      BY <1>1, <1>2, <2>2, AsksTakenBack
    <3> QED BY <3>1, AsksWeaken
  <2> QED BY <1>2, <2>1, <2>2
<1>5. JoinsEnd(b \o t, K, saa')
  <2>1. CASE J => K
    <3>1. JoinsEnd(b \o t, J, saa')
      BY <1>1, <1>2, JoinsGrow
    <3> QED BY <2>1, <3>1, JoinsWeaken
  <2>2. CASE \E k \in 1..Len(t) : t[k].m = "SAA_ABORT"
    <3>1. JoinsEnd(b \o t, FALSE, saa')
      BY <1>2, <2>2, JoinsStopped
    <3> QED BY <3>1, JoinsWeaken
  <2> QED BY <1>2, <2>1, <2>2
<1> QED BY <1>3, <1>4, <1>5

Calm == (Counts => Counts') /\ (State = "JOIN" => State' = "JOIN")
FwSame == chAsked' \cup chHeld' = chAsked \cup chHeld /\ saa' = saa

\* Messages behind the whole box,
LEMMA OrderGrows ==
  ASSUME BoxType, OrderInd, FwSame,
         NEW t \in Seq(Messages), Tame(t), mbox' = mbox \o t,
         (Counts => Counts') \/ GivesChannel(t),
         (State = "JOIN" => State' = "JOIN") \/ StopsJoin(t)
  PROVE  OrderInd'
<1>1. AsksEnd(mbox, chAsked' \cup chHeld', Counts) /\ JoinsEnd(mbox, State = "JOIN", saa')
  BY DEF OrderInd, AsksInd, JoinsInd, FwSame
<1> QED BY <1>1, OrderBehind DEF BoxType

\* one at its end,
LEMMA OrderSends ==
  ASSUME BoxType, OrderInd, FwSame, Calm,
         NEW x \in Messages, x.m \notin {"CH_REQ", "JOIN_REQ"}, mbox' = Append(mbox, x)
  PROVE  OrderInd'
<1> DEFINE t == <<x>>
<1>1. t \in Seq(Messages) /\ Len(t) = 1 /\ t[1] = x
  OBVIOUS
<1>2. mbox' = mbox \o t
  BY AppendIsConcat DEF BoxType
<1> HIDE DEF t
<1>3. Tame(t)
  BY <1>1 DEF Tame
<1> QED BY <1>1, <1>2, <1>3, OrderGrows DEF Calm

\* and none.
LEMMA OrderStays ==
  ASSUME BoxType, OrderInd, FwSame, Calm, mbox' = mbox
  PROVE  OrderInd'
<1>1. AsksEnd(mbox', chAsked' \cup chHeld', Counts) /\ JoinsEnd(mbox', State = "JOIN", saa')
  BY DEF OrderInd, AsksInd, JoinsInd, FwSame
<1>2. (Counts => Counts') /\ (State = "JOIN" => State' = "JOIN")
  BY DEF Calm
<1> DEFINE J == State = "JOIN"
           K == State' = "JOIN"
           A == chAsked' \cup chHeld'
           b == mbox'
           c == Counts
           d == Counts'
           s == saa'
<1>3. AsksEnd(b, A, d) /\ JoinsEnd(b, K, s) => OrderInd'
  BY OrderNext
<1>4. AsksEnd(b, A, c) /\ JoinsEnd(b, J, s) /\ (c => d) /\ (J => K)
  BY <1>1, <1>2
<1> HIDE DEF J, K, A, b, c, d, s
<1>5. AsksEnd(b, A, d)
  BY <1>4, AsksWeaken
<1>6. JoinsEnd(b, K, s)
  BY <1>4, JoinsWeaken
<1> QED BY <1>3, <1>5, <1>6

\* The message of a handler leaves the box in order, if it is none of the
\* services'.
LEMMA OrderTail ==
  ASSUME BoxType, OrderInd, NEW names, Recv(names),
         names \cap {"CH_REQ", "CH_ABORT", "JOIN_REQ", "SAA_ABORT"} = {}, FwSame
  PROVE  /\ Tail(mbox) \in Seq(Messages)
         /\ AsksEnd(Tail(mbox), chAsked' \cup chHeld', Counts)
         /\ JoinsEnd(Tail(mbox), State = "JOIN", saa')
<1> DEFINE A == chAsked \cup chHeld
           J == State = "JOIN"
           c == Counts
           b == mbox
<1>1. b # <<>> /\ b \in Seq(Messages) /\ Head(b).m \notin {"CH_REQ", "CH_ABORT", "JOIN_REQ", "SAA_ABORT"}
  BY DEF Recv, BoxType
<1>2. c \in BOOLEAN /\ J \in BOOLEAN /\ AsksEnd(b, A, c) /\ JoinsEnd(b, J, saa)
  BY DEF OrderInd, AsksInd, JoinsInd, Counts
<1>3. FwSame => chAsked' \cup chHeld' = A /\ saa' = saa
  BY DEF FwSame
<1> HIDE DEF A, J, c
<1>4. Tail(b) \in Seq(Messages)
  BY <1>1, HeadTailProperties
<1>5. AsksEnd(Tail(b), A, c)
  BY <1>1, <1>2, AsksShrink
<1>6. JoinsEnd(Tail(b), J, saa)
  BY <1>1, <1>2, JoinsShrink
<1> QED BY <1>3, <1>4, <1>5, <1>6 DEF A, J, c

\* What a handler puts behind it.
LEMMA OrderHandler ==
  ASSUME BoxType, OrderInd, NEW names, Recv(names),
         names \cap {"CH_REQ", "CH_ABORT", "JOIN_REQ", "SAA_ABORT"} = {}, FwSame,
         NEW t \in Seq(Messages), Aborts(t), mbox' = Tail(mbox) \o t,
         (Counts => Counts') \/ GivesChannel(t),
         (State = "JOIN" => State' = "JOIN") \/ StopsJoin(t)
  PROVE  OrderInd'
<1>1. Tame(t)
  BY DEF Aborts, Tame
<1> QED BY <1>1, OrderTail, OrderBehind

\* A handler that puts nothing.
LEMMA OrderTakes ==
  ASSUME BoxType, OrderInd, NEW names, Recv(names),
         names \cap {"CH_REQ", "CH_ABORT", "JOIN_REQ", "SAA_ABORT"} = {}, FwSame,
         Calm, mbox' = Tail(mbox)
  PROVE  OrderInd'
<1>1. Tail(mbox) \in Seq(Messages)
  BY OrderTail
<1>2. mbox' = Tail(mbox) \o <<>>
  BY <1>1, ConcatEmptySeq
<1>3. <<>> \in Seq(Messages) /\ Aborts(<<>>)
  BY EmptySeq DEF Aborts
<1> QED BY <1>2, <1>3, OrderHandler DEF Calm

\* A state that is given up between two handlers.
LEMMA OrderGivenUp ==
  ASSUME TypeOK, OrderInd, FwSame, goto = "none", NEW r, NEW delay, NEW p, NEW t,
         StateAbort(r, delay, p, mbox, t)
  PROVE  OrderInd'
<1>1. BoxType
  BY TypeParts
<1>2. PICK s \in Seq(Messages) :
        /\ Aborts(s) /\ mbox' = mbox \o s
        /\ ais = "JOIN" => StopsJoin(s)
        /\ UNCHANGED <<chReq, chGrant>> \/ (~Counts' /\ GivesChannel(s))
  BY <1>1, StateAbortEffect DEF BoxType
<1>3. Tame(s)
  BY <1>2 DEF Aborts, Tame
<1>4. (Counts => Counts') \/ GivesChannel(s)
  BY <1>2 DEF Counts
<1>5. (State = "JOIN" => State' = "JOIN") \/ StopsJoin(s)
  BY <1>2 DEF State
<1> QED BY <1>1, <1>2, <1>3, <1>4, <1>5, OrderGrows

\* A pass of aisFsmSteps() asks for a channel only when AIS counts on none.
LEMMA StepsKeepOrder ==
  ASSUME TypeOK, RocInd, ControlInd, OrderInd, Steps
  PROVE  OrderInd'
<1>1. CASE EnterIdle
  <2>1. FwSame /\ Calm /\ mbox' = mbox
    BY <1>1, TypeParts DEF EnterIdle, Enter, Requests, FwSame, Calm, State, Counts,
          Then, linkVars, chVars, fwVars
  <2> QED BY <2>1, TypeParts, OrderStays
<1>2. CASE EnterSearch
  <2>1. FwSame /\ Calm /\ mbox' = mbox
    BY <1>2, TypeParts DEF EnterSearch, Enter, Join, NoBss, FwSame, Calm, State,
          Counts, Then, linkVars, chVars, fwVars
  <2> QED BY <2>1, TypeParts, OrderStays
<1>3. CASE EnterWait
  <2>1. FwSame /\ Calm /\ mbox' = mbox
    BY <1>3, TypeParts DEF EnterWait, Enter, FwSame, Calm, State, Counts, Then,
          linkVars, chVars, fwVars
  <2> QED BY <2>1, TypeParts, OrderStays
<1>4. CASE EnterScan
  <2> DEFINE names == {"SCAN_REQ", "SCAN_DONE"}
             x == Msg("SCAN_REQ", 0)
             A == chAsked \cup chHeld
  <2>1. /\ names \in SUBSET Numbered /\ x \in Messages /\ x.m = "SCAN_REQ"
        /\ names \cap {"CH_REQ", "CH_ABORT", "JOIN_REQ"} = {}
    BY MessageTypes DEF Numbered, Ages, Msg
  <2>2. /\ mbox' = Append(AgedBox(names), x) /\ chAsked' \cup chHeld' = A /\ saa' = saa
        /\ Counts' = Counts /\ State # "JOIN" /\ State' # "JOIN"
    BY <1>4 DEF EnterScan, Enter, Then, State, Scanning, Counts, chVars, fwVars
  <2>3. Counts \in BOOLEAN /\ AsksEnd(mbox, A, Counts) /\ JoinsEnd(mbox, FALSE, saa)
    BY <2>2 DEF OrderInd, AsksInd, JoinsInd, Counts
  <2> HIDE DEF names, x, A
  <2>4. AsksEnd(mbox', A, Counts)
    BY <2>1, <2>2, <2>3, TypeParts, AsksBeside
  <2>5. JoinsEnd(mbox', FALSE, saa)
    BY <2>1, <2>2, <2>3, TypeParts, JoinsBeside
  <2> QED BY <2>2, <2>4, <2>5, OrderNext
<1>5. CASE EnterReqChannel
  <2> DEFINE names == {"CH_REQ", "CH_ABORT", "CH_GRANT"}
             x == Msg("CH_REQ", 0)
             A == chAsked \cup chHeld
  <2>1. /\ names \in SUBSET Numbered /\ x \in Messages /\ x.m = "CH_REQ" /\ "JOIN_REQ" \notin names
    BY MessageTypes DEF Numbered, Ages, Msg
  <2>2. /\ mbox' = Append(AgedBox(names), x) /\ saa' = saa
        /\ Counts' /\ goto # "none" /\ State \in {"REQ_CHANNEL_JOIN", "REQ_REMAIN"} /\ State' # "JOIN"
    BY <1>5 DEF EnterReqChannel, Enter, Then, State, Counts
  <2>3. chAsked' \cup chHeld' = Aged(A)
    BY <1>5 DEF EnterReqChannel, Aged
  <2>4. ~Counts
    BY <2>2 DEF ControlInd, WindowCloses
  <2>5. A \subseteq Ages
    BY TypeParts DEF FwType
  <2>6. AsksEnd(mbox, A, Counts) /\ JoinsEnd(mbox, State = "JOIN", saa)
    BY DEF OrderInd, AsksInd, JoinsInd
  <2>7. AsksEnd(mbox, A, FALSE)
    BY <2>4, <2>6 DEF AsksEnd
  <2>8. JoinsEnd(mbox, FALSE, saa)
    BY <2>2, <2>6
  <2>9. AsksEnd(mbox', Aged(A), TRUE)
    BY <2>2, <2>5, <2>7, TypeParts, AsksAnew
  <2> HIDE DEF names, x, A
  <2>10. JoinsEnd(mbox', FALSE, saa)
    BY <2>1, <2>2, <2>8, TypeParts, JoinsBeside
  <2> QED BY <2>2, <2>3, <2>9, <2>10, OrderNext
<1>6. CASE EnterJoin
  <2> DEFINE names == {"JOIN_REQ"}
             x == Msg("JOIN_REQ", 0)
             A == chAsked \cup chHeld
  <2>1. /\ names \in SUBSET Numbered /\ x \in Messages /\ x.m = "JOIN_REQ"
        /\ "CH_REQ" \notin names /\ "CH_ABORT" \notin names
    BY MessageTypes DEF Numbered, Ages, Msg
  <2>2. /\ mbox' = Append(AgedBox(names), x) /\ chAsked' \cup chHeld' = A /\ saa' # 0
        /\ Counts' = Counts /\ State' = "JOIN"
    BY <1>6 DEF EnterJoin, Enter, Then, State, Counts, chVars, fwVars
  <2>3. Counts \in BOOLEAN /\ AsksEnd(mbox, A, Counts) /\ JoinsEnd(mbox, State = "JOIN", saa)
    BY DEF OrderInd, AsksInd, JoinsInd, Counts
  <2>4. JoinsEnd(mbox', TRUE, saa')
    BY <2>2, <2>3, TypeParts, JoinsAnew
  <2> HIDE DEF names, x, A
  <2>5. AsksEnd(mbox', A, Counts)
    BY <2>1, <2>2, <2>3, TypeParts, AsksBeside
  <2> QED BY <2>2, <2>4, <2>5, OrderNext
<1>7. CASE EnterNormalTr
  <2>1. State = "NORMAL_TR" /\ UNCHANGED <<chVars, mbox, fwVars, saa>>
    BY <1>7 DEF EnterNormalTr, Enter, State
  <2>2. FwSame /\ Calm /\ mbox' = mbox
    BY <2>1 DEF FwSame, Calm, Counts, chVars, fwVars
  <2> QED BY <2>2, TypeParts, OrderStays
<1>8. CASE EnterDisconnecting
  <2>1. FwSame /\ Calm /\ mbox' = mbox
    BY <1>8, TypeParts DEF EnterDisconnecting, Enter, FwSame, Calm, State, Counts,
          Then, linkVars, chVars, fwVars
  <2> QED BY <2>1, TypeParts, OrderStays
<1>9. CASE EnterRemain
  <2>1. FwSame /\ Calm /\ mbox' = mbox
    BY <1>9, TypeParts DEF EnterRemain, Enter, FwSame, Calm, State, Counts, Then,
          linkVars, chVars, fwVars
  <2> QED BY <2>1, TypeParts, OrderStays
<1> QED BY <1>1, <1>2, <1>3, <1>4, <1>5, <1>6, <1>7, <1>8, <1>9 DEF Steps

\* A handler takes the first message, and takes back what it gives up.
LEMMA HandleKeepsOrder ==
  ASSUME TypeOK, RocInd, ControlInd, OrderInd, Handle
  PROVE  OrderInd'
<1>1. CASE ScanDone
  <2>1. Recv({"SCAN_DONE"}) /\ FwSame /\ Calm /\ mbox' = Tail(mbox)
    BY <1>1, TypeParts DEF ScanDone, Recv, FwSame, Calm, State, Counts, Then,
          linkVars, chVars, fwVars
  <2> QED BY <2>1, TypeParts, OrderTakes
<1>2. CASE Abort
  <2>1. Recv({"ABORT"}) /\ goto = "none" /\ FwSame /\ ais' = ais
    BY <1>2 DEF Abort, AbortKeeps, Recv, FwSame
  <2>2. \/ StateAbort(Head(mbox).reason, Head(mbox).delay, PutOnce(pend, "RECONNECT"),
                      Tail(mbox), timers)
        \/ /\ mbox' = Tail(mbox) /\ UNCHANGED chVars
           /\ goto' = "none" \/ ais = "NORMAL_TR"
    BY <1>2 DEF Abort, Then
  <2>3. CASE StateAbort(Head(mbox).reason, Head(mbox).delay, PutOnce(pend, "RECONNECT"),
                           Tail(mbox), timers)
    <3>1. Tail(mbox) \in Seq(Messages)
      BY <2>1, TypeParts, OrderTail
    <3>2. PICK s \in Seq(Messages) :
            /\ Aborts(s) /\ mbox' = Tail(mbox) \o s
            /\ ais = "JOIN" => StopsJoin(s)
            /\ UNCHANGED <<chReq, chGrant>> \/ (~Counts' /\ GivesChannel(s))
      BY <2>3, <3>1, StateAbortEffect
    <3>3. (Counts => Counts') \/ GivesChannel(s)
      BY <3>2 DEF Counts
    <3>4. (State = "JOIN" => State' = "JOIN") \/ StopsJoin(s)
      BY <2>1, <3>2 DEF State
    <3> QED BY <2>1, <3>2, <3>3, <3>4, TypeParts, OrderHandler
  <2>4. CASE /\ mbox' = Tail(mbox) /\ UNCHANGED chVars
             /\ goto' = "none" \/ ais = "NORMAL_TR"
    <3>1. Calm
      BY <2>1, <2>4 DEF Calm, State, Counts, chVars
    <3> QED BY <2>1, <2>4, <3>1, TypeParts, OrderTakes
  <2> QED BY <2>2, <2>3, <2>4
<1>3. CASE ChGrant
  <2>1. Recv({"CH_GRANT"}) /\ goto = "none" /\ FwSame /\ ais' = ais
    BY <1>3 DEF ChGrant, Recv, FwSame, fwVars
  <2>2. ChAbort \in Seq(Messages) /\ Aborts(ChAbort) /\ GivesChannel(ChAbort)
    BY TypeParts, AbortPieces
  <2>3. State = "JOIN" => State' = "JOIN"
    BY <1>3, <2>1 DEF ChGrant, Then, State
  <2>4. \/ Counts' /\ mbox' = Tail(mbox)
        \/ mbox' = Tail(mbox) \o ChAbort
    BY <1>3 DEF ChGrant, Counts
  <2> QED BY <2>1, <2>2, <2>3, <2>4, TypeParts, OrderTakes, OrderHandler DEF Calm
<1>4. CASE Remain
  <2>1. Recv({"REMAIN"}) /\ FwSame /\ Calm /\ mbox' = Tail(mbox)
    BY <1>4, TypeParts DEF Remain, Recv, FwSame, Calm, State, Counts, Then, linkVars,
          chVars, fwVars
  <2> QED BY <2>1, TypeParts, OrderTakes
<1>5. CASE CancelRemain
  <2>1. Recv({"CANCEL"}) /\ goto = "none" /\ FwSame
    BY <1>5 DEF CancelRemain, Recv, FwSame, fwVars
  <2>2. ais \in {"REQ_REMAIN", "REMAIN"}
    BY <1>5, TypeParts, RecvHas DEF CancelRemain, RocInd
  <2>3. ChAbort \in Seq(Messages) /\ Aborts(ChAbort) /\ GivesChannel(ChAbort)
    BY TypeParts, AbortPieces
  <2>4. State # "JOIN" /\ mbox' = Tail(mbox) \o ChAbort
    BY <1>5, <2>1, <2>2 DEF CancelRemain, State
  <2> QED BY <2>1, <2>3, <2>4, TypeParts, OrderHandler
<1>6. CASE ScanStart
  <2>1. Recv({"SCAN_REQ"}) /\ FwSame /\ Calm /\ mbox' = Tail(mbox)
    BY <1>6, TypeParts DEF ScanStart, Recv, FwSame, Calm, State, Counts, Then,
          linkVars, chVars, fwVars
  <2> QED BY <2>1, TypeParts, OrderTakes
<1>7. CASE ChPrivilege
  <2> DEFINE A == chAsked \cup chHeld
             J == State = "JOIN"
             c == Counts
             b == mbox
             h == Head(b)
  <2>1. b # <<>> /\ b \in Seq(Messages) /\ h.m \in {"CH_REQ", "CH_ABORT"}
    BY <1>7, TypeParts DEF ChPrivilege, Recv, BoxType
  <2>2. c \in BOOLEAN /\ J \in BOOLEAN /\ AsksEnd(b, A, c) /\ JoinsEnd(b, J, saa)
    BY DEF OrderInd, AsksInd, JoinsInd, Counts
  <2>3. /\ mbox' = Tail(b) /\ saa' = saa /\ Counts' = c /\ (State' = "JOIN") = J
        /\ \/ h.m = "CH_REQ" /\ chAsked' \cup chHeld' = A \cup {h.age}
           \/ h.m = "CH_ABORT" /\ chAsked' \cup chHeld' = A \ {h.age}
    BY <1>7, <2>1 DEF ChPrivilege, Recv, Then, State, Counts, chVars
  <2> HIDE DEF A, J, c, b, h
  <2>4. AsksEnd(Tail(b), chAsked' \cup chHeld', c)
    BY <2>1, <2>2, <2>3, AsksShrink DEF h
  <2>5. JoinsEnd(Tail(b), J, saa)
    BY <2>1, <2>2, JoinsShrink DEF h
  <2> QED BY <2>3, <2>4, <2>5, OrderNext
<1>8. CASE SaaStart
  <2> DEFINE A == chAsked \cup chHeld
             J == State = "JOIN"
             c == Counts
             b == mbox
             h == Head(b)
  <2>1. b # <<>> /\ b \in Seq(Messages) /\ h.m \in {"JOIN_REQ"}
    BY <1>8, TypeParts DEF SaaStart, Recv, BoxType
  <2>2. c \in BOOLEAN /\ J \in BOOLEAN /\ AsksEnd(b, A, c) /\ JoinsEnd(b, J, saa)
    BY DEF OrderInd, AsksInd, JoinsInd, Counts
  <2>3. /\ mbox' = Tail(b) /\ saa' = h.age /\ Counts' = c /\ (State' = "JOIN") = J
        /\ chAsked' \cup chHeld' = A
    BY <1>8 DEF SaaStart, Recv, Then, State, Counts, chVars, fwVars
  <2> HIDE DEF A, J, c, b, h
  <2>4. AsksEnd(Tail(b), A, c)
    BY <2>1, <2>2, AsksShrink DEF h
  <2>5. JoinsEnd(Tail(b), J, h.age)
    BY <2>1, <2>2, JoinsShrink DEF h
  <2> QED BY <2>3, <2>4, <2>5, OrderNext
<1>9. CASE SaaAbort
  <2> DEFINE A == chAsked \cup chHeld
             J == State = "JOIN"
             c == Counts
             b == mbox
             h == Head(b)
  <2>1. b # <<>> /\ b \in Seq(Messages) /\ h.m \in {"SAA_ABORT"}
    BY <1>9, TypeParts DEF SaaAbort, Recv, BoxType
  <2>2. c \in BOOLEAN /\ J \in BOOLEAN /\ AsksEnd(b, A, c) /\ JoinsEnd(b, J, saa)
    BY DEF OrderInd, AsksInd, JoinsInd, Counts
  <2>3. /\ mbox' = Tail(b) /\ saa' = -1 /\ Counts' = c /\ (State' = "JOIN") = J
        /\ chAsked' \cup chHeld' = A
    BY <1>9 DEF SaaAbort, Recv, Then, State, Counts, chVars, fwVars
  <2> HIDE DEF A, J, c, b, h
  <2>4. AsksEnd(Tail(b), A, c)
    BY <2>1, <2>2, AsksShrink DEF h
  <2>5. JoinsEnd(Tail(b), J, -1)
    BY <2>1, <2>2, JoinsShrink DEF h
  <2> QED BY <2>3, <2>4, <2>5, OrderNext
<1> QED BY <1>1, <1>2, <1>3, <1>4, <1>5, <1>6, <1>7, <1>8, <1>9 DEF Handle

\* What the user and the AP start asks for no channel and no join by itself.
LEMMA UserKeepsOrder ==
  ASSUME TypeOK, RocInd, ControlInd, OrderInd, User
  PROVE  OrderInd'
<1>1. CASE OsScan
  <2>1. FwSame /\ Calm /\ mbox' = mbox
    BY <1>1, TypeParts DEF OsScan, Event, Outside, FwSame, Calm, State, Counts, Then,
          linkVars, chVars, fwVars
  <2> QED BY <2>1, TypeParts, OrderStays
<1>2. CASE Connect
  <2>1. \E x \in Messages : x.m = "ABORT" /\ mbox' = Append(mbox, x)
    BY <1>2, ConnectSends
  <2>2. FwSame /\ Calm
    BY <1>2 DEF Connect, FwSame, Calm, State, Counts, Then, linkVars, chVars, fwVars
  <2> QED BY <2>1, <2>2, TypeParts, OrderSends
<1>3. CASE UserDisconnect
  <2>1. \E x \in Messages : x.m = "ABORT" /\ mbox' = Append(mbox, x)
    BY <1>3, MessageTypes DEF UserDisconnect, Send, AbortMsg, Reasons
  <2>2. FwSame /\ Calm
    BY <1>3 DEF UserDisconnect, FwSame, Calm, State, Counts, Then, linkVars, chVars,
          fwVars
  <2> QED BY <2>1, <2>2, TypeParts, OrderSends
<1>4. CASE Deauth
  <2>1. \E x \in Messages : x.m = "ABORT" /\ mbox' = Append(mbox, x)
    BY <1>4, MessageTypes DEF Deauth, Send, AbortMsg, Reasons
  <2>2. FwSame /\ Calm
    BY <1>4 DEF Deauth, FwSame, Calm, State, Counts, Then, linkVars, chVars, fwVars
  <2> QED BY <2>1, <2>2, TypeParts, OrderSends
<1>5. CASE BeaconTimeout
  <2>1. goto = "none" /\ FwSame /\ \E r, d : StateAbort(r, d, pend, mbox, timers)
    BY <1>5 DEF BeaconTimeout, LinkLost, Event, Outside, FwSame, fwVars
  <2> QED BY <2>1, OrderGivenUp
<1>6. CASE SecurityChanged
  <2>1. goto = "none" /\ FwSame /\ \E r, d : StateAbort(r, d, pend, mbox, timers)
    BY <1>6 DEF SecurityChanged, LinkLost, Event, Outside, FwSame, fwVars
  <2> QED BY <2>1, OrderGivenUp
<1>7. CASE BssInfoDiffers
  <2>1. goto = "none" /\ FwSame /\ \E r, d : StateAbort(r, d, pend, mbox, timers)
    BY <1>7 DEF BssInfoDiffers, LinkLost, Event, Outside, FwSame, fwVars
  <2> QED BY <2>1, OrderGivenUp
<1>8. CASE RoamingDiscovery
  <2>1. FwSame /\ Calm /\ mbox' = mbox
    BY <1>8, TypeParts DEF RoamingDiscovery, Event, Outside, FwSame, Calm, State,
          Counts, Then, linkVars, chVars, fwVars
  <2> QED BY <2>1, TypeParts, OrderStays
<1>9. CASE RemainOnChannel
  <2>1. mbox' = Append(mbox, [m |-> "REMAIN"]) /\ [m |-> "REMAIN"] \in Messages
    BY <1>9, MessageTypes DEF RemainOnChannel, RocMsg, Send
  <2>2. FwSame /\ Calm
    BY <1>9 DEF RemainOnChannel, RocMsg, FwSame, Calm, State, Counts, Then, linkVars,
          chVars, fwVars
  <2> QED BY <2>1, <2>2, TypeParts, OrderSends
<1>10. CASE CancelRemainOnChannel
  <2>1. mbox' = Append(mbox, [m |-> "CANCEL"]) /\ [m |-> "CANCEL"] \in Messages
    BY <1>10, MessageTypes DEF CancelRemainOnChannel, RocMsg, Send
  <2>2. FwSame /\ Calm
    BY <1>10 DEF CancelRemainOnChannel, RocMsg, FwSame, Calm, State, Counts, Then,
          linkVars, chVars, fwVars
  <2> QED BY <2>1, <2>2, TypeParts, OrderSends
<1> QED BY <1>1, <1>2, <1>3, <1>4, <1>5, <1>6, <1>7, <1>8, <1>9, <1>10 DEF User

\* The firmware moves a request to its channel; a join that ends is no longer at SAA.
LEMMA AnswersKeepOrder ==
  ASSUME TypeOK, RocInd, ControlInd, OrderInd, Answers
  PROVE  OrderInd'
<1>1. CASE ScanEnds
  <2>1. \E x \in Messages : x.m = "SCAN_DONE" /\ mbox' = Append(mbox, x)
    BY <1>1, TypeParts, MessageTypes DEF ScanEnds, Send, Msg, ScanType, FwType,
          Numbered
  <2>2. FwSame /\ Calm
    BY <1>1 DEF ScanEnds, FwSame, Calm, State, Counts, Then, linkVars, chVars, fwVars
  <2> QED BY <2>1, <2>2, TypeParts, OrderSends
<1>2. CASE FwGrants
  <2>1. FwSame /\ Calm /\ mbox' = mbox
    BY <1>2, TypeParts DEF FwGrants, FwSame, Calm, State, Counts, Then, linkVars,
          chVars, fwVars
  <2> QED BY <2>1, TypeParts, OrderStays
<1>3. CASE ChEvent
  <2>1. \E x \in Messages : x.m = "CH_GRANT" /\ mbox' = Append(mbox, x)
    BY <1>3, TypeParts, MessageTypes DEF ChEvent, Send, Msg, ScanType, FwType,
          Numbered
  <2>2. FwSame /\ Calm
    BY <1>3 DEF ChEvent, FwSame, Calm, State, Counts, Then, linkVars, chVars, fwVars
  <2> QED BY <2>1, <2>2, TypeParts, OrderSends
<1>4. CASE JoinSucceeds
  <2> DEFINE A == chAsked \cup chHeld
             J == State = "JOIN"
             c == Counts
  <2>1. c \in BOOLEAN /\ J \in BOOLEAN /\ AsksEnd(mbox, A, c) /\ JoinsEnd(mbox, J, saa)
    BY DEF OrderInd, AsksInd, JoinsInd, Counts
  <2>2. saa = 0 /\ mbox' = mbox /\ chAsked' \cup chHeld' = A /\ saa' = -1 /\ Counts' = c /\ State' # "JOIN"
    BY <1>4 DEF JoinSucceeds, JoinEnds, Then, State, Counts, chVars, fwVars
  <2> HIDE DEF A, J, c
  <2>3. JoinsEnd(mbox, FALSE, -1)
    BY <2>1, <2>2, JoinsOver
  <2> QED BY <2>1, <2>2, <2>3, OrderNext
<1>5. CASE JoinRetries
  <2> DEFINE names == {"JOIN_REQ"}
             x == Msg("JOIN_REQ", 0)
             A == chAsked \cup chHeld
  <2>1. /\ names \in SUBSET Numbered /\ x \in Messages /\ x.m = "JOIN_REQ"
        /\ "CH_REQ" \notin names /\ "CH_ABORT" \notin names
    BY MessageTypes DEF Numbered, Ages, Msg
  <2>2. /\ mbox' = Append(AgedBox(names), x) /\ chAsked' \cup chHeld' = A /\ saa' # 0
        /\ Counts' = Counts /\ State' = "JOIN"
    BY <1>5 DEF JoinRetries, JoinEnds, Outside, State, Counts, chVars, fwVars
  <2>3. Counts \in BOOLEAN /\ AsksEnd(mbox, A, Counts) /\ JoinsEnd(mbox, State = "JOIN", saa)
    BY DEF OrderInd, AsksInd, JoinsInd, Counts
  <2>4. JoinsEnd(mbox', TRUE, saa')
    BY <2>2, <2>3, TypeParts, JoinsAnew
  <2> HIDE DEF names, x, A
  <2>5. AsksEnd(mbox', A, Counts)
    BY <2>1, <2>2, <2>3, TypeParts, AsksBeside
  <2> QED BY <2>2, <2>4, <2>5, OrderNext
<1>6. CASE JoinFails
  <2> DEFINE A == chAsked \cup chHeld
             J == State = "JOIN"
             c == Counts
  <2>1. c \in BOOLEAN /\ J \in BOOLEAN /\ AsksEnd(mbox, A, c) /\ JoinsEnd(mbox, J, saa)
    BY DEF OrderInd, AsksInd, JoinsInd, Counts
  <2>2. saa = 0 /\ mbox' = mbox \o ChAbort /\ chAsked' \cup chHeld' = A /\ saa' = -1
    BY <1>6 DEF JoinFails, JoinEnds, fwVars
  <2>3. ~Counts' /\ State' # "JOIN"
    BY <1>6 DEF JoinFails, ReleaseChFlags, Then, State, Counts
  <2>4. ChAbort \in Seq(Messages) /\ Aborts(ChAbort) /\ (c => \E k \in 1..Len(ChAbort) : ChAbort[k] = Msg("CH_ABORT", 0))
    BY TypeParts, AbortPieces DEF GivesChannel
  <2>5. Tame(ChAbort) /\ mbox \in Seq(Messages)
    BY <2>4, TypeParts DEF Aborts, Tame, BoxType
  <2> HIDE DEF A, J, c
  <2>6. JoinsEnd(mbox, FALSE, -1)
    BY <2>1, <2>2, JoinsOver
  <2>7. JoinsEnd(mbox', FALSE, -1)
    BY <2>2, <2>4, <2>5, <2>6, JoinsGrow
  <2>8. AsksEnd(mbox', A, FALSE)
    BY <2>1, <2>2, <2>4, <2>5, AsksTakenBack
  <2>9. AsksEnd(mbox', A, Counts')
    BY <2>8, AsksWeaken
  <2> QED BY <2>2, <2>3, <2>7, <2>9, OrderNext DEF A
<1>7. CASE JoinIgnored
  <2> DEFINE A == chAsked \cup chHeld
             J == State = "JOIN"
             c == Counts
  <2>1. c \in BOOLEAN /\ J \in BOOLEAN /\ AsksEnd(mbox, A, c) /\ JoinsEnd(mbox, J, saa)
    BY DEF OrderInd, AsksInd, JoinsInd, Counts
  <2>2. mbox' = mbox /\ chAsked' \cup chHeld' = A /\ saa' = -1 /\ Counts' = c /\ (State' = "JOIN") = J
    BY <1>7 DEF JoinIgnored, State, Counts, chVars, fwVars
  <2> HIDE DEF A, J, c
  <2>3. JoinsEnd(mbox, J, -1)
    BY <2>1, JoinsOver
  <2> QED BY <2>1, <2>2, <2>3, OrderNext
<1>8. CASE DeauthTxDone
  <2>1. goto = "none" /\ FwSame /\ ais' = ais
    BY <1>8 DEF DeauthTxDone, Outside, FwSame
  <2>2. CASE \E t : StateAbort("NEW", FALSE, pend, mbox, t)
    BY <2>1, <2>2, OrderGivenUp
  <2>3. CASE UNCHANGED <<goto, chVars, mbox>>
    <3>1. Calm /\ mbox' = mbox
      BY <2>1, <2>3 DEF Calm, State, Counts, chVars
    <3> QED BY <2>1, <3>1, TypeParts, OrderStays
  <2> QED BY <1>8, <2>2, <2>3 DEF DeauthTxDone, Deauthenticated
<1> QED BY <1>1, <1>2, <1>3, <1>4, <1>5, <1>6, <1>7, <1>8 DEF Answers

\* A timer takes back what it ends.
LEMMA TimersKeepOrder ==
  ASSUME TypeOK, RocInd, ControlInd, OrderInd, TimersFire
  PROVE  OrderInd'
<1>1. CASE ScanDoneTimeOut
  <2>1. mbox = <<>> /\ goto = "none" /\ FwSame /\ ais' = ais
    BY <1>1 DEF ScanDoneTimeOut, Fires, Outside, FwSame, fwVars
  <2>2. \A t \in Seq(Messages) : mbox \o t = t
    BY <2>1, ConcatEmptySeq
  <2>3. ScanCancelled \in Seq(Messages) /\ Tame(ScanCancelled)
    BY TypeParts, AbortPieces DEF Aborts, Tame
  <2>4. mbox' = mbox \o ScanCancelled
    BY <1>1, <2>2, <2>3 DEF ScanDoneTimeOut
  <2>5. (Counts => Counts') /\ (State = "JOIN" => State' = "JOIN")
    BY <1>1, <2>1 DEF ScanDoneTimeOut, Then, State, Counts, chVars
  <2> QED BY <2>1, <2>3, <2>4, <2>5, TypeParts, OrderGrows
<1>2. CASE BgSleepTimeOut
  <2>1. FwSame /\ Calm /\ mbox' = mbox
    BY <1>2, TypeParts DEF BgSleepTimeOut, Fires, Outside, FwSame, Calm, State,
          Counts, Then, linkVars, chVars, fwVars
  <2> QED BY <2>1, TypeParts, OrderStays
<1>3. CASE JoinTimeout
  <2>1. mbox = <<>> /\ goto = "none" /\ FwSame /\ ais' = ais
    BY <1>3 DEF JoinTimeout, Fires, Outside, FwSame, fwVars
  <2>2. \A t \in Seq(Messages) : mbox \o t = t
    BY <2>1, ConcatEmptySeq
  <2>3. /\ ChAbort \in Seq(Messages) /\ Tame(ChAbort) /\ GivesChannel(ChAbort)
        /\ JoinAbort \in Seq(Messages) /\ Tame(JoinAbort) /\ GivesChannel(JoinAbort) /\ StopsJoin(JoinAbort)
    BY TypeParts, AbortPieces DEF Aborts, Tame
  <2>4. \/ mbox' = mbox \o JoinAbort
        \/ mbox' = mbox \o ChAbort /\ (State = "JOIN" => State' = "JOIN")
    BY <1>3, <2>1, <2>2, <2>3 DEF JoinTimeout, State
  <2> QED BY <2>1, <2>3, <2>4, TypeParts, OrderGrows
<1>4. CASE DeauthTimeout
  <2>1. goto = "none" /\ FwSame /\ ais' = ais
    BY <1>4 DEF DeauthTimeout, Fires, Outside, FwSame, fwVars
  <2>2. CASE \E t : StateAbort("NEW", FALSE, pend, mbox, t)
    BY <2>1, <2>2, OrderGivenUp
  <2>3. CASE UNCHANGED <<goto, chVars, mbox>>
    <3>1. Calm /\ mbox' = mbox
      BY <2>1, <2>3 DEF Calm, State, Counts, chVars
    <3> QED BY <2>1, <3>1, TypeParts, OrderStays
  <2> QED BY <1>4, <2>2, <2>3 DEF DeauthTimeout, Deauthenticated
<1>5. CASE ChannelTimeout
  <2>1. mbox = <<>> /\ goto = "none" /\ FwSame /\ ais' = ais
    BY <1>5 DEF ChannelTimeout, Fires, Outside, FwSame, fwVars
  <2>2. \A t \in Seq(Messages) : mbox \o t = t
    BY <2>1, ConcatEmptySeq
  <2>3. /\ ChAbort \in Seq(Messages) /\ Tame(ChAbort) /\ GivesChannel(ChAbort)
        /\ JoinAbort \in Seq(Messages) /\ Tame(JoinAbort) /\ GivesChannel(JoinAbort) /\ StopsJoin(JoinAbort)
    BY TypeParts, AbortPieces DEF Aborts, Tame
  <2>4. State = "JOIN" => State' = "JOIN"
    BY <1>5, <2>1 DEF ChannelTimeout, Then, State
  <2>5. \/ mbox' = mbox \o ChAbort
        \/ mbox' = mbox /\ UNCHANGED <<chReq, chGrant>>
    BY <1>5, <2>1, <2>2, <2>3 DEF ChannelTimeout
  <2>6. CASE mbox' = mbox \o ChAbort
    BY <2>1, <2>3, <2>4, <2>6, TypeParts, OrderGrows
  <2>7. CASE mbox' = mbox /\ UNCHANGED <<chReq, chGrant>>
    BY <2>1, <2>4, <2>7, TypeParts, OrderStays DEF Calm, Counts
  <2> QED BY <2>5, <2>6, <2>7
<1>6. CASE PostponedDisconn
  <2>1. FwSame /\ Calm /\ mbox' = mbox
    BY <1>6, TypeParts DEF PostponedDisconn, FwSame, Calm, State, Counts, Then,
          linkVars, chVars, fwVars
  <2> QED BY <2>1, TypeParts, OrderStays
<1>7. CASE JoinReqGetsOld
  <2>1. FwSame /\ Calm /\ mbox' = mbox
    BY <1>7, TypeParts DEF JoinReqGetsOld, FwSame, Calm, State, Counts, Then,
          linkVars, chVars, fwVars
  <2> QED BY <2>1, TypeParts, OrderStays
<1> QED BY <1>1, <1>2, <1>3, <1>4, <1>5, <1>6, <1>7 DEF TimersFire

-----------------------------------------------------------------------------
(* The theorems. *)

\* Every step keeps the types.
LEMMA NextKeepsTypes == TypeOK /\ [Next]_vars => TypeOK'
<1> SUFFICES ASSUME TypeOK, [Next]_vars  PROVE TypeOK'
  OBVIOUS
<1>1. CASE UNCHANGED vars
  BY <1>1, TypeParts, TypePartsNext, Untouched DEF vars
<1> QED BY <1>1, StepsKeepTypes, HandleKeepsTypes, UserKeepsTypes, AnswersKeepTypes,
           TimersKeepTypes DEF Next

\* The station starts with one of its values in every variable.
LEMMA InitTypes == Init => TypeOK
<1> SUFFICES ASSUME Init  PROVE TypeOK
  OBVIOUS
<1>1. <<>> \in Seq(Requests) /\ <<>> \in Seq(Messages)
  BY EmptySeq
<1>2. PendType /\ BoxType
  BY <1>1 DEF Init, PendType, BoxType
<1>3. PlaceType /\ RoamType
  BY DEF Init, PlaceType, RoamType, States, Resting
<1>4. LinkType
  BY DEF Init, LinkType, Reasons
<1>5. UserType
  BY DEF Init, UserType
<1>6. JoinType
  <2>1. tryScan = FALSE /\ trial = 0 /\ fails = 0 /\ joinOld = FALSE /\ authLeft = FALSE
    BY DEF Init
  <2>2. 0 \in 0..TrialLimit + 1 /\ 0 \in 0..MaxJoinFailure
    BY DEF TrialLimit, MaxJoinFailure
  <2> QED BY <2>1, <2>2 DEF JoinType
<1>7. ChType /\ TimerType /\ ScanType /\ FwType /\ SaaType
  BY DEF Init, ChType, TimerType, ScanType, FwType, SaaType
<1>8. CountType
  <2>1. draining = FALSE /\ events = MaxEvents
    BY DEF Init
  <2>2. MaxEvents \in 0..MaxEvents
    BY AisFsmAssumption
  <2> QED BY <2>1, <2>2 DEF CountType
<1> QED BY <1>2, <1>3, <1>4, <1>5, <1>6, <1>7, <1>8, TypeParts

\* Whatever is asked when, every variable of the station keeps its type: a list
\* has only requests, the box only messages, and a count stays in its range.
THEOREM TypeCorrect == Spec => []TypeOK
BY InitTypes, NextKeepsTypes, PTL DEF Spec

\* The invariant holds at the start, where nothing is under way,
LEMMA InitOrder == Init => AisInd
<1> SUFFICES ASSUME Init  PROVE AisInd
  OBVIOUS
<1>1. /\ mbox = <<>> /\ goto = "none" /\ finished /\ ~Counts
      /\ chAsked \cup chHeld = {} /\ saa = -1 /\ State \in {"NORMAL_TR", "IDLE"}
      /\ State = "NORMAL_TR" => conn
  BY DEF Init, Counts, State
<1>2. Len(mbox) = 0
  BY <1>1
<1>3. RocInd
  BY <1>1, <1>2 DEF RocInd, Has
<1>4. ControlInd
  BY <1>1 DEF ControlInd, WindowCloses
<1>5. AsksInd
  BY <1>1, <1>2 DEF AsksInd, AsksEnd
<1>6. JoinsInd
  BY <1>1, <1>2 DEF JoinsInd, JoinsEnd
<1> QED BY <1>3, <1>4, <1>5, <1>6, InitTypes DEF AisInd

\* and every step keeps it,
LEMMA NextKeepsOrder ==
  ASSUME RocAnytime = FALSE
  PROVE  AisInd /\ [Next]_vars => AisInd'
<1> SUFFICES ASSUME AisInd, [Next]_vars  PROVE AisInd'
  OBVIOUS
<1>1. TypeOK /\ RocInd /\ ControlInd /\ OrderInd
  BY DEF AisInd, OrderInd
<1>2. TypeOK'
  BY <1>1, NextKeepsTypes
<1>3. CASE UNCHANGED vars
  <2>1. UNCHANGED <<ais, goto, conn, finished, chReq, chGrant, timers, mbox, draining,
                    chAsked, chHeld, saa>>
    BY <1>3 DEF vars, linkVars, chVars, fwVars
  <2>2. State' = State /\ Counts' = Counts
    BY <2>1 DEF State, Counts
  <2>3. RocInd'
    BY <1>1, <2>1, <2>2 DEF RocInd, Has
  <2>4. ControlInd'
    BY <1>1, <2>1, <2>2 DEF ControlInd, WindowCloses
  <2>5. OrderInd'
    BY <1>1, <2>1, <2>2, TypeParts, OrderStays DEF FwSame, Calm
  <2> QED BY <1>2, <2>3, <2>4, <2>5 DEF AisInd, OrderInd
<1>4. CASE Steps
  BY <1>1, <1>2, <1>4, StepsKeepRoc, StepsKeepControl, StepsKeepOrder
     DEF AisInd, OrderInd
<1>5. CASE Handle
  BY <1>1, <1>2, <1>5, HandleKeepsRoc, HandleKeepsControl, HandleKeepsOrder
     DEF AisInd, OrderInd
<1>6. CASE User
  BY <1>1, <1>2, <1>6, UserKeepsRoc, UserKeepsControl, UserKeepsOrder
     DEF AisInd, OrderInd
<1>7. CASE Answers
  BY <1>1, <1>2, <1>7, AnswersKeepRoc, AnswersKeepControl, AnswersKeepOrder
     DEF AisInd, OrderInd
<1>8. CASE TimersFire
  BY <1>1, <1>2, <1>8, TimersKeepRoc, TimersKeepControl, TimersKeepOrder
     DEF AisInd, OrderInd
<1> QED BY <1>3, <1>4, <1>5, <1>6, <1>7, <1>8 DEF Next

\* and it has what the runs check in it.
LEMMA OrderIsEnough == AisInd => ChannelInv /\ JoinSupervised
<1> SUFFICES ASSUME AisInd  PROVE ChannelInv /\ JoinSupervised
  OBVIOUS
<1>1. TypeOK /\ WindowCloses /\ AsksInd /\ JoinsInd
  BY DEF AisInd, ControlInd
<1>2. mbox \in Seq(Messages)
  BY <1>1, TypeParts DEF BoxType
<1>3. DOMAIN mbox = 1..Len(mbox)
  BY <1>2, LenProperties
<1>4. ToSet(mbox) = {mbox[j] : j \in 1..Len(mbox)}
  BY <1>3 DEF ToSet
<1>5. ASSUME NEW a \in chAsked \cup chHeld
      PROVE  (a = 0 /\ Counts) \/ Msg("CH_ABORT", a) \in ToSet(mbox)
  BY <1>1, <1>4 DEF AsksInd, AsksEnd
<1>6. ChannelReturned
  BY <1>5 DEF ChannelReturned, InBox, Counts
<1>7. NoOrphanJoin
  <2>1. ASSUME saa # -1, ~(State = "JOIN" /\ saa = 0)
        PROVE  \E j \in 1..Len(mbox) : Stops(mbox[j])
    BY <1>1, <2>1 DEF JoinsInd, JoinsEnd
  <2> QED BY <1>3, <2>1 DEF NoOrphanJoin, Stops
<1> QED BY <1>1, <1>6, <1>7 DEF ChannelInv, JoinSupervised

\* Whatever channel the firmware was asked for or gave is the one AIS counts on
\* or is being given back, if remain-on-channel is asked and cancelled only
\* where it may be: aisFsmReleaseCh() and the order of the box see to it.
THEOREM ChannelGivenBack ==
  ASSUME RocAnytime = FALSE
  PROVE  Spec => []ChannelInv
<1>1. Init => AisInd
  BY InitOrder
<1>2. AisInd /\ [Next]_vars => AisInd'
  BY NextKeepsOrder
<1>3. AisInd => ChannelInv
  BY OrderIsEnough
<1> QED BY <1>1, <1>2, <1>3, PTL DEF Spec

\* Nobody works for a join AIS has left, and the time kept for a join and the
\* 4-way handshake ends, on the same condition.
THEOREM JoinAlwaysSupervised ==
  ASSUME RocAnytime = FALSE
  PROVE  Spec => []JoinSupervised
<1>1. Init => AisInd
  BY InitOrder
<1>2. AisInd /\ [Next]_vars => AisInd'
  BY NextKeepsOrder
<1>3. AisInd => JoinSupervised
  BY OrderIsEnough
<1> QED BY <1>1, <1>2, <1>3, PTL DEF Spec
=============================================================================
