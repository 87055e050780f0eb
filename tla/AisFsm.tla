-------------------------------- MODULE AisFsm --------------------------------
(***************************************************************************)
(* The Wi-Fi station: aisFsmSteps() and its event handlers (ais_fsm.c), the *)
(* roaming state (roaming_fsm.c), the message box (hem_mbox.c), and the     *)
(* services AIS asks over it: scans, channel privilege, authentication and  *)
(* association.  All of it runs on the driver's main thread; a handler ends *)
(* in aisFsmSteps(goto), whose loop is one Enter action per pass.           *)
(* Sequence numbers are kept as an age: 0 is the current number of its      *)
(* kind, 1 any earlier one (the 8-bit counters do not wrap in flight).      *)
(***************************************************************************)
EXTENDS Integers, Sequences, FiniteSets, SequencesExt

CONSTANTS
  MaxEvents,   \* bound: what the user, the AP and the firmware start
  Kinds,       \* which of these events happen
  AutoSwitch,  \* AUTH_MODE_AUTO_SWITCH: a second authentication type is left
  RocAnytime   \* remain-on-channel is asked and cancelled at any time

EventKinds == {"scan", "connect", "disconnect", "deauth", "beacon", "security",
               "mismatch", "roaming", "remain", "cancel"}

ASSUME AisFsmAssumption ==
  MaxEvents \in Nat /\ Kinds \subseteq EventKinds
  /\ AutoSwitch \in BOOLEAN /\ RocAnytime \in BOOLEAN

TrialLimit == 2      \* AIS_ROAMING_CONNECTION_TRIAL_LIMIT
MaxJoinFailure == 2  \* JOIN_MAX_RETRY_FAILURE_COUNT

Resting == {"IDLE", "WAIT", "SCAN", "ONLINE_SCAN", "LOOKING_FOR",
            "REQ_CHANNEL_JOIN", "JOIN", "NORMAL_TR", "DISCONNECTING",
            "REQ_REMAIN", "REMAIN"}
States == Resting \cup {"SEARCH"}
Scanning == {"SCAN", "ONLINE_SCAN", "LOOKING_FOR"}
Requests == {"SCAN", "RECONNECT", "ROAMING_SEARCH", "ROAMING_CONNECT", "REMAIN"}
Reasons == {"NEW", "REASSOC", "ROAMING", "RADIO_LOST", "DEAUTH"}
Timers == {"scan", "bg", "join", "ch", "deauth", "disc"}
Ages == {0, 1}
Numbered == {"SCAN_REQ", "SCAN_DONE", "CH_REQ", "CH_ABORT", "CH_GRANT", "JOIN_REQ"}
Messages == [m : Numbered, age : Ages] \cup [m : {"SAA_ABORT"}, sta : {"AP", "other"}]
              \cup [m : {"ABORT"}, reason : Reasons, delay : BOOLEAN]
              \cup [m : {"REMAIN", "CANCEL"}]

VARIABLES
  ais,        \* eCurrentState
  goto,       \* eNextState of a running aisFsmSteps(), "none" between handlers
  pend,       \* rPendingReqList
  conn,       \* eConnectionState is CONNECTED
  apRec,      \* prStaRecOfAP: NULL, in use, or freed under the pointer
  target,     \* prTargetStaRec: the record prStaRecOfAP points to, or another
  reason,     \* ucReasonOfDisconnect
  connReq, discNR, scanReq,   \* fgIsConnReqIssued,
              \* fgIsDisconnectedByNonRequest, fgIsScanReqIssued
  tryScan, trial,  \* fgTryScan, ucConnTrialCount
  fails,      \* ucJoinFailureCount of the BSS it joins
  joinOld,    \* AIS_JOIN_TIMEOUT has passed since rJoinReqTime
  authLeft,   \* ucAvailableAuthTypes holds another type
  finished,   \* fgIsInfraChannelFinished: no join and no 4-way handshake
  chReq, chGrant,  \* fgIsChannelRequested, fgIsChannelGranted
  timers,     \* the AIS timers that are started
  roam,       \* the roaming state
  indicated, host, \* eConnectionStateIndicated; the state the OS was told
  mbox, draining,  \* the message box; mboxRcvAllMsg() is in its loop
  scn,        \* AIS scans the scan FSM holds, running or queued
  chAsked, chHeld, grants,  \* at the firmware: channel requests in line, on
              \* the channel, and grant events not yet read
  saa,        \* the join the auth/assoc FSM works on
  deauthTx,   \* a deauthentication frame is at the firmware
  events      \* events left

linkVars == <<conn, apRec, target, reason, indicated, host>>
userVars == <<connReq, discNR, scanReq>>
joinVars == <<tryScan, trial, fails, joinOld, authLeft>>
chVars == <<finished, chReq, chGrant>>
fwVars == <<chAsked, chHeld, grants, deauthTx>>
vars == <<ais, goto, pend, linkVars, userVars, joinVars, chVars, timers, roam,
          mbox, draining, scn, fwVars, saa, events>>

TypeOK ==
  /\ ais \in States /\ goto \in States \cup {"none"}
  /\ pend \in Seq(Requests) /\ mbox \in Seq(Messages)
  /\ conn \in BOOLEAN /\ apRec \in {"none", "used", "freed"}
  /\ target \in {"AP", "other"} /\ reason \in Reasons
  /\ connReq \in BOOLEAN /\ discNR \in BOOLEAN /\ scanReq \in BOOLEAN
  /\ tryScan \in BOOLEAN /\ trial \in 0..TrialLimit + 1
  /\ fails \in 0..MaxJoinFailure
  /\ joinOld \in BOOLEAN /\ authLeft \in BOOLEAN
  /\ finished \in BOOLEAN /\ chReq \in BOOLEAN /\ chGrant \in BOOLEAN
  /\ timers \subseteq Timers
  /\ roam \in {"IDLE", "DECISION", "DISCOVERY", "ROAM"}
  /\ indicated \in {"connected", "disconnected"}
  /\ host \in {"connected", "disconnected", "to be told"}
  /\ draining \in BOOLEAN /\ scn \subseteq Ages
  /\ chAsked \subseteq Ages /\ chHeld \subseteq Ages /\ grants \subseteq Ages
  /\ saa \in Ages \cup {-1} /\ deauthTx \in BOOLEAN /\ events \in 0..MaxEvents

-----------------------------------------------------------------------------
(* The pending requests and the message box. *)

Pends(p, r) == \E i \in DOMAIN p : p[i] = r

\* aisFsmIsRequestPending(.., TRUE): the first such request is removed.
Without(p, r) ==
  IF Pends(p, r) THEN RemoveAt(p, SelectInSeq(p, LAMBDA x : x = r)) ELSE p

\* The request is put once, at the tail.
PutOnce(p, r) == Append(Without(p, r), r)
NoRoaming(p) == Without(Without(p, "ROAMING_SEARCH"), "ROAMING_CONNECT")
PutIfNone(p, r) == IF Pends(p, r) THEN p ELSE Append(p, r)

Msg(name, a) == [m |-> name, age |-> a]

\* A new number of a kind: what is under way for the current one gets old.
AgedBox(names) == [i \in DOMAIN mbox |->
                     IF mbox[i].m \in names THEN Msg(mbox[i].m, 1) ELSE mbox[i]]
Aged(ages) == IF ages = {} THEN {} ELSE {1}

\* mboxRcvAllMsg() goes on until the box is empty and its last handler is done.
StillDraining == draining' = (mbox' # <<>> \/ goto' # "none")
KeepDraining == draining' = (draining /\ (mbox' # <<>> \/ goto' # "none"))

\* Mutant: aisFsmReleaseCh() tests only fgIsChannelGranted.
ChAbortIfGranted == IF chGrant THEN <<Msg("CH_ABORT", 0)>> ELSE <<>>

\* aisFsmReleaseCh(): what it puts in the box.
ChAbort == IF chReq \/ chGrant THEN <<Msg("CH_ABORT", 0)>> ELSE <<>>
ReleaseChFlags == chReq' = FALSE /\ chGrant' = FALSE

\* aisFsmStateAbort_SCAN(): scnFsmMsgAbort() is called, not sent.  It knows the
\* scan only if its request has left the box.
ScanCancelled == IF 0 \in scn THEN <<Msg("SCAN_DONE", 0)>> ELSE <<>>

\* Mutant: aisFsmStateAbort_JOIN() sends no MID_AIS_SAA_FSM_ABORT.
JoinAbortWithoutSaa == ChAbort

\* Mutant: aisFsmStateAbort_JOIN() does not release the channel.
JoinAbortKeepsChannel == <<[m |-> "SAA_ABORT", sta |-> target]>>

\* aisFsmStateAbort_JOIN(): the messages it sends.
JoinAbort == <<[m |-> "SAA_ABORT", sta |-> target]>> \o ChAbort

-----------------------------------------------------------------------------
(* The host and the end of a connection. *)

HostToldDisconnected == indicated' = "disconnected" /\ host' = "disconnected"

\* Mutant: The indication is put off, and its timer is not started.
TellDisconnectedNever(c, delay, t) ==
  IF (~c /\ indicated = "disconnected") \/ delay
    THEN UNCHANGED <<indicated, host>> /\ timers' = t
    ELSE HostToldDisconnected /\ timers' = t \ {"disc"}

\* aisIndicationOfMediaStateToHost(DISCONNECTED, delay), conn being c by then.
\* t is the set of timers so far.
TellDisconnected(c, delay, t) ==
  IF ~c /\ indicated = "disconnected"
    THEN UNCHANGED <<indicated, host>> /\ timers' = t
    ELSE IF delay
      THEN UNCHANGED <<indicated, host>> /\ timers' = t \cup {"disc"}
      ELSE HostToldDisconnected /\ timers' = t \ {"disc"}

RoamAborted == roam' = "IDLE"

\* aisFsmDisconnect(): p and t are the requests and timers so far.
Disconnect(r, delay, p, t) ==
  LET lost == conn /\ r = "RADIO_LOST" /\ delay
      p1 == IF lost THEN PutOnce(p, "RECONNECT") ELSE p
      c == conn /\ r = "REASSOC"
  IN /\ pend' = NoRoaming(p1)
     /\ conn' = c
     /\ apRec' = IF delay THEN apRec ELSE "none"
     /\ target' = IF delay THEN target ELSE "other"
     /\ RoamAborted
     /\ TellDisconnected(c, delay, t)
     /\ goto' = "IDLE"

\* aisFsmStateAbort(): gives up what the state was doing, then disconnects.
\* From a connection to an AP the user leaves, a deauthentication frame is sent
\* first.  p, box and t are the requests, messages and timers so far.
StateAbort(r, delay, p, box, t) ==
  LET connected == conn /\ ais \in {"WAIT", "LOOKING_FOR", "REQ_CHANNEL_JOIN",
                                    "JOIN", "ONLINE_SCAN", "NORMAL_TR"}
      deauth == connected /\ r = "NEW" /\ apRec = "used"
      ends == ais = "JOIN" \/ ais = "DISCONNECTING" \/ (connected /\ ~deauth)
      gives == ends \/ ais \in {"REQ_CHANNEL_JOIN", "REQ_REMAIN", "REMAIN"}
      p1 == IF ais \in {"SCAN", "ONLINE_SCAN"} THEN PutIfNone(p, "SCAN") ELSE p
      t1 == t \ ((IF ais = "WAIT" THEN {"bg"} ELSE {})
                       \cup (IF ais = "REMAIN" THEN {"ch"} ELSE {})
                       \cup (IF ends THEN {"join"} ELSE {}))
  IN /\ reason' = r
     /\ scn' = IF ais \in Scanning THEN scn \ {0} ELSE scn
     /\ mbox' = box \o (IF ais \in Scanning THEN ScanCancelled ELSE <<>>)
                    \o (IF ais = "JOIN" THEN JoinAbort
                        ELSE IF gives THEN ChAbort ELSE <<>>)
     /\ finished' = (finished \/ ends)
     /\ IF gives THEN ReleaseChFlags ELSE UNCHANGED <<chReq, chGrant>>
     /\ connReq' = (connReq /\ ais # "JOIN")
     /\ IF deauth
          THEN /\ pend' = p1 /\ timers' = t1 /\ goto' = "DISCONNECTING"
               /\ UNCHANGED <<conn, apRec, target, roam, indicated, host>>
          ELSE Disconnect(r, delay, p1, t1)

\* What StateAbort leaves alone.
AbortKeeps == UNCHANGED <<ais, scanReq, tryScan, trial, fails, authLeft,
                          chAsked, chHeld, grants, saa, events>>

-----------------------------------------------------------------------------
(* aisFsmSteps(): one action for each state it enters. *)

Enter(s) == goto = s /\ ais' = s
Then(s) == goto' = s

\* wlanClearScanningResult() and the (de)activation of the network are not
\* modelled: no handler tests them.
EnterIdle ==
  /\ Enter("IDLE")
  /\ timers' = timers \ {"scan"}
  /\ LET head == IF pend = <<>> THEN "none" ELSE Head(pend)
         rest == IF pend = <<>> THEN <<>> ELSE Tail(pend)
     IN \/ /\ head \in {"none", "RECONNECT"} /\ connReq /\ ~discNR
           /\ tryScan' = TRUE /\ trial' = 0
           /\ pend' = rest /\ Then("SEARCH")
        \/ /\ head \in {"none", "RECONNECT"} /\ ~(connReq /\ ~discNR)
           /\ IF head # "none" /\ Pends(rest, "SCAN")
                THEN pend' = Without(rest, "SCAN") /\ Then("SCAN")
                ELSE pend' = rest /\ Then("none")
           /\ UNCHANGED <<tryScan, trial>>
        \/ /\ head \in Requests \ {"RECONNECT"} /\ pend' = rest
           /\ Then(CASE head = "SCAN" -> "SCAN"
                      [] head = "REMAIN" -> "REQ_REMAIN"
                      [] OTHER -> "none")
           /\ UNCHANGED <<tryScan, trial>>
  /\ UNCHANGED <<linkVars, userVars, fails, joinOld, authLeft, chVars, roam,
                 mbox, scn, fwVars, saa, events>>
  /\ KeepDraining

Candidates == {"none", "other"} \cup (IF apRec = "none" THEN {} ELSE {"AP"})
MoreTrial == trial' = IF trial > TrialLimit THEN trial ELSE trial + 1
RoamFailed == roam' = IF roam = "ROAM" THEN "DECISION" ELSE roam

Join(c) ==
  /\ target' = c /\ MoreTrial /\ Then("REQ_CHANNEL_JOIN")
  /\ UNCHANGED <<connReq, roam, pend>>

\* No BSS to join: scan once for it, then wait for the next request.
NoBss ==
  /\ MoreTrial
  /\ IF tryScan THEN Then("LOOKING_FOR") /\ UNCHANGED pend
     ELSE Then("IDLE") /\ pend' = Append(pend, "RECONNECT")
  /\ UNCHANGED <<target, connReq, roam>>

\* scanSearchBssDescByPolicy() may find no BSS, the AP's own or another.
EnterSearch ==
  /\ Enter("SEARCH")
  /\ \/ /\ conn /\ trial > TrialLimit
        /\ RoamFailed /\ trial' = 0 /\ connReq' = FALSE /\ Then("NORMAL_TR")
        /\ UNCHANGED <<target, pend>>
     \/ /\ ~conn
        /\ \E c \in Candidates : IF c = "none" THEN NoBss ELSE Join(c)
     \/ /\ conn /\ trial <= TrialLimit /\ reason # "REASSOC"
        /\ \/ /\ RoamFailed /\ Then("NORMAL_TR")
              /\ UNCHANGED <<target, trial, connReq, pend>>
           \/ Join("other")
     \/ /\ conn /\ trial <= TrialLimit /\ reason = "REASSOC"
        /\ \E c \in Candidates : IF c = "none" THEN NoBss ELSE Join(c)
  /\ UNCHANGED <<conn, apRec, reason, indicated, host, discNR, scanReq, tryScan,
                 fails, joinOld, authLeft, chVars, timers, mbox, scn, fwVars,
                 saa, events>>
  /\ KeepDraining

EnterWait ==
  /\ Enter("WAIT") /\ Then("none")
  /\ timers' = timers \cup {"bg"}
  /\ UNCHANGED <<pend, linkVars, userVars, joinVars, chVars, roam, mbox, scn,
                 fwVars, saa, events>>
  /\ KeepDraining

EnterScan ==
  /\ \E s \in Scanning : Enter(s)
  /\ Then("none")
  /\ mbox' = Append(AgedBox({"SCAN_REQ", "SCAN_DONE"}), Msg("SCAN_REQ", 0))
  /\ scn' = Aged(scn)
  /\ tryScan' = FALSE
  /\ UNCHANGED <<pend, linkVars, userVars, trial, fails, joinOld, authLeft,
                 chVars, timers, roam, fwVars, saa, events>>
  /\ KeepDraining

\* REQ_CHANNEL_JOIN and REQ_REMAIN_ON_CHANNEL ask for the channel alike.
EnterReqChannel ==
  /\ \E s \in {"REQ_CHANNEL_JOIN", "REQ_REMAIN"} : Enter(s)
  /\ Then("none")
  /\ mbox' = Append(AgedBox({"CH_REQ", "CH_ABORT", "CH_GRANT"}), Msg("CH_REQ", 0))
  /\ chReq' = TRUE
  /\ chAsked' = Aged(chAsked) /\ chHeld' = Aged(chHeld) /\ grants' = Aged(grants)
  /\ UNCHANGED <<pend, linkVars, userVars, joinVars, finished, chGrant, timers,
                 roam, scn, deauthTx, saa, events>>
  /\ KeepDraining

\* aisFsmStateInit_JOIN(): a record freed under prStaRecOfAP may be the one
\* that is allocated for the new BSS.
EnterJoin ==
  /\ Enter("JOIN") /\ Then("none")
  /\ mbox' = Append(AgedBox({"JOIN_REQ"}), Msg("JOIN_REQ", 0))
  /\ saa' = IF saa = -1 THEN -1 ELSE 1
  /\ authLeft' = AutoSwitch
  /\ \/ apRec # "freed" /\ UNCHANGED <<apRec, target>>
     \/ apRec = "freed" /\ target' = "other" /\ UNCHANGED apRec
     \/ apRec = "freed" /\ target' = "AP" /\ apRec' = "used"
  /\ UNCHANGED <<pend, conn, reason, indicated, host, userVars, tryScan, trial,
                 fails, joinOld, chVars, timers, roam, scn, fwVars, events>>
  /\ KeepDraining

ServedInTurn == <<"SCAN", "ROAMING_SEARCH", "ROAMING_CONNECT", "REMAIN">>
ServedBy == <<"ONLINE_SCAN", "LOOKING_FOR", "SEARCH", "REQ_REMAIN">>

\* Mutant: NORMAL_TR serves what is pending without a look at fgIsInfraChannelFinished.
EnterNormalTrAtOnce ==
  /\ Enter("NORMAL_TR")
  /\ LET i == SelectInSeq(ServedInTurn, LAMBDA r : Pends(pend, r)) IN
     IF i > 0
       THEN pend' = Without(pend, ServedInTurn[i]) /\ Then(ServedBy[i])
       ELSE UNCHANGED pend /\ Then("none")
  /\ UNCHANGED <<linkVars, userVars, joinVars, chVars, timers, roam, mbox, scn,
                 fwVars, saa, events>>
  /\ KeepDraining

\* Nothing is served before the 4-way handshake had its time.
EnterNormalTr ==
  /\ Enter("NORMAL_TR")
  /\ LET i == SelectInSeq(ServedInTurn, LAMBDA r : Pends(pend, r)) IN
     IF finished /\ i > 0
       THEN pend' = Without(pend, ServedInTurn[i]) /\ Then(ServedBy[i])
       ELSE UNCHANGED pend /\ Then("none")
  /\ UNCHANGED <<linkVars, userVars, joinVars, chVars, timers, roam, mbox, scn,
                 fwVars, saa, events>>
  /\ KeepDraining

EnterDisconnecting ==
  /\ Enter("DISCONNECTING") /\ Then("none")
  /\ deauthTx' = TRUE /\ timers' = timers \cup {"deauth"}
  /\ UNCHANGED <<pend, linkVars, userVars, joinVars, chVars, roam, mbox, scn,
                 chAsked, chHeld, grants, saa, events>>
  /\ KeepDraining

EnterRemain ==
  /\ Enter("REMAIN") /\ Then("none")
  /\ UNCHANGED <<pend, linkVars, userVars, joinVars, chVars, timers, roam, mbox,
                 scn, fwVars, saa, events>>
  /\ KeepDraining

Steps == EnterIdle \/ EnterSearch \/ EnterWait \/ EnterScan \/ EnterReqChannel
           \/ EnterJoin \/ EnterNormalTr \/ EnterDisconnecting \/ EnterRemain

-----------------------------------------------------------------------------
(* The handlers of the messages, in the order of the box. *)

Recv(names) == goto = "none" /\ mbox # <<>> /\ Head(mbox).m \in names

\* aisFsmRoamingScanResultsUpdate(): the state a scan ends in.
AfterScan(s) == IF roam = "DISCOVERY" \/ s = "LOOKING_FOR" THEN "SEARCH" ELSE "NORMAL_TR"
RoamAfterScan == roam' = IF roam = "DISCOVERY" THEN "ROAM" ELSE roam

\* aisFsmRunEventScanDone()
ScanDone ==
  /\ Recv({"SCAN_DONE"})
  /\ mbox' = Tail(mbox)
  /\ LET current == Head(mbox).age = 0 IN
     /\ timers' = IF current THEN timers \ {"scan"} ELSE timers
     /\ IF current /\ ais \in {"SCAN", "ONLINE_SCAN"}
          THEN scanReq' = FALSE ELSE UNCHANGED scanReq
     /\ IF current /\ ais \in {"ONLINE_SCAN", "LOOKING_FOR"}
          THEN RoamAfterScan /\ Then(AfterScan(ais))
          ELSE /\ UNCHANGED roam
               /\ Then(IF current /\ ais = "SCAN" THEN "IDLE" ELSE "none")
  /\ UNCHANGED <<ais, pend, linkVars, connReq, discNR, joinVars, chVars, scn,
                 fwVars, saa, events>>
  /\ StillDraining

\* aisFsmRunEventAbort(): a roaming request waits its turn, any other reason
\* breaks off what the state does.  While a deauthentication frame is under way
\* only the request to reconnect is noted.
Abort ==
  /\ Recv({"ABORT"})
  /\ LET r == Head(mbox).reason
         roaming == r = "ROAMING" /\ ais # "DISCONNECTING"
         p == PutOnce(pend, "RECONNECT")
     IN /\ joinOld' = FALSE
        /\ discNR' = (r = "DEAUTH")
        /\ IF roaming \/ ais = "DISCONNECTING"
             THEN /\ IF roaming /\ ais = "NORMAL_TR" /\ finished
                       THEN Then("SEARCH") /\ UNCHANGED pend
                       ELSE /\ Then("none")
                            /\ pend' = IF roaming
                                         THEN Append(NoRoaming(pend), "ROAMING_CONNECT")
                                         ELSE p
                  /\ mbox' = Tail(mbox)
                  /\ UNCHANGED <<linkVars, connReq, chVars, timers, roam, scn>>
             ELSE StateAbort(r, Head(mbox).delay, p, Tail(mbox), timers)
  /\ AbortKeeps
  /\ UNCHANGED deauthTx
  /\ StillDraining

\* aisFsmRunEventChGrant()
ChGrant ==
  /\ Recv({"CH_GRANT"})
  /\ LET mine == Head(mbox).age = 0
         join == mine /\ ais = "REQ_CHANNEL_JOIN"
         remain == mine /\ ais = "REQ_REMAIN"
     IN /\ IF join \/ remain
             THEN chGrant' = TRUE /\ UNCHANGED chReq /\ mbox' = Tail(mbox)
             ELSE ReleaseChFlags /\ mbox' = Tail(mbox) \o ChAbort
        /\ timers' = timers \cup (IF join THEN {"join"} ELSE {})
                            \cup (IF remain THEN {"ch"} ELSE {})
        /\ finished' = (finished /\ ~join)
        /\ Then(IF join THEN "JOIN" ELSE IF remain THEN "REMAIN" ELSE "none")
  /\ UNCHANGED <<ais, pend, linkVars, userVars, joinVars, roam, scn, fwVars, saa,
                 events>>
  /\ StillDraining

\* aisFsmRunEventRemainOnChannel()
Remain ==
  /\ Recv({"REMAIN"})
  /\ mbox' = Tail(mbox)
  /\ IF ais \in {"IDLE", "NORMAL_TR"} THEN Then("REQ_REMAIN") /\ UNCHANGED pend
     ELSE Then("none") /\ pend' = Append(pend, "REMAIN")
  /\ UNCHANGED <<ais, linkVars, userVars, joinVars, chVars, timers, roam, scn,
                 fwVars, saa, events>>
  /\ StillDraining

\* aisFsmRunEventCancelRemainOnChannel(), the cookie being that of the last
\* request: whatever the state, it is left for NORMAL_TR or IDLE.
CancelRemain ==
  /\ Recv({"CANCEL"})
  /\ IF ais \in {"REQ_REMAIN", "REMAIN"}
       THEN /\ ReleaseChFlags /\ mbox' = Tail(mbox) \o ChAbort
            /\ timers' = IF ais = "REMAIN" THEN timers \ {"ch"} ELSE timers
       ELSE mbox' = Tail(mbox) /\ UNCHANGED <<chReq, chGrant, timers>>
  /\ pend' = Without(pend, "REMAIN")
  /\ Then(IF conn THEN "NORMAL_TR" ELSE "IDLE")
  /\ UNCHANGED <<ais, linkVars, userVars, joinVars, finished, roam, scn, fwVars,
                 saa, events>>
  /\ StillDraining

\* scnFsmMsgStart(): the scan FSM holds the scan, module ScnFsm has the rest.
ScanStart ==
  /\ Recv({"SCAN_REQ"})
  /\ scn' = scn \cup {Head(mbox).age}
  /\ mbox' = Tail(mbox) /\ Then("none") /\ StillDraining
  /\ UNCHANGED <<ais, pend, linkVars, userVars, joinVars, chVars, timers,
                 roam, fwVars, saa, events>>

\* cnmChMngrRequestPrivilege() and cnmChMngrAbortPrivilege(): the command goes
\* to the firmware in the order of the messages.
ChPrivilege ==
  /\ Recv({"CH_REQ", "CH_ABORT"})
  /\ LET a == Head(mbox).age IN
     IF Head(mbox).m = "CH_REQ" THEN chAsked' = chAsked \cup {a} /\ UNCHANGED chHeld
     ELSE chAsked' = chAsked \ {a} /\ chHeld' = chHeld \ {a}
  /\ mbox' = Tail(mbox) /\ Then("none") /\ StillDraining
  /\ UNCHANGED <<ais, pend, linkVars, userVars, joinVars, chVars, timers,
                 roam, scn, grants, deauthTx, saa, events>>

\* saaFsmRunEventStart(), and saaFsmRunEventAbort(), which frees the record.
SaaStart ==
  /\ Recv({"JOIN_REQ"})
  /\ saa' = Head(mbox).age
  /\ mbox' = Tail(mbox) /\ Then("none") /\ StillDraining
  /\ UNCHANGED <<ais, pend, linkVars, userVars, joinVars, chVars, timers,
                 roam, scn, fwVars, events>>

SaaAbort ==
  /\ Recv({"SAA_ABORT"})
  /\ saa' = -1
  /\ apRec' = IF Head(mbox).sta = "AP" /\ apRec = "used" THEN "freed" ELSE apRec
  /\ mbox' = Tail(mbox) /\ Then("none") /\ StillDraining
  /\ UNCHANGED <<ais, pend, conn, target, reason, indicated, host, userVars,
                 joinVars, chVars, timers, roam, scn, fwVars, events>>

Handle == ScanDone \/ Abort \/ ChGrant \/ Remain \/ CancelRemain \/ ScanStart
            \/ ChPrivilege \/ SaaStart \/ SaaAbort

-----------------------------------------------------------------------------
(* Requests of the user, and events of the AP. *)

\* Interrupts, ioctls and timers are served between two rounds of the box.
Outside == /\ goto = "none" /\ ~draining
           /\ RocAnytime \/ \A i \in DOMAIN mbox : mbox[i].m # "CANCEL"
Event(kind) == Outside /\ kind \in Kinds /\ events > 0 /\ events' = events - 1
Send(msg) == mbox' = Append(mbox, msg)
AbortMsg(r, d) == [m |-> "ABORT", reason |-> r, delay |-> d]

\* wlanoidSetBssidListScanExt() and aisFsmScanRequest(): mtk_cfg80211_scan()
\* refuses a scan while one is not answered.
ScanMayBeAsked == ~scanReq

OsScan ==
  /\ Event("scan") /\ ScanMayBeAsked
  /\ scanReq' = TRUE /\ timers' = timers \cup {"scan"}
  /\ IF ais = "IDLE" \/ (ais = "NORMAL_TR" /\ finished)
       THEN Then(IF ais = "IDLE" THEN "SCAN" ELSE "ONLINE_SCAN") /\ UNCHANGED pend
       ELSE Then("none") /\ pend' = Append(pend, "SCAN")
  /\ UNCHANGED <<ais, linkVars, connReq, discNR, joinVars, chVars, roam, mbox,
                 draining, scn, fwVars, saa>>

\* wlanoidSetConnect(): the SSID and the BSSID may be those of the last
\* connection.  For another network the host is told at once.
Connect ==
  /\ Event("connect")
  /\ connReq' = TRUE
  /\ \E sameSsid, sameBssid \in BOOLEAN :
       LET again == host = "connected" /\ sameSsid IN
       /\ Send(AbortMsg(IF again /\ sameBssid THEN "REASSOC"
                        ELSE IF again THEN "ROAMING" ELSE "NEW",
                        sameSsid \/ sameBssid))
       /\ host' = IF host # "connected" \/ (sameSsid /\ ~sameBssid) THEN host
                  ELSE IF sameSsid THEN "to be told" ELSE "disconnected"
       /\ fails' = IF sameSsid THEN fails ELSE 0
  /\ UNCHANGED <<ais, goto, pend, conn, apRec, target, reason, indicated, discNR,
                 scanReq, tryScan, trial, joinOld, authLeft, chVars, timers, roam,
                 draining, scn, fwVars, saa>>

\* wlanoidSetDisassociate()
UserDisconnect ==
  /\ Event("disconnect")
  /\ connReq' = FALSE
  /\ Send(AbortMsg("NEW", FALSE))
  /\ host' = IF host = "connected" THEN "disconnected" ELSE host
  /\ UNCHANGED <<ais, goto, pend, conn, apRec, target, reason, indicated, discNR,
                 scanReq, joinVars, chVars, timers, roam, draining, scn, fwVars,
                 saa>>

\* saaFsmRunEventRxDeauth(), saaFsmRunEventRxDisassoc(): once for a record.
Deauth ==
  /\ Event("deauth")
  /\ (conn /\ apRec = "used") \/ saa # -1
  /\ AbortMsg("DEAUTH", FALSE) \notin ToSet(mbox)
  /\ Send(AbortMsg("DEAUTH", FALSE))
  /\ UNCHANGED <<ais, goto, pend, linkVars, userVars, joinVars, chVars, timers,
                 roam, draining, scn, fwVars, saa>>

\* aisBssBeaconTimeout(), aisBssSecurityChanged(), and nicCmdEventGetBSSInfo(),
\* the firmware being in another state, call aisFsmStateAbort() themselves.
LinkLost(kind, r, delay) ==
  /\ Event(kind)
  /\ StateAbort(r, delay, pend, mbox, timers)
  /\ UNCHANGED <<ais, scanReq, joinVars, draining, fwVars, saa>>

BeaconTimeout ==
  conn /\ apRec # "none" /\ LinkLost("beacon", "RADIO_LOST", TRUE) /\ UNCHANGED discNR
SecurityChanged == conn /\ LinkLost("security", "DEAUTH", FALSE) /\ discNR' = TRUE
BssInfoDiffers == LinkLost("mismatch", "RADIO_LOST", FALSE) /\ UNCHANGED discNR

\* roamingFsmRunEventDiscovery() and aisFsmRunEventRoamingDiscovery(): with
\* recent scan results it roams without a scan.
RoamingDiscovery ==
  /\ Event("roaming") /\ roam = "DECISION"
  /\ \E scan \in BOOLEAN :
       LET search == scan /\ ais \notin {"ONLINE_SCAN", "LOOKING_FOR"} IN
       /\ roam' = IF scan THEN "DISCOVERY" ELSE "ROAM"
       /\ IF ais = "NORMAL_TR" /\ finished
            THEN Then(IF search THEN "LOOKING_FOR" ELSE "SEARCH") /\ UNCHANGED pend
            ELSE /\ Then("none")
                 /\ pend' = Append(NoRoaming(pend), IF search THEN "ROAMING_SEARCH"
                                                    ELSE "ROAMING_CONNECT")
  /\ UNCHANGED <<ais, linkVars, userVars, joinVars, chVars, timers, mbox, draining,
                 scn, fwVars, saa>>

\* mtk_cfg80211_remain_on_channel() and .._cancel_remain_on_channel(): any time,
\* or only when no join is under way and while the channel is asked or held.
RocMsg(kind, name) ==
  /\ Event(kind) /\ Send([m |-> name])
  /\ UNCHANGED <<ais, goto, pend, linkVars, userVars, joinVars, chVars, timers,
                 roam, draining, scn, fwVars, saa>>
RemainOnChannel ==
  (RocAnytime \/ (finished /\ ais # "JOIN")) /\ RocMsg("remain", "REMAIN")
CancelRemainOnChannel ==
  (RocAnytime \/ (mbox = <<>> /\ ais \in {"REQ_REMAIN", "REMAIN"})) /\ RocMsg("cancel", "CANCEL")

User == OsScan \/ Connect \/ UserDisconnect \/ Deauth \/ BeaconTimeout
          \/ SecurityChanged \/ BssInfoDiffers \/ RoamingDiscovery
          \/ RemainOnChannel \/ CancelRemainOnChannel

-----------------------------------------------------------------------------
(* The services answer: scan FSM, firmware, auth/assoc FSM. *)

\* scnEventScanDone(), or a queued scan that is done in its turn.
ScanEnds ==
  /\ Outside
  /\ \E a \in scn : scn' = scn \ {a} /\ Send(Msg("SCAN_DONE", a))
  /\ UNCHANGED <<ais, goto, pend, linkVars, userVars, joinVars, chVars, timers,
                 roam, draining, fwVars, saa, events>>

\* The firmware gives the channel to a request; its event is read later by
\* cnmChMngrHandleChEvent().
FwGrants ==
  /\ goto = "none"
  /\ \E a \in chAsked :
       chAsked' = chAsked \ {a} /\ chHeld' = chHeld \cup {a} /\ grants' = grants \cup {a}
  /\ UNCHANGED <<ais, goto, pend, linkVars, userVars, joinVars, chVars, timers,
                 roam, mbox, draining, scn, deauthTx, saa, events>>

ChEvent ==
  /\ Outside
  /\ \E a \in grants : grants' = grants \ {a} /\ Send(Msg("CH_GRANT", a))
  /\ UNCHANGED <<ais, goto, pend, linkVars, userVars, joinVars, chVars, timers,
                 roam, draining, scn, chAsked, chHeld, deauthTx, saa, events>>

JoinEnds == Outside /\ saa = 0 /\ ais = "JOIN"

\* roamingFsmRunEventStart(): a connection by BSSID does not roam.
RoamStarts == roam' \in {roam, IF roam \in {"IDLE", "ROAM"} THEN "DECISION" ELSE roam}

\* aisFsmRunEventJoinComplete(), success: connected, or moved to another AP.
JoinSucceeds ==
  /\ JoinEnds
  /\ saa' = -1 /\ trial' = 0 /\ fails' = 0
  /\ conn' = TRUE /\ apRec' = "used" /\ target' = "AP"
  /\ indicated' = "connected" /\ host' = "connected"
  /\ timers' = timers \ {"disc"}
  /\ RoamStarts
  /\ Then("NORMAL_TR")
  /\ UNCHANGED <<ais, pend, reason, userVars, tryScan, joinOld, authLeft, chVars,
                 mbox, draining, scn, fwVars, events>>

\* Failure: the other authentication type is tried in the same channel.
JoinRetries ==
  /\ JoinEnds /\ authLeft
  /\ authLeft' = FALSE /\ saa' = -1
  /\ mbox' = Append(AgedBox({"JOIN_REQ"}), Msg("JOIN_REQ", 0))
  /\ UNCHANGED <<ais, goto, pend, linkVars, userVars, tryScan, trial, fails,
                 joinOld, chVars, timers, roam, draining, scn, fwVars, events>>

MoreFails == fails' = IF fails < MaxJoinFailure THEN fails + 1 ELSE fails

JoinFails ==
  /\ JoinEnds /\ ~authLeft
  /\ saa' = -1 /\ MoreFails
  /\ ReleaseChFlags /\ mbox' = mbox \o ChAbort
  /\ timers' = timers \ {"join"} /\ finished' = TRUE
  /\ Then(IF conn THEN "WAIT" ELSE "IDLE")
  /\ connReq' = (connReq /\ (conn \/ ~joinOld))
  /\ pend' = IF conn \/ joinOld THEN pend ELSE Append(pend, "RECONNECT")
  /\ UNCHANGED <<ais, linkVars, discNR, scanReq, tryScan, trial, joinOld, authLeft,
                 roam, draining, scn, fwVars, events>>

\* The answer to a join AIS no longer waits for.
JoinIgnored ==
  /\ Outside /\ saa # -1 /\ ~(saa = 0 /\ ais = "JOIN")
  /\ saa' = -1
  /\ UNCHANGED <<ais, goto, pend, linkVars, userVars, joinVars, chVars, timers,
                 roam, mbox, draining, scn, fwVars, events>>

\* aisDeauthXmitComplete(); a frame dropped in the driver leaves it to the timer.
Deauthenticated(t) ==
  IF ais = "DISCONNECTING" THEN StateAbort("NEW", FALSE, pend, mbox, t)
  ELSE /\ timers' = t
       /\ UNCHANGED <<goto, pend, linkVars, connReq, chVars, roam, mbox, scn>>

DeauthTxDone ==
  /\ Outside /\ deauthTx /\ deauthTx' = FALSE
  /\ \/ Deauthenticated(timers \ {"deauth"})
     \/ Deauthenticated(timers)
     \/ UNCHANGED <<goto, pend, linkVars, connReq, chVars, timers, roam, mbox, scn>>
  /\ UNCHANGED <<ais, discNR, scanReq, joinVars, draining, chAsked, chHeld, grants,
                 saa, events>>

-----------------------------------------------------------------------------
(* Timers; they run after the message box has been emptied. *)

Fires(t) == Outside /\ mbox = <<>> /\ t \in timers

\* aisFsmRunEventScanDoneTimeOut(): the OS is answered whatever the state.
ScanDoneTimeOut ==
  /\ Fires("scan")
  /\ timers' = timers \ {"scan"} /\ scanReq' = FALSE
  /\ scn' = scn \ {0} /\ mbox' = ScanCancelled
  /\ IF ais = "ONLINE_SCAN" THEN RoamAfterScan /\ Then(AfterScan(ais))
     ELSE UNCHANGED roam /\ Then(IF ais = "SCAN" THEN "IDLE" ELSE "none")
  /\ UNCHANGED <<ais, pend, linkVars, connReq, discNR, joinVars, chVars, draining,
                 fwVars, saa, events>>

\* aisFsmRunEventBGSleepTimeOut()
BgSleepTimeOut ==
  /\ Fires("bg")
  /\ timers' = timers \ {"bg"}
  /\ Then(IF ais = "WAIT" THEN "LOOKING_FOR" ELSE "none")
  /\ UNCHANGED <<ais, pend, linkVars, userVars, joinVars, chVars, roam, mbox,
                 draining, scn, fwVars, saa, events>>

\* aisFsmRunEventJoinTimeout() ends a join, or the time kept for the 4-way
\* handshake; of the requests that waited only a scan is served then.
JoinTimeout ==
  /\ Fires("join")
  /\ timers' = timers \ {"join"}
  /\ ReleaseChFlags
  /\ \/ /\ ais = "JOIN"
        /\ mbox' = JoinAbort /\ finished' = TRUE /\ connReq' = FALSE
        /\ MoreFails
        /\ Then(IF fails + 1 < MaxJoinFailure THEN "SEARCH"
                ELSE IF conn \/ ~joinOld THEN "WAIT" ELSE "IDLE")
        /\ UNCHANGED pend
     \/ /\ ais = "NORMAL_TR"
        /\ mbox' = ChAbort /\ finished' = TRUE
        /\ pend' = Without(pend, "SCAN")
        /\ Then(IF Pends(pend, "SCAN") THEN "ONLINE_SCAN" ELSE "none")
        /\ UNCHANGED <<connReq, fails>>
     \/ /\ ais \notin {"JOIN", "NORMAL_TR"}
        /\ mbox' = ChAbort /\ Then("none")
        /\ UNCHANGED <<finished, connReq, fails, pend>>
  /\ UNCHANGED <<ais, linkVars, discNR, scanReq, tryScan, trial, joinOld, authLeft,
                 roam, draining, scn, fwVars, saa, events>>

\* aisFsmRunEventDeauthTimeout()
DeauthTimeout ==
  /\ Fires("deauth")
  /\ Deauthenticated(timers \ {"deauth"})
  /\ UNCHANGED <<ais, discNR, scanReq, joinVars, draining, fwVars, saa, events>>

\* aisFsmRunEventChannelTimeout()
ChannelTimeout ==
  /\ Fires("ch")
  /\ timers' = timers \ {"ch"}
  /\ IF ais = "REMAIN"
       THEN ReleaseChFlags /\ mbox' = ChAbort /\ Then(IF conn THEN "NORMAL_TR" ELSE "IDLE")
       ELSE UNCHANGED <<chReq, chGrant, mbox>> /\ Then("none")
  /\ UNCHANGED <<ais, pend, linkVars, userVars, joinVars, finished, roam, draining,
                 scn, fwVars, saa, events>>

\* aisPostponedEventOfDisconnTimeout(): no connection has come back in time.
PostponedDisconn ==
  /\ Fires("disc")
  /\ apRec' = "none" /\ target' = "other" /\ discNR' = TRUE
  /\ pend' = Without(pend, "RECONNECT")
  /\ TellDisconnected(conn, FALSE, timers \ {"disc"})
  /\ UNCHANGED <<ais, goto, conn, reason, connReq, scanReq, joinVars, chVars, roam,
                 mbox, draining, scn, fwVars, saa, events>>

\* AIS_JOIN_TIMEOUT passes.
JoinReqGetsOld ==
  /\ ~joinOld /\ joinOld' = TRUE
  /\ UNCHANGED <<ais, goto, pend, linkVars, userVars, tryScan, trial, fails,
                 authLeft, chVars, timers, roam, mbox, draining, scn, fwVars, saa,
                 events>>

Answers == ScanEnds \/ FwGrants \/ ChEvent \/ JoinSucceeds \/ JoinRetries
             \/ JoinFails \/ JoinIgnored \/ DeauthTxDone
TimersFire == ScanDoneTimeOut \/ BgSleepTimeOut \/ JoinTimeout \/ DeauthTimeout
                \/ ChannelTimeout \/ PostponedDisconn \/ JoinReqGetsOld

Next == Steps \/ Handle \/ User \/ Answers \/ TimersFire

\* Just initialised, or connected with the handshake over.
Init ==
  /\ conn \in BOOLEAN
  /\ ais = IF conn THEN "NORMAL_TR" ELSE "IDLE"
  /\ apRec = IF conn THEN "used" ELSE "none"
  /\ target = IF conn THEN "AP" ELSE "other"
  /\ indicated = IF conn THEN "connected" ELSE "disconnected"
  /\ host = indicated /\ connReq = conn
  /\ roam = IF conn THEN "DECISION" ELSE "IDLE"
  /\ goto = "none" /\ pend = <<>> /\ mbox = <<>> /\ draining = FALSE
  /\ reason = "NEW" /\ discNR = FALSE /\ scanReq = FALSE
  /\ tryScan = FALSE /\ trial = 0 /\ fails = 0 /\ joinOld = FALSE
  /\ authLeft = FALSE /\ finished = TRUE /\ chReq = FALSE /\ chGrant = FALSE
  /\ timers = {} /\ scn = {} /\ saa = -1
  /\ chAsked = {} /\ chHeld = {} /\ grants = {} /\ deauthTx = FALSE
  /\ events = MaxEvents

\* The main thread goes on, the scan FSM and the firmware answer, timers fire.
\* An authentication or an association need never end.
Fairness ==
  /\ WF_vars(Steps \/ Handle)
  /\ WF_vars(ScanEnds) /\ WF_vars(FwGrants) /\ WF_vars(ChEvent)
  /\ WF_vars(ScanDoneTimeOut) /\ WF_vars(BgSleepTimeOut) /\ WF_vars(JoinTimeout)
  /\ WF_vars(DeauthTimeout) /\ WF_vars(ChannelTimeout) /\ WF_vars(PostponedDisconn)
  /\ WF_vars(JoinReqGetsOld)

Spec == Init /\ [][Next]_vars /\ Fairness

-----------------------------------------------------------------------------
(* Properties. *)

State == IF goto = "none" THEN ais ELSE goto
InBox(name, a) == Msg(name, a) \in ToSet(mbox)

\* Whatever channel the firmware was asked for or gave is the one AIS still
\* counts on, or is being given back.
ChannelReturned ==
  \A a \in chAsked \cup chHeld :
    (a = 0 /\ (chReq \/ chGrant)) \/ InBox("CH_ABORT", a)

ChannelInv == TypeOK /\ ChannelReturned

\* The auth/assoc FSM works for a join AIS is in, or is told to stop.
NoOrphanJoin ==
  saa # -1 => (saa = 0 /\ State = "JOIN") \/ \E i \in DOMAIN mbox : mbox[i].m \in {"SAA_ABORT", "JOIN_REQ"}

\* The time kept for a join and the 4-way handshake ends: its timer runs, or a
\* deauthentication that ends it is under way; meanwhile AIS stays on the channel.
WindowCloses ==
  ~finished => \/ State = "DISCONNECTING"
               \/ "join" \in timers /\ State \in {"JOIN", "NORMAL_TR"}

\* A join is supervised to its end, whatever crosses it: nobody works for one
\* that AIS has left, and what is kept for one that AIS is in ends.
JoinSupervised == NoOrphanJoin /\ WindowCloses

\* The OS takes the station for connected only while it is, or until the timer
\* of a postponed indication.
HostTold == host = "connected" /\ ~conn => "disc" \in timers

\* AIS does not sit on a channel: over and over it holds none.
ChannelFreed == []<>(chHeld = {})
=============================================================================
