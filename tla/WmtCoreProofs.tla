---------------------------- MODULE WmtCoreProofs ----------------------------
(***************************************************************************)
(* Theorems about WmtCore, for every number of retries and tries and with  *)
(* the counts unbounded: types, the powered chip under every function, the *)
(* supplies, the reason of a chip that stays powered for nobody, and what  *)
(* the functions share: the rail VCN28, the GPS LNA, the de-sense messages. *)
(***************************************************************************)
EXTENDS WmtCore, TLAPS

-----------------------------------------------------------------------------
(* The inductive invariant: types first.                                   *)

AllTypes == Funcs \cup {"WMT"}
States == {"OFF", "POWER_ON", "FUNC_ON"}

\* Only WMT itself is ever between off and on.
StsType ==
  /\ sts \in [AllTypes -> States]
  /\ \A f \in Funcs : sts[f] # "POWER_ON"
PcType == pc \in Labels /\ fn \in Drivers
PowerType == pwr \in BOOLEAN /\ open \in BOOLEAN /\ ready \in BOOLEAN
RailType == vcn18 \in Nat /\ vcn28 \in Nat /\ vcn33 \in Nat
ConfType == conf \in [coClock : BOOLEAN, hostLna : BOOLEAN]
ShareType ==
  /\ gpsFm \subseteq {"GPS", "FM"} /\ radios \subseteq {"BT", "WIFI", "GPS"}
  /\ lna \in BOOLEAN /\ desense \in BOOLEAN /\ offFlag \in BOOLEAN
GhostType ==
  /\ railLeft \subseteq {"GPS", "FM"} /\ radioLeft \subseteq {"BT", "WIFI", "GPS"}
  /\ cold \in BOOLEAN /\ forgot \in BOOLEAN /\ gpsFailed \in BOOLEAN
  /\ why \in {"", "reset", "refused", "irq"}

\* The retry counter of a power-on goes below -1 only as the op ends.
Retries ==
  /\ retry \in -2..PwrRetry
  /\ pc \in {"pwr_on", "stp_init", "undo"} => retry >= -1
\* A reset in progress has a try left.
Tries ==
  /\ tries \in 0..RstRetry /\ nReset \in 0..MaxReset
  /\ pc \in {"hw_rst", "sw_rst", "rst_fail"} => tries > 0

\* WMT's own state follows the chip's power and the link, and is FUNC_ON under
\* every function that is on and during the command that turns one on or off.
ChipUnder ==
  /\ sts["WMT"] # "OFF" => pwr
  /\ sts["WMT"] = "FUNC_ON" => open /\ ready
  /\ (\E f \in Funcs : On(f)) => sts["WMT"] = "FUNC_ON"
  /\ pc \in {"func_on", "func_off"} => sts["WMT"] = "FUNC_ON"
  /\ pc \in {"stp_init", "undo", "sw_rst"} => sts["WMT"] = "POWER_ON"

\* The function of an op in progress has not changed its state yet.
InProgress ==
  /\ pc \in {"pwr_on", "stp_init", "undo", "func_on"} => ~On(fn)
  /\ pc = "func_off" => On(fn)

\* The supplies, at every step: the chip's, BT's, and VCN28 of a chip that does
\* not share its clock.
Vcn18Counted == vcn18 = IF pwr THEN 1 ELSE 0
Vcn33Counted == vcn33 = IF On("BT") THEN 1 ELSE 0
Vcn28Counted == ~conf.coClock => vcn28 = vcn18

\* A chip powered for nobody has a reason, also at the power-on that then
\* finds it powered.
Reason ==
  /\ pc = "idle" /\ tries = 0 /\ AllOff /\ pwr => why # ""
  /\ pc = "pwr_on" /\ sts["WMT"] # "OFF" => why # ""

Inv ==
  /\ StsType /\ PcType /\ PowerType /\ RailType /\ ConfType /\ ShareType /\ GhostType
  /\ Retries /\ Tries /\ ChipUnder /\ InProgress
  /\ Vcn18Counted /\ Vcn33Counted /\ Vcn28Counted /\ Reason

-----------------------------------------------------------------------------
(* Every step keeps the invariant: one lemma per action, one step per part. *)

LEMMA FuncOnInv == ASSUME Inv, NEW f \in Drivers, FuncOn(f) PROVE Inv'
<1>1. pc = "idle" /\ tries = 0 /\ UNCHANGED <<sts, pwr, why, tries>>
  BY DEF FuncOn, rstVars, ghostVars, leftVars
<1>2. pc' = IF On("WMT") THEN "func_on" ELSE "pwr_on"
  BY DEF FuncOn
<1>3. ~On("WMT") => AllOff
  BY DEF AllOff, On, Inv, ChipUnder, StsType, AllTypes, States, Funcs, Drivers
<1>4. StsType' /\ PcType' /\ PowerType'
  BY DEF Inv, StsType, PcType, PowerType, Labels, FuncOn, linkVars
<1>5. RailType' /\ ConfType'
  BY DEF Inv, RailType, ConfType, FuncOn, railVars
<1>6. ShareType' /\ GhostType'
  BY DEF Inv, ShareType, GhostType, Tell, RadioStays, Forget, FuncOn, shareVars, vcn28Users, airUsers, ghostVars, leftVars
<1>7. Retries'
  BY WmtCoreAssumption DEF Inv, Retries, FuncOn
<1>8. Tries'
  BY DEF Inv, Tries, FuncOn, rstVars
<1>9. ChipUnder' /\ InProgress'
  BY DEF Inv, ChipUnder, InProgress, On, FuncOn, linkVars
<1>10. Vcn18Counted' /\ Vcn33Counted' /\ Vcn28Counted'
  BY DEF Inv, Vcn18Counted, Vcn33Counted, Vcn28Counted, On, FuncOn, railVars
<1>11. Reason'
  BY <1>1, <1>2 DEF Inv, Reason, StsType, AllTypes, States, On, AllOff,
     ChipUnder
<1> QED  BY <1>4, <1>5, <1>6, <1>7, <1>8, <1>9, <1>10, <1>11 DEF Inv

LEMMA FuncOffInv == ASSUME Inv, NEW f \in Drivers, FuncOff(f) PROVE Inv'
<1>1. StsType' /\ PcType' /\ PowerType'
  BY DEF Inv, StsType, PcType, PowerType, Labels, FuncOff, linkVars
<1>2. RailType' /\ ConfType'
  BY DEF Inv, RailType, ConfType, FuncOff, railVars
<1>3. ShareType' /\ GhostType'
  BY DEF Inv, ShareType, GhostType, Tell, RadioStays, Forget, FuncOff, shareVars, vcn28Users, airUsers, ghostVars, leftVars
<1>4. Retries'
  BY DEF Inv, Retries, FuncOff
<1>5. Tries'
  BY DEF Inv, Tries, FuncOff, rstVars
<1>6. ChipUnder' /\ InProgress'
  BY DEF Inv, ChipUnder, InProgress, Funcs, On, FuncOff, linkVars
<1>7. Vcn18Counted' /\ Vcn33Counted' /\ Vcn28Counted'
  BY DEF Inv, Vcn18Counted, Vcn33Counted, Vcn28Counted, On, FuncOff, railVars
<1>8. Reason'
  BY DEF Inv, Reason, FuncOff
<1> QED  BY <1>1, <1>2, <1>3, <1>4, <1>5, <1>6, <1>7, <1>8 DEF Inv

LEMMA AlreadyPoweredInv == ASSUME Inv, AlreadyPowered PROVE Inv'
<1>1. StsType' /\ PcType' /\ PowerType'
  BY DEF Inv, StsType, PcType, PowerType, Labels, AlreadyPowered, linkVars
<1>2. RailType' /\ ConfType'
  BY DEF Inv, RailType, ConfType, AlreadyPowered, railVars
<1>3. ShareType' /\ GhostType'
  BY DEF Inv, ShareType, GhostType, Tell, RadioStays, Forget, AlreadyPowered, shareVars, vcn28Users, airUsers, ghostVars, leftVars
<1>4. Retries'
  BY DEF Inv, Retries, AlreadyPowered
<1>5. Tries'
  BY DEF Inv, Tries, AlreadyPowered, rstVars
<1>6. ChipUnder' /\ InProgress'
  BY DEF Inv, ChipUnder, InProgress, On, AlreadyPowered, linkVars
<1>7. Vcn18Counted' /\ Vcn33Counted' /\ Vcn28Counted'
  BY DEF Inv, Vcn18Counted, Vcn33Counted, Vcn28Counted, On, AlreadyPowered,
     railVars
<1>8. Reason'
  BY DEF Inv, Reason, AlreadyPowered, ghostVars, leftVars
<1> QED  BY <1>1, <1>2, <1>3, <1>4, <1>5, <1>6, <1>7, <1>8 DEF Inv

LEMMA PwrOnInv == ASSUME Inv, PwrOn PROVE Inv'
<1>1. StsType' /\ PcType' /\ PowerType'
  BY DEF Inv, StsType, PcType, PowerType, AllTypes, States, Funcs, Drivers,
     Labels, PwrOn, HwPwrOn, hwVars, Status, linkVars
<1>2. RailType' /\ ConfType'
  BY DEF Inv, RailType, ConfType, PwrOn, HwPwrOn, hwVars
<1>3. ShareType' /\ GhostType'
  BY DEF Inv, ShareType, GhostType, Tell, RadioStays, Forget, leftVars, PwrOn, shareVars, vcn28Users, airUsers
<1>4. Retries'
  BY WmtCoreAssumption DEF Inv, Retries, PwrOn, PwrOnAgain
<1>5. Tries'
  BY DEF Inv, Tries, PwrOn, rstVars
<1>6. ChipUnder' /\ InProgress'
  BY DEF Inv, ChipUnder, InProgress, StsType, AllTypes, Funcs, On, PcType,
     PwrOn, HwPwrOn, hwVars, Status
<1>7. Vcn18Counted' /\ Vcn33Counted' /\ Vcn28Counted'
  BY DEF Inv, Vcn18Counted, Vcn33Counted, Vcn28Counted, StsType, AllTypes,
     Funcs, Drivers, On, PwrOn, HwPwrOn, hwVars, Status
<1>8. Reason'
  BY DEF Inv, Reason, PcType, PwrOn
<1> QED  BY <1>1, <1>2, <1>3, <1>4, <1>5, <1>6, <1>7, <1>8 DEF Inv

LEMMA StpInitOkInv == ASSUME Inv, StpInitOk PROVE Inv'
<1>1. StsType' /\ PcType' /\ PowerType'
  BY DEF Inv, StsType, PcType, PowerType, AllTypes, States, Labels,
     StpInitOk, Status
<1>2. RailType' /\ ConfType'
  BY DEF Inv, RailType, ConfType, StpInitOk, railVars
<1>3. ShareType' /\ GhostType'
  BY DEF Inv, ShareType, GhostType, Tell, RadioStays, Forget, leftVars, StpInitOk, shareVars, vcn28Users, airUsers
<1>4. Retries'
  BY DEF Inv, Retries, StpInitOk
<1>5. Tries'
  BY WmtCoreAssumption DEF Inv, Tries, StpInitOk
<1>6. ChipUnder' /\ InProgress'
  BY DEF Inv, ChipUnder, InProgress, StsType, AllTypes, Funcs, On, PcType,
     StpInitOk, Status
<1>7. Vcn18Counted' /\ Vcn33Counted' /\ Vcn28Counted'
  BY DEF Inv, Vcn18Counted, Vcn33Counted, Vcn28Counted, On, StpInitOk,
     Status, railVars
<1>8. Reason'
  BY DEF Inv, Reason, StpInitOk
<1> QED  BY <1>1, <1>2, <1>3, <1>4, <1>5, <1>6, <1>7, <1>8 DEF Inv

LEMMA StpInitFailsInv == ASSUME Inv, StpInitFails PROVE Inv'
<1>1. StsType' /\ PcType' /\ PowerType'
  BY DEF Inv, StsType, PcType, PowerType, Labels, StpInitFails, linkVars
<1>2. RailType' /\ ConfType'
  BY DEF Inv, RailType, ConfType, StpInitFails, railVars
<1>3. ShareType' /\ GhostType'
  BY DEF Inv, ShareType, GhostType, Tell, RadioStays, Forget, StpInitFails, shareVars, vcn28Users, airUsers, ghostVars, leftVars
<1>4. Retries'
  BY DEF Inv, Retries, StpInitFails
<1>5. Tries'
  BY DEF Inv, Tries, StpInitFails, rstVars
<1>6. ChipUnder' /\ InProgress'
  BY DEF Inv, ChipUnder, InProgress, On, StpInitFails
<1>7. Vcn18Counted' /\ Vcn33Counted' /\ Vcn28Counted'
  BY DEF Inv, Vcn18Counted, Vcn33Counted, Vcn28Counted, On, StpInitFails,
     railVars
<1>8. Reason'
  BY DEF Inv, Reason, StpInitFails
<1> QED  BY <1>1, <1>2, <1>3, <1>4, <1>5, <1>6, <1>7, <1>8 DEF Inv

LEMMA UndoPwrOnInv == ASSUME Inv, UndoPwrOn PROVE Inv'
<1>1. StsType' /\ PcType' /\ PowerType'
  BY DEF Inv, StsType, PcType, PowerType, AllTypes, States, Labels,
     UndoPwrOn, StpDeinit, HwPwrOff, hwVars, Status
<1>2. RailType' /\ ConfType'
  BY DEF Inv, RailType, ConfType, UndoPwrOn, HwPwrOff, Disabled, hwVars
<1>3. ShareType' /\ GhostType'
  BY DEF Inv, ShareType, GhostType, Tell, RadioStays, Forget, UndoPwrOn, shareVars, vcn28Users, airUsers, ghostVars, leftVars
<1>4. Retries'
  BY WmtCoreAssumption DEF Inv, Retries, UndoPwrOn
<1>5. Tries'
  BY DEF Inv, Tries, UndoPwrOn, rstVars
<1>6. ChipUnder' /\ InProgress'
  BY DEF Inv, ChipUnder, InProgress, StsType, AllTypes, On, UndoPwrOn, Status
<1>7. Vcn18Counted' /\ Vcn33Counted' /\ Vcn28Counted'
  BY DEF Inv, Vcn18Counted, Vcn33Counted, Vcn28Counted, ChipUnder, On,
     UndoPwrOn, HwPwrOff, Disabled, Status
<1>8. Reason'
  BY DEF Inv, Reason, StsType, AllTypes, ChipUnder, UndoPwrOn, HwPwrOff,
     Status
<1> QED  BY <1>1, <1>2, <1>3, <1>4, <1>5, <1>6, <1>7, <1>8 DEF Inv

LEMMA PowerDownInv == ASSUME Inv, PowerDown PROVE Inv'
<1>1. pc' = "idle" /\ UNCHANGED <<conf, vcn33, tries>>
  BY DEF PowerDown, rstVars
<1>2. \/ UNCHANGED <<pwr, vcn18, vcn28, open, ready, sts>>
      \/ /\ AllOff /\ sts["WMT"] # "OFF" /\ HwPwrOff
        /\ sts' = [sts EXCEPT !["WMT"] = "OFF"]
  BY DEF PowerDown, LastUserGone, PwrOff, PwrOffRefused, Status, hwVars,
     linkVars
<1>3. ASSUME UNCHANGED <<pwr, vcn18, vcn28, open, ready, sts>>
      PROVE  /\ RailType' /\ ChipUnder' /\ InProgress'
             /\ Vcn18Counted' /\ Vcn33Counted' /\ Vcn28Counted'
  <2>1. RailType' /\ ChipUnder' /\ InProgress'
    BY <1>1, <1>3 DEF Inv, RailType, ChipUnder, InProgress, On
  <2>2. Vcn18Counted'
    BY <1>3 DEF Inv, Vcn18Counted
  <2>3. Vcn33Counted' /\ Vcn28Counted'
    BY <1>1, <1>3 DEF Inv, Vcn33Counted, Vcn28Counted, On
  <2>4. QED  BY <2>1, <2>2, <2>3
<1>4. ASSUME AllOff, sts["WMT"] # "OFF", HwPwrOff, sts' = [sts EXCEPT !["WMT"] = "OFF"]
      PROVE  /\ RailType' /\ ChipUnder' /\ InProgress'
             /\ Vcn18Counted' /\ Vcn33Counted' /\ Vcn28Counted'
  <2>1. pwr' = FALSE /\ vcn18' = Disabled(vcn18) /\ vcn28' = Disabled(vcn28)
    BY <1>4 DEF HwPwrOff, Inv, ChipUnder
  <2>2. \A n \in Nat : Disabled(n) \in Nat
    BY DEF Disabled
  <2>3. RailType'
    BY <1>1, <2>1, <2>2 DEF Inv, RailType
  <2>4. sts'["WMT"] = "OFF" /\ \A f \in Funcs : sts'[f] = "OFF"
    BY <1>4 DEF Inv, StsType, AllOff, AllTypes, Funcs, Drivers
  <2>5. ChipUnder' /\ InProgress'
    BY <1>1, <2>4 DEF ChipUnder, InProgress, On
  <2>6. vcn18' = 0
    BY <1>4, <2>1 DEF Inv, Vcn18Counted, ChipUnder, Disabled
  <2>7. Vcn18Counted'
    BY <2>1, <2>6 DEF Vcn18Counted
  <2>8. vcn33' = 0
    BY <1>1, <1>4 DEF Inv, Vcn33Counted, AllOff, On, Funcs, Drivers
  <2>9. Vcn33Counted'
    BY <2>4, <2>8 DEF Vcn33Counted, On, Funcs, Drivers
  <2>10. ~conf.coClock => vcn28' = 0
    BY <1>4, <2>1 DEF Inv, Vcn18Counted, Vcn28Counted, ChipUnder, Disabled
  <2>11. Vcn28Counted'
    BY <1>1, <2>6, <2>10 DEF Vcn28Counted
  <2>12. QED  BY <2>3, <2>5, <2>7, <2>9, <2>11
<1>5. StsType' /\ PcType' /\ PowerType'
  BY DEF Inv, StsType, PcType, PowerType, AllTypes, States, Labels,
     PowerDown, PwrOff, hwVars, linkVars, StpDeinit, HwPwrOff, Status
<1>6. RailType' /\ ConfType'
  BY <1>1, <1>2, <1>4 DEF Inv, RailType, ConfType
<1>7. ShareType' /\ GhostType'
  BY DEF Inv, ShareType, GhostType, Tell, RadioStays, Forget, airUsers, vcn28Users, leftVars, PowerDown, PwrOff
<1>8. Retries'
  BY DEF Inv, Retries, PowerDown
<1>9. Tries'
  BY DEF Inv, Tries, PowerDown, rstVars
<1>10. ChipUnder' /\ InProgress'
  BY <1>2, <1>3, <1>4 DEF Inv, ChipUnder, InProgress
<1>11. Vcn18Counted' /\ Vcn33Counted' /\ Vcn28Counted'
  BY <1>2, <1>3, <1>4 DEF Inv, Vcn18Counted, Vcn33Counted, Vcn28Counted
<1>12. Reason'
  BY DEF Inv, Reason, AllOff, ChipUnder, PowerDown, LastUserGone, PwrOff,
     PwrOffRefused, HwPwrOff
<1> QED  BY <1>5, <1>6, <1>7, <1>8, <1>9, <1>10, <1>11, <1>12 DEF Inv

LEMMA BtOnInv == ASSUME Inv, BtOn PROVE Inv'
<1>1. /\ pc = "func_on" /\ fn = "BT" /\ pc' \in {"idle", "failed"}
     /\ UNCHANGED <<fn, conf, pwr, vcn18, vcn28, open, ready>>
  BY DEF BtOn, Started, FuncOnEnds, linkVars
<1>2. \/ vcn33' = vcn33 + 1 /\ sts' = [sts EXCEPT !["BT"] = "FUNC_ON"]
      \/ vcn33' = vcn33 /\ sts' = [sts EXCEPT !["COREDUMP"] = "FUNC_ON"]
  BY DEF BtOn, Status
<1>3. StsType' /\ PcType' /\ PowerType'
  BY DEF Inv, StsType, PcType, PowerType, AllTypes, States, Labels, BtOn,
     Status, FuncOnEnds, linkVars
<1>4. RailType' /\ ConfType'
  BY <1>1, <1>2 DEF Inv, RailType, ConfType
<1>5. ShareType' /\ GhostType'
  BY DEF Inv, ShareType, GhostType, Tell, RadioStays, Forget, airUsers, vcn28Users, leftVars, BtOn, RadioOn, FuncOnEnds, CommandEnds
<1>6. Retries'
  BY DEF Inv, Retries, BtOn, FuncOnEnds
<1>7. Tries'
  BY DEF Inv, Tries, BtOn, FuncOnEnds, rstVars
<1>8. ChipUnder' /\ InProgress'
  BY DEF Inv, ChipUnder, InProgress, StsType, AllTypes, BtOn, Started,
     Status, FuncOnEnds, linkVars
<1>9. Vcn18Counted' /\ Vcn33Counted' /\ Vcn28Counted'
  BY <1>1, <1>2 DEF Inv, Vcn18Counted, Vcn33Counted, Vcn28Counted, StsType,
     AllTypes, Funcs, Drivers, On, InProgress
<1>10. Reason'
  BY DEF Inv, Reason, StsType, AllTypes, Funcs, Drivers, AllOff, BtOn,
     Status, FuncOnEnds
<1> QED  BY <1>3, <1>4, <1>5, <1>6, <1>7, <1>8, <1>9, <1>10 DEF Inv

LEMMA GpsOnInv == ASSUME Inv, GpsOn PROVE Inv'
<1>1. /\ pc = "func_on" /\ fn = "GPS" /\ pc' \in {"idle", "failed"}
     /\ UNCHANGED <<fn, conf, pwr, vcn18, vcn33, open, ready>>
  BY DEF GpsOn, Started, FuncOnEnds, linkVars
<1>2. sts' = sts \/ sts' = [sts EXCEPT !["GPS"] = "FUNC_ON"]
  BY DEF GpsOn, Status
<1>3. vcn28' = vcn28 \/ vcn28' = vcn28 + 1
  BY DEF GpsOn, Vcn28On
<1>4. StsType' /\ PcType' /\ PowerType'
  BY DEF Inv, StsType, PcType, PowerType, AllTypes, States, Labels, GpsOn,
     Status, FuncOnEnds, linkVars
<1>5. RailType' /\ ConfType'
  BY <1>1, <1>3 DEF Inv, RailType, ConfType
<1>6. ShareType' /\ GhostType'
  BY DEF Inv, ShareType, GhostType, Tell, RadioStays, Forget, airUsers, vcn28Users, leftVars, ConfType, GpsOn, RadioOn, Vcn28Used,
     FuncOnEnds, CommandEnds
<1>7. Retries'
  BY DEF Inv, Retries, GpsOn, FuncOnEnds
<1>8. Tries'
  BY DEF Inv, Tries, GpsOn, FuncOnEnds, rstVars
<1>9. ChipUnder' /\ InProgress'
  BY <1>1, <1>2 DEF Inv, ChipUnder, InProgress, StsType, AllTypes
<1>10. Vcn18Counted' /\ Vcn33Counted' /\ Vcn28Counted'
  BY DEF Inv, Vcn18Counted, Vcn33Counted, Vcn28Counted, ChipUnder, StsType,
     AllTypes, Funcs, Drivers, On, GpsOn, Started, Vcn28On, UsesVcn28,
     Status, FuncOnEnds
<1>11. Reason'
  BY DEF Inv, Reason, StsType, AllTypes, Funcs, Drivers, AllOff, GpsOn,
     Status, FuncOnEnds
<1> QED  BY <1>4, <1>5, <1>6, <1>7, <1>8, <1>9, <1>10, <1>11 DEF Inv

LEMMA FmOnInv == ASSUME Inv, FmOn PROVE Inv'
<1>1. /\ pc = "func_on" /\ fn = "FM" /\ pc' \in {"idle", "failed"}
     /\ UNCHANGED <<fn, conf, pwr, vcn18, vcn33, open, ready>>
  BY DEF FmOn, Started, FuncOnEnds, linkVars
<1>2. sts' = sts \/ sts' = [sts EXCEPT !["FM"] = "FUNC_ON"]
  BY DEF FmOn, Status
<1>3. vcn28' = vcn28 \/ vcn28' = vcn28 + 1
  BY DEF FmOn, Vcn28On
<1>4. StsType' /\ PcType' /\ PowerType'
  BY DEF Inv, StsType, PcType, PowerType, AllTypes, States, Labels, FmOn,
     Status, FuncOnEnds, linkVars
<1>5. RailType' /\ ConfType'
  BY <1>1, <1>3 DEF Inv, RailType, ConfType
<1>6. ShareType' /\ GhostType'
  BY DEF Inv, ShareType, GhostType, Tell, RadioStays, Forget, airUsers, vcn28Users, leftVars, FmOn, Vcn28Used, FuncOnEnds, CommandEnds
<1>7. Retries'
  BY DEF Inv, Retries, FmOn, FuncOnEnds
<1>8. Tries'
  BY DEF Inv, Tries, FmOn, FuncOnEnds, rstVars
<1>9. ChipUnder' /\ InProgress'
  BY <1>1, <1>2 DEF Inv, ChipUnder, InProgress, StsType, AllTypes
<1>10. Vcn18Counted' /\ Vcn33Counted' /\ Vcn28Counted'
  BY DEF Inv, Vcn18Counted, Vcn33Counted, Vcn28Counted, ChipUnder, StsType,
     AllTypes, Funcs, Drivers, On, FmOn, Started, Vcn28On, UsesVcn28, Status,
     FuncOnEnds
<1>11. Reason'
  BY DEF Inv, Reason, StsType, AllTypes, Funcs, Drivers, AllOff, FmOn,
     Status, FuncOnEnds
<1> QED  BY <1>4, <1>5, <1>6, <1>7, <1>8, <1>9, <1>10, <1>11 DEF Inv

LEMMA WifiOnInv == ASSUME Inv, WifiOn PROVE Inv'
<1>1. /\ pc = "func_on" /\ fn = "WIFI" /\ pc' \in {"idle", "failed"}
     /\ UNCHANGED <<fn, pwr, open, ready>>
  BY DEF WifiOn, Started, FuncOnEnds, linkVars
<1>2. sts' = sts \/ sts' = [sts EXCEPT !["WIFI"] = "FUNC_ON"]
  BY DEF WifiOn, Status
<1>3. StsType' /\ PcType' /\ PowerType'
  BY DEF Inv, StsType, PcType, PowerType, AllTypes, States, Labels, WifiOn,
     Status, FuncOnEnds, linkVars
<1>4. RailType' /\ ConfType'
  BY DEF Inv, RailType, ConfType, WifiOn, FuncOnEnds
<1>5. ShareType' /\ GhostType'
  BY DEF Inv, ShareType, GhostType, Tell, RadioStays, Forget, airUsers, vcn28Users, leftVars, WifiOn, RadioOn, FuncOnEnds, CommandEnds
<1>6. Retries'
  BY DEF Inv, Retries, WifiOn, FuncOnEnds
<1>7. Tries'
  BY DEF Inv, Tries, WifiOn, FuncOnEnds, rstVars
<1>8. ChipUnder' /\ InProgress'
  BY <1>1, <1>2 DEF Inv, ChipUnder, InProgress, StsType, AllTypes
<1>9. Vcn18Counted' /\ Vcn33Counted' /\ Vcn28Counted'
  BY DEF Inv, Vcn18Counted, Vcn33Counted, Vcn28Counted, ChipUnder, StsType,
     AllTypes, Funcs, Drivers, On, WifiOn, Started, Status, FuncOnEnds
<1>10. Reason'
  BY DEF Inv, Reason, StsType, AllTypes, Funcs, Drivers, AllOff, WifiOn,
     Status, FuncOnEnds
<1> QED  BY <1>3, <1>4, <1>5, <1>6, <1>7, <1>8, <1>9, <1>10 DEF Inv

LEMMA LpbkOnInv == ASSUME Inv, LpbkOn PROVE Inv'
<1>1. StsType' /\ PcType' /\ PowerType'
  BY DEF Inv, StsType, PcType, PowerType, AllTypes, States, Labels, LpbkOn,
     Status, FuncOnEnds, linkVars
<1>2. RailType' /\ ConfType'
  BY DEF Inv, RailType, ConfType, LpbkOn, FuncOnEnds
<1>3. ShareType' /\ GhostType'
  BY DEF Inv, ShareType, GhostType, Tell, RadioStays, Forget, leftVars, LpbkOn, FuncOnEnds, CommandEnds, shareVars, vcn28Users, airUsers
<1>4. Retries'
  BY DEF Inv, Retries, LpbkOn, FuncOnEnds
<1>5. Tries'
  BY DEF Inv, Tries, LpbkOn, FuncOnEnds, rstVars
<1>6. ChipUnder' /\ InProgress'
  BY DEF Inv, ChipUnder, InProgress, StsType, AllTypes, LpbkOn, Started,
     Status, FuncOnEnds, linkVars
<1>7. Vcn18Counted' /\ Vcn33Counted' /\ Vcn28Counted'
  BY DEF Inv, Vcn18Counted, Vcn33Counted, Vcn28Counted, StsType, AllTypes,
     Funcs, Drivers, On, LpbkOn, Status, FuncOnEnds
<1>8. Reason'
  BY DEF Inv, Reason, StsType, AllTypes, Funcs, Drivers, AllOff, LpbkOn,
     Status, FuncOnEnds
<1> QED  BY <1>1, <1>2, <1>3, <1>4, <1>5, <1>6, <1>7, <1>8 DEF Inv

LEMMA BtOffInv == ASSUME Inv, BtOff PROVE Inv'
<1>1. /\ pc = "func_off" /\ fn = "BT" /\ vcn33' = Disabled(vcn33)
     /\ UNCHANGED <<conf, pwr, vcn18, vcn28>>
  BY DEF BtOff, Stopped, FuncOffEnds
<1>2. \/ sts' = [sts EXCEPT !["BT"] = "OFF"]
      \/ sts' = [sts EXCEPT !["BT"] = "OFF", !["COREDUMP"] = "FUNC_ON"]
  BY DEF BtOff, Status
<1>3. StsType' /\ PcType' /\ PowerType'
  BY DEF Inv, StsType, PcType, PowerType, AllTypes, States, Labels, BtOff,
     Status, FuncOffEnds, linkVars
<1>4. RailType' /\ ConfType'
  BY <1>1 DEF Inv, RailType, ConfType, Disabled
<1>5. ShareType' /\ GhostType'
  BY DEF Inv, ShareType, GhostType, Tell, RadioStays, Forget, airUsers, vcn28Users, leftVars, BtOff, RadioOff, FuncOffEnds, CommandEnds
<1>6. Retries'
  BY DEF Inv, Retries, BtOff, FuncOffEnds
<1>7. Tries'
  BY DEF Inv, Tries, BtOff, FuncOffEnds, rstVars
<1>8. ChipUnder' /\ InProgress'
  BY DEF Inv, ChipUnder, InProgress, StsType, AllTypes, PcType, PowerType,
     BtOff, Stopped, Disabled, RadioOff, Status, FuncOffEnds, CommandEnds, linkVars,
     rstVars
<1>9. Vcn18Counted' /\ Vcn33Counted' /\ Vcn28Counted'
  BY <1>1, <1>2 DEF Inv, Vcn18Counted, Vcn33Counted, Vcn28Counted, StsType,
     AllTypes, Funcs, Drivers, On, Disabled
<1>10. Reason'
  BY DEF Inv, Reason, BtOff, FuncOffEnds
<1> QED  BY <1>3, <1>4, <1>5, <1>6, <1>7, <1>8, <1>9, <1>10 DEF Inv

LEMMA GpsOffInv == ASSUME Inv, GpsOff PROVE Inv'
<1>1. /\ pc = "func_off" /\ fn = "GPS" /\ pc' = "off"
     /\ UNCHANGED <<fn, conf, pwr, vcn18, vcn33, open, ready>>
  BY DEF GpsOff, Stopped, FuncOffEnds, linkVars
<1>2. sts' = [sts EXCEPT !["GPS"] = "OFF"]
  BY DEF GpsOff, Status
<1>3. vcn28' \in {vcn28, Disabled(vcn28)}
  BY DEF GpsOff, Vcn28Off
<1>4. ~conf.coClock => vcn28' = vcn28
  BY DEF GpsOff, Vcn28Off, UsesVcn28
<1>5. StsType' /\ PcType' /\ PowerType'
  BY DEF Inv, StsType, PcType, PowerType, AllTypes, States, Labels, GpsOff,
     Status, FuncOffEnds, linkVars
<1>6. RailType' /\ ConfType'
<2>1. Disabled(vcn28) \in Nat
    BY DEF Disabled, Inv, RailType
  <2>2. QED  BY <1>1, <1>3, <2>1 DEF Inv, RailType, ConfType
<1>7. ShareType' /\ GhostType'
  BY DEF Inv, ShareType, GhostType, Tell, RadioStays, Forget, airUsers, vcn28Users, leftVars, GpsOff, Vcn28Off, FuncOffEnds, CommandEnds
<1>8. Retries'
  BY DEF Inv, Retries, GpsOff, FuncOffEnds
<1>9. Tries'
  BY DEF Inv, Tries, GpsOff, FuncOffEnds, rstVars
<1>10. ChipUnder' /\ InProgress'
  BY <1>1, <1>2 DEF Inv, ChipUnder, InProgress
<1>11. Vcn18Counted' /\ Vcn33Counted' /\ Vcn28Counted'
  BY <1>1, <1>2, <1>4 DEF Inv, Vcn18Counted, Vcn33Counted, Vcn28Counted, On
<1>12. Reason'
  BY DEF Inv, Reason, GpsOff, FuncOffEnds
<1> QED  BY <1>5, <1>6, <1>7, <1>8, <1>9, <1>10, <1>11, <1>12 DEF Inv

LEMMA FmOffInv == ASSUME Inv, FmOff PROVE Inv'
<1>1. StsType' /\ PcType' /\ PowerType'
  BY DEF Inv, StsType, PcType, PowerType, AllTypes, States, Labels, FmOff,
     Status, FuncOffEnds, linkVars
<1>2. RailType' /\ ConfType'
  BY DEF Inv, RailType, ConfType, FmOff, Vcn28Off, Disabled, FuncOffEnds
<1>3. ShareType' /\ GhostType'
  BY DEF Inv, ShareType, GhostType, Tell, RadioStays, Forget, airUsers, vcn28Users, leftVars, FmOff, Vcn28Off, FuncOffEnds, CommandEnds
<1>4. Retries'
  BY DEF Inv, Retries, FmOff, FuncOffEnds
<1>5. Tries'
  BY DEF Inv, Tries, FmOff, FuncOffEnds, rstVars
<1>6. ChipUnder' /\ InProgress'
  BY DEF Inv, ChipUnder, InProgress, On, FmOff, Status, FuncOffEnds, linkVars
<1>7. Vcn18Counted' /\ Vcn33Counted' /\ Vcn28Counted'
  BY DEF Inv, Vcn18Counted, Vcn33Counted, Vcn28Counted, On, FmOff, Vcn28Off,
     UsesVcn28, Status, FuncOffEnds
<1>8. Reason'
  BY DEF Inv, Reason, FmOff, FuncOffEnds
<1> QED  BY <1>1, <1>2, <1>3, <1>4, <1>5, <1>6, <1>7, <1>8 DEF Inv

LEMMA WifiOffInv == ASSUME Inv, WifiOff PROVE Inv'
<1>1. StsType' /\ PcType' /\ PowerType'
  BY DEF Inv, StsType, PcType, PowerType, AllTypes, States, Labels, WifiOff,
     Status, FuncOffEnds, linkVars
<1>2. RailType' /\ ConfType'
  BY DEF Inv, RailType, ConfType, WifiOff, FuncOffEnds
<1>3. ShareType' /\ GhostType'
  BY DEF Inv, ShareType, GhostType, Tell, RadioStays, Forget, airUsers, vcn28Users, leftVars, WifiOff, RadioOff, FuncOffEnds, CommandEnds
<1>4. Retries'
  BY DEF Inv, Retries, WifiOff, FuncOffEnds
<1>5. Tries'
  BY DEF Inv, Tries, WifiOff, FuncOffEnds, rstVars
<1>6. ChipUnder' /\ InProgress'
  BY DEF Inv, ChipUnder, InProgress, StsType, AllTypes, WifiOff, Stopped,
     Status, FuncOffEnds, linkVars
<1>7. Vcn18Counted' /\ Vcn33Counted' /\ Vcn28Counted'
  BY DEF Inv, Vcn18Counted, Vcn33Counted, Vcn28Counted, ChipUnder, StsType,
     AllTypes, Funcs, Drivers, On, WifiOff, Stopped, Status, FuncOffEnds
<1>8. Reason'
  BY DEF Inv, Reason, WifiOff, FuncOffEnds
<1> QED  BY <1>1, <1>2, <1>3, <1>4, <1>5, <1>6, <1>7, <1>8 DEF Inv

LEMMA LpbkOffInv == ASSUME Inv, LpbkOff PROVE Inv'
<1>1. StsType' /\ PcType' /\ PowerType'
  BY DEF Inv, StsType, PcType, PowerType, AllTypes, States, Labels, LpbkOff,
     Status, FuncOffEnds, linkVars
<1>2. RailType' /\ ConfType'
  BY DEF Inv, RailType, ConfType, LpbkOff, FuncOffEnds
<1>3. ShareType' /\ GhostType'
  BY DEF Inv, ShareType, GhostType, Tell, RadioStays, Forget, leftVars, LpbkOff, FuncOffEnds, CommandEnds, shareVars, vcn28Users, airUsers
<1>4. Retries'
  BY DEF Inv, Retries, LpbkOff, FuncOffEnds
<1>5. Tries'
  BY DEF Inv, Tries, LpbkOff, FuncOffEnds, rstVars
<1>6. ChipUnder' /\ InProgress'
  BY DEF Inv, ChipUnder, InProgress, On, LpbkOff, Status, FuncOffEnds,
     linkVars
<1>7. Vcn18Counted' /\ Vcn33Counted' /\ Vcn28Counted'
  BY DEF Inv, Vcn18Counted, Vcn33Counted, Vcn28Counted, On, LpbkOff, Status,
     FuncOffEnds
<1>8. Reason'
  BY DEF Inv, Reason, LpbkOff, FuncOffEnds
<1> QED  BY <1>1, <1>2, <1>3, <1>4, <1>5, <1>6, <1>7, <1>8 DEF Inv

LEMMA ResetInv == ASSUME Inv, Reset PROVE Inv'
<1>1. StsType' /\ PcType' /\ PowerType'
  BY DEF Inv, StsType, PcType, PowerType, Labels, Reset, linkVars
<1>2. RailType' /\ ConfType'
  BY DEF Inv, RailType, ConfType, Reset, railVars
<1>3. ShareType' /\ GhostType'
  BY DEF Inv, ShareType, GhostType, Tell, RadioStays, Forget, Reset, shareVars, vcn28Users, airUsers, ghostVars, leftVars
<1>4. Retries'
  BY DEF Inv, Retries, Reset
<1>5. Tries'
  BY WmtCoreAssumption DEF Inv, Tries, Reset
<1>6. ChipUnder' /\ InProgress'
  BY DEF Inv, ChipUnder, InProgress, On, Reset, linkVars
<1>7. Vcn18Counted' /\ Vcn33Counted' /\ Vcn28Counted'
  BY DEF Inv, Vcn18Counted, Vcn33Counted, Vcn28Counted, On, Reset, railVars
<1>8. Reason'
  BY DEF Inv, Reason, Reset
<1> QED  BY <1>1, <1>2, <1>3, <1>4, <1>5, <1>6, <1>7, <1>8 DEF Inv

LEMMA HwRstPowerFailsInv == ASSUME Inv, HwRstPowerFails PROVE Inv'
<1>1. StsType' /\ PcType' /\ PowerType'
  BY DEF Inv, StsType, PcType, PowerType, AllTypes, Labels, HwRstPowerFails,
     HwPwrOn, linkVars
<1>2. RailType' /\ ConfType'
  BY DEF Inv, RailType, ConfType, HwRstPowerFails, HwPwrOn
<1>3. ShareType' /\ GhostType'
  BY DEF Inv, ShareType, GhostType, Tell, RadioStays, Forget, airUsers, vcn28Users, HwRstPowerFails, LnaAfterReset, ghostVars, leftVars
<1>4. Retries'
  BY DEF Inv, Retries, HwRstPowerFails
<1>5. Tries'
  BY DEF Inv, Tries, HwRstPowerFails, rstVars
<1>6. ChipUnder' /\ InProgress'
  BY DEF Inv, ChipUnder, InProgress, StsType, AllTypes, On, HwRstPowerFails
<1>7. Vcn18Counted' /\ Vcn33Counted' /\ Vcn28Counted'
  BY DEF Inv, Vcn18Counted, Vcn33Counted, Vcn28Counted, ChipUnder, StsType,
     AllTypes, States, On, HwRstPowerFails, HwPwrOn
<1>8. Reason'
  BY DEF Inv, Reason, HwRstPowerFails
<1> QED  BY <1>1, <1>2, <1>3, <1>4, <1>5, <1>6, <1>7, <1>8 DEF Inv

LEMMA HwRstInv == ASSUME Inv, HwRst PROVE Inv'
<1>1. StsType' /\ PcType' /\ PowerType'
  BY DEF Inv, StsType, PcType, PowerType, AllTypes, States, Funcs, Drivers,
     Labels, HwRst, HwPwrOn, hwVars
<1>2. RailType' /\ ConfType'
  BY DEF Inv, RailType, ConfType, HwRst, HwPwrOn, hwVars, Disabled
<1>3. ShareType' /\ GhostType'
  BY DEF Inv, ShareType, GhostType, Tell, RadioStays, Forget, airUsers, vcn28Users, leftVars, HwRst, LnaAfterReset, RadioOff
<1>4. Retries'
  BY DEF Inv, Retries, HwRst
<1>5. Tries'
  BY DEF Inv, Tries, HwRst, rstVars
<1>6. ChipUnder' /\ InProgress'
  BY DEF Inv, ChipUnder, InProgress, StsType, AllTypes, On, HwRst, HwPwrOn,
     hwVars, HwRstClears
<1>7. Vcn18Counted' /\ Vcn33Counted' /\ Vcn28Counted'
  BY DEF Inv, Vcn18Counted, Vcn33Counted, Vcn28Counted, StsType, AllTypes,
     Funcs, Drivers, On, HwRst, HwPwrOn, hwVars, Disabled, HwRstClears
<1>8. Reason'
  BY DEF Inv, Reason, HwRst
<1> QED  BY <1>1, <1>2, <1>3, <1>4, <1>5, <1>6, <1>7, <1>8 DEF Inv

LEMMA RstFailInv == ASSUME Inv, RstFail PROVE Inv'
<1>1. StsType' /\ PcType' /\ PowerType'
  BY DEF Inv, StsType, PcType, PowerType, Labels, RstFail, linkVars
<1>2. RailType' /\ ConfType'
  BY DEF Inv, RailType, ConfType, RstFail, railVars
<1>3. ShareType' /\ GhostType'
  BY DEF Inv, ShareType, GhostType, Tell, RadioStays, Forget, leftVars, RstFail, shareVars, vcn28Users, airUsers
<1>4. Retries'
  BY DEF Inv, Retries, RstFail
<1>5. Tries'
  BY WmtCoreAssumption DEF Inv, Tries, RstFail
<1>6. ChipUnder' /\ InProgress'
  BY DEF Inv, ChipUnder, InProgress, On, RstFail, linkVars
<1>7. Vcn18Counted' /\ Vcn33Counted' /\ Vcn28Counted'
  BY DEF Inv, Vcn18Counted, Vcn33Counted, Vcn28Counted, On, RstFail, railVars
<1>8. Reason'
  BY DEF Inv, Reason, RstFail
<1> QED  BY <1>1, <1>2, <1>3, <1>4, <1>5, <1>6, <1>7, <1>8 DEF Inv

-----------------------------------------------------------------------------
(* The theorems.                                                           *)

LEMMA InvStarts == Init => Inv
<1> SUFFICES ASSUME Init PROVE Inv
  OBVIOUS
<1>1. StsType /\ PcType /\ PowerType /\ RailType
  BY DEF Init, StsType, PcType, PowerType, RailType, AllTypes, States, Labels,
     Funcs, Drivers
<1>2. ConfType /\ ShareType /\ GhostType
  BY DEF Init, ConfType, ShareType, GhostType, Tell, RadioStays, Forget, airUsers, vcn28Users, leftVars
<1>3. Retries /\ Tries
  <2>1. 0 \in -2..PwrRetry /\ 0 \in 0..RstRetry /\ 0 \in 0..MaxReset
    BY WmtCoreAssumption
  <2> QED
    BY <2>1 DEF Init, Retries, Tries
<1>4. ChipUnder /\ InProgress /\ Reason
  BY DEF Init, ChipUnder, InProgress, Reason, On, Funcs, Drivers
<1>5. Vcn18Counted /\ Vcn33Counted /\ Vcn28Counted
  BY DEF Init, Vcn18Counted, Vcn33Counted, Vcn28Counted, On, Funcs, Drivers
<1> QED
  BY <1>1, <1>2, <1>3, <1>4, <1>5 DEF Inv

LEMMA InvStutters == ASSUME Inv, UNCHANGED vars PROVE Inv'
<1>1. StsType' /\ PcType' /\ PowerType' /\ RailType'
  BY DEF Inv, StsType, PcType, PowerType, RailType, vars, railVars, linkVars
<1>2. ConfType' /\ ShareType' /\ GhostType'
  BY DEF Inv, ConfType, ShareType, GhostType, Tell, RadioStays, Forget, vars, shareVars, vcn28Users, airUsers, ghostVars, leftVars
<1>3. Retries' /\ Tries'
  BY DEF Inv, Retries, Tries, vars, rstVars
<1>4. ChipUnder' /\ InProgress' /\ Reason'
  BY DEF Inv, ChipUnder, InProgress, Reason, On, AllOff, vars, linkVars, rstVars,
     ghostVars, leftVars
<1>5. Vcn18Counted' /\ Vcn33Counted' /\ Vcn28Counted'
  BY DEF Inv, Vcn18Counted, Vcn33Counted, Vcn28Counted, On, vars, railVars
<1> QED
  BY <1>1, <1>2, <1>3, <1>4, <1>5 DEF Inv

LEMMA InvSteps == Inv /\ [Next]_vars => Inv'
  BY InvStutters, FuncOnInv, FuncOffInv, AlreadyPoweredInv, PwrOnInv,
     StpInitOkInv, StpInitFailsInv, UndoPwrOnInv, PowerDownInv, BtOnInv,
     GpsOnInv, FmOnInv, WifiOnInv, LpbkOnInv, BtOffInv, GpsOffInv, FmOffInv,
     WifiOffInv, LpbkOffInv, ResetInv, HwRstPowerFailsInv, HwRstInv,
     RstFailInv DEF Next

LEMMA InvHolds == Spec => []Inv
BY InvStarts, InvSteps, PTL DEF Spec

\* Every reachable state is well typed, for all numbers of retries and tries;
\* the supplies' enable counts, for one, are never below zero.
THEOREM TypeCorrect == Spec => []TypeOK
<1>1. Inv => TypeOK
  <2> SUFFICES ASSUME Inv PROVE TypeOK
    OBVIOUS
  <2>1. sts \in [Funcs \cup {"WMT"} -> {"OFF", "POWER_ON", "FUNC_ON"}]
    BY DEF Inv, StsType, AllTypes, States
  <2>2. pwr \in BOOLEAN /\ {vcn18, vcn28, vcn33} \subseteq Nat
    BY DEF Inv, PowerType, RailType
  <2>3. {lna, desense, offFlag, open, ready, cold, forgot, gpsFailed} \subseteq BOOLEAN
    BY DEF Inv, PowerType, ShareType, GhostType, Tell, RadioStays, Forget, airUsers, vcn28Users, leftVars
  <2>4. pc \in Labels /\ fn \in Funcs
    BY DEF Inv, PcType, Funcs
  <2>5. retry \in -2..PwrRetry /\ tries \in 0..RstRetry /\ nReset \in 0..MaxReset
    BY DEF Inv, Retries, Tries
  <2> QED
    BY <2>1, <2>2, <2>3, <2>4, <2>5 DEF Inv, ConfType, ShareType, GhostType, Tell, RadioStays, Forget, airUsers, vcn28Users, leftVars, TypeOK
<1> QED
  BY <1>1, InvHolds, PTL

\* A function that is on has a powered chip and a ready link under it, whatever
\* failed or was reset before, in any order and any number of times.
THEOREM ChipUnderFunctions == Spec => []FunctionsNeedChip
<1>1. Inv => FunctionsNeedChip
  BY DEF Inv, ChipUnder, FunctionsNeedChip, On
<1> QED
  BY <1>1, InvHolds, PTL

\* A chip that stays powered with no function on has one of the three reasons.
THEOREM PoweredForAReason == Spec => []ChipOffWhenUnused
<1>1. Inv => ChipOffWhenUnused
  BY DEF Inv, Reason, ChipOffWhenUnused, Quiet
<1> QED
  BY <1>1, InvHolds, PTL

\* The enable counts of the supplies follow the chip's power and BT.
THEOREM SuppliesCounted == Spec => []SuppliesMatch
<1>1. Inv => SuppliesMatch
  BY DEF Inv, Vcn18Counted, Vcn33Counted, Vcn28Counted, SuppliesMatch
<1> QED
  BY <1>1, InvHolds, PTL

-----------------------------------------------------------------------------
(* What the functions share: a second invariant, on top of Inv.            *)

\* gGpsFmState names the users of VCN28 that are on and those a reset ended, and
\* VCN28 is on for the former, unless the first of them relied on a bit of the
\* latter.
Vcn28Users == {"GPS", "FM"}
UserOn(f) == On(f) /\ UsesVcn28(f)
RailUsers ==
  /\ \A f \in Vcn28Users : f \in gpsFm <=> UserOn(f) \/ f \in railLeft
  /\ \A f \in railLeft : ~On(f) /\ UsesVcn28(f)
  /\ (\E f \in Vcn28Users : UserOn(f)) => (vcn28 > 0 <=> ~cold)
  /\ cold => (\E f \in Vcn28Users : UserOn(f)) /\ conf.coClock /\ conf.hostLna

\* The LNA follows GPS, once its last command has succeeded.
LnaDriven == ~gpsFailed => (lna <=> On("GPS") /\ conf.hostLna)

\* gBtWifiGpsState names the radios that are on and those a failed off or a reset
\* left, and the GPS daemon was told what the bits say, unless they were
\* forgotten since.
Neighbours == "GPS" \in radios /\ radios \cap {"BT", "WIFI"} # {}
RadiosOn ==
  /\ \A f \in Radios : f \in radios <=> On(f) \/ f \in radioLeft
  /\ \A f \in radioLeft : ~On(f)
  /\ desense <=> forgot \/ Neighbours

ShareInv == RailUsers /\ LnaDriven /\ RadiosOn

-----------------------------------------------------------------------------
(* Every step keeps it: one lemma per kind of action.                      *)

\* A step that turns no function on or off and leaves the shared state alone.
LEMMA SameShare ==
  ASSUME Inv, ShareInv, UNCHANGED <<conf, shareVars, leftVars>>,
         \A f \in Funcs : On(f)' <=> On(f),
         vcn28' = vcn28 \/ \A f \in Funcs : ~On(f)
  PROVE  ShareInv'
<1>1. /\ UNCHANGED <<conf, gpsFm, radios, desense, lna>>
      /\ UNCHANGED <<railLeft, cold, radioLeft, forgot, gpsFailed>>
  BY DEF shareVars, leftVars
<1>2. RailUsers'
  <2>1. railLeft \subseteq Vcn28Users /\ Vcn28Users \subseteq Funcs
    BY DEF Inv, GhostType, Vcn28Users, Funcs, Drivers
  <2>2. \A f \in Vcn28Users : (UsesVcn28(f)' <=> UsesVcn28(f)) /\ (UserOn(f)' <=> UserOn(f))
    BY <1>1, <2>1 DEF UserOn, UsesVcn28
  <2>3. \A f \in railLeft' : ~On(f)' /\ UsesVcn28(f)'
    BY <1>1, <2>1, <2>2 DEF ShareInv, RailUsers
  <2>4. (\E f \in Vcn28Users : UserOn(f)') => vcn28' = vcn28
    BY <2>1, <2>2 DEF UserOn
  <2> QED  BY <1>1, <2>2, <2>3, <2>4 DEF ShareInv, RailUsers
<1>3. LnaDriven'
  BY <1>1 DEF ShareInv, LnaDriven, Funcs, Drivers
<1>4. RadiosOn'
  <2>1. radioLeft \subseteq Radios /\ Radios \subseteq Funcs
    BY DEF Inv, GhostType, Radios, Funcs, Drivers
  <2>2. Neighbours' <=> Neighbours
    BY <1>1 DEF Neighbours
  <2> QED  BY <1>1, <2>1, <2>2 DEF ShareInv, RadiosOn
<1> QED  BY <1>2, <1>3, <1>4 DEF ShareInv

\* The steps of that kind: the bracket of an op and the power-up of the chip.
LEMMA BracketShare ==
  ASSUME Inv, ShareInv,
         \/ \E f \in Drivers : FuncOn(f) \/ FuncOff(f)
         \/ AlreadyPowered \/ StpInitFails \/ Reset \/ RstFail \/ UNCHANGED vars
  PROVE  ShareInv'
<1>1. UNCHANGED <<conf, shareVars, leftVars>> /\ sts' = sts /\ vcn28' = vcn28
  BY DEF FuncOn, FuncOff, AlreadyPowered, StpInitFails, Reset, RstFail, vars, ghostVars,
     railVars
<1>2. \A f \in Funcs : On(f)' <=> On(f)
  BY <1>1 DEF On
<1> QED  BY <1>1, <1>2, SameShare

LEMMA PowerUpShare ==
  ASSUME Inv, ShareInv, PwrOn \/ StpInitOk \/ UndoPwrOn
  PROVE  ShareInv'
<1>1. UNCHANGED <<conf, shareVars, leftVars>>
  BY DEF PwrOn, StpInitOk, UndoPwrOn, ghostVars
<1>2. \/ sts' = sts
      \/ \E s \in {"OFF", "POWER_ON", "FUNC_ON"} : sts' = [sts EXCEPT !["WMT"] = s]
  BY DEF PwrOn, StpInitOk, UndoPwrOn, Status
<1>3. \A f \in Funcs : On(f)' <=> On(f)
  BY <1>2 DEF On, Inv, StsType, AllTypes, Funcs, Drivers
<1>4. vcn28' = vcn28 \/ \A f \in Funcs : ~On(f)
  <2>1. CASE StpInitOk
    BY <2>1 DEF StpInitOk, railVars
  <2>2. CASE PwrOn \/ UndoPwrOn
    BY <2>2 DEF PwrOn, UndoPwrOn, Inv, ChipUnder
  <2> QED  BY <2>1, <2>2
<1> QED  BY <1>1, <1>3, <1>4, SameShare

\* The last user gone, no function is on before and after; a failed function on
\* forgets all bits.
LEMMA PowerDownShare == ASSUME Inv, ShareInv, PowerDown PROVE ShareInv'
<1>1. CASE ~LastUserGone
  <2>1. UNCHANGED <<conf, shareVars, leftVars>> /\ sts' = sts /\ vcn28' = vcn28
    BY <1>1 DEF PowerDown, shareVars, leftVars, hwVars
  <2>2. \A f \in Funcs : On(f)' <=> On(f)
    BY <2>1 DEF On
  <2> QED  BY <2>1, <2>2, SameShare
<1>2. CASE LastUserGone
  <2>1. /\ \A f \in Funcs : ~On(f)
        /\ \A f \in Funcs : ~On(f)'
    BY <1>2 DEF PowerDown, LastUserGone, AllOff, On, PwrOff, Status, Inv, StsType, AllTypes,
       Funcs, Drivers
  <2>2. UNCHANGED <<conf, lna, desense, cold, gpsFailed>>
    BY DEF PowerDown
  <2>3. CASE pc = "failed"
    <3>1. Forget
      BY <1>2, <2>3 DEF PowerDown
    <3>2. RailUsers'
      BY <2>1, <2>2, <3>1 DEF ShareInv, RailUsers, UserOn, Vcn28Users, Forget, Funcs, Drivers
    <3>3. LnaDriven'
      BY <2>1, <2>2 DEF ShareInv, LnaDriven, Funcs, Drivers
    <3>4. RadiosOn'
      BY <2>1, <2>2, <3>1 DEF ShareInv, RadiosOn, Radios, Neighbours, Forget, Funcs, Drivers
    <3> QED  BY <3>2, <3>3, <3>4 DEF ShareInv
  <2>4. CASE pc # "failed"
    <3>1. UNCHANGED <<conf, shareVars, leftVars>>
      BY <1>2, <2>4, <2>2 DEF PowerDown, shareVars, leftVars
    <3> QED  BY <2>1, <3>1, SameShare
  <2> QED  BY <2>3, <2>4
<1> QED  BY <1>1, <1>2

\* A radio that goes on: its bit is set, and the GPS daemon is told if the bits
\* now name GPS and a neighbour.
LEMMA RadioGoesOn ==
  ASSUME Inv, ShareInv, NEW f \in Radios, NEW others,
         others = IF f = "GPS" THEN {"BT", "WIFI"} ELSE {"GPS"},
         RadioOn(f, others), sts' = [sts EXCEPT ![f] = "FUNC_ON"]
  PROVE  RadiosOn'
<1>1. \A g \in Radios : On(g)' <=> (On(g) \/ g = f)
  BY DEF On, Radios, Inv, StsType, AllTypes, Funcs, Drivers
<1>2. radios' = radios \cup {f} /\ radioLeft' = radioLeft \ {f}
  BY DEF RadioOn
<1>3. radioLeft \subseteq Radios /\ radios \subseteq Radios
  BY DEF Inv, GhostType, ShareType, Radios
<1>4. /\ \A g \in Radios : g \in radios' <=> (On(g)' \/ g \in radioLeft')
      /\ \A g \in radioLeft' : ~On(g)'
  BY <1>1, <1>2, <1>3 DEF ShareInv, RadiosOn
<1>5. desense' <=> forgot' \/ Neighbours'
  <2>1. CASE radios \cap others # {}
    BY <2>1, <1>2 DEF RadioOn, Tell, Neighbours, Radios
  <2>2. CASE radios \cap others = {}
    BY <2>2, <1>2 DEF RadioOn, Neighbours, Radios, ShareInv, RadiosOn
  <2> QED  BY <2>1, <2>2
<1> QED  BY <1>4, <1>5 DEF RadiosOn

\* A radio whose command to go on fails is off as before.
LEMMA RadioStaysOff ==
  ASSUME Inv, ShareInv, UNCHANGED airUsers, \A g \in Radios : On(g)' <=> On(g)
  PROVE  RadiosOn'
<1>1. UNCHANGED <<radios, desense, radioLeft, forgot>> /\ radioLeft \subseteq Radios
  BY DEF airUsers, Inv, GhostType, Radios
<1>2. Neighbours' <=> Neighbours
  BY <1>1 DEF Neighbours
<1> QED  BY <1>1, <1>2 DEF ShareInv, RadiosOn

\* A radio that goes off: its bit is cleared and the GPS daemon told, or it is
\* left.
LEMMA RadioGoesOff ==
  ASSUME Inv, ShareInv, NEW f \in Radios, On(f),
         \/ /\ radios' = radios \ {f} /\ UNCHANGED radioLeft
            /\ IF f = "GPS" THEN IF radios \cap {"BT", "WIFI"} # {}
                                   THEN Tell(FALSE) ELSE UNCHANGED <<desense, forgot>>
               ELSE IF "GPS" \in radios /\ radios \cap ({"BT", "WIFI"} \ {f}) = {}
                      THEN Tell(FALSE) ELSE UNCHANGED <<desense, forgot>>
         \/ RadioStays(f),
         \A g \in Radios : On(g)' <=> (On(g) /\ g # f)
  PROVE  RadiosOn'
<1>1. radioLeft \subseteq Radios /\ radios \subseteq Radios
  BY DEF Inv, GhostType, ShareType, Radios
<1>2. CASE RadioStays(f)
  BY <1>1, <1>2 DEF RadioStays, ShareInv, RadiosOn, Neighbours
<1>3. CASE /\ radios' = radios \ {f} /\ UNCHANGED radioLeft
           /\ IF f = "GPS" THEN IF radios \cap {"BT", "WIFI"} # {}
                                  THEN Tell(FALSE) ELSE UNCHANGED <<desense, forgot>>
              ELSE IF "GPS" \in radios /\ radios \cap ({"BT", "WIFI"} \ {f}) = {}
                     THEN Tell(FALSE) ELSE UNCHANGED <<desense, forgot>>
  <2>1. /\ \A g \in Radios : g \in radios' <=> (On(g)' \/ g \in radioLeft')
        /\ \A g \in radioLeft' : ~On(g)'
    BY <1>1, <1>3 DEF ShareInv, RadiosOn
  <2>2. f \in radios
    BY DEF ShareInv, RadiosOn
  <2>3. desense' <=> forgot' \/ Neighbours'
    BY <1>3, <2>2 DEF Tell, Neighbours, Radios, ShareInv, RadiosOn
  <2> QED  BY <2>1, <2>3 DEF RadiosOn
<1> QED  BY <1>2, <1>3

\* The rail at the on of one of its users: taken from the other, or turned on.
LEMMA RailOn ==
  ASSUME Inv, ShareInv, NEW f \in Vcn28Users, ~On(f), conf' = conf, Vcn28On(f),
         \/ Vcn28Used(f) /\ sts' = [sts EXCEPT ![f] = "FUNC_ON"]
         \/ UNCHANGED <<vcn28Users, sts>>
  PROVE  RailUsers'
<1> DEFINE o == OtherUser(f)
<1>1. o \in Vcn28Users /\ o # f /\ Vcn28Users = {f, o}
  BY DEF OtherUser, Vcn28Users
<1>2. \A g \in Vcn28Users : UsesVcn28(g)' <=> UsesVcn28(g)
  BY DEF UsesVcn28
<1>3. vcn28 \in Nat /\ railLeft \subseteq Vcn28Users /\ gpsFm \subseteq Vcn28Users
  BY DEF Inv, RailType, GhostType, ShareType, Vcn28Users
<1>4. ~UserOn(f)
  BY DEF UserOn
<1>5. CASE UNCHANGED <<vcn28Users, sts>>
  <2>1. \A g \in Vcn28Users : UserOn(g)' <=> UserOn(g)
    BY <1>2, <1>5 DEF UserOn, On
  <2>2. \A g \in Vcn28Users : On(g)' <=> On(g)
    BY <1>5 DEF On
  <2>3. UserOn(o) => vcn28' = vcn28
    BY <1>1 DEF Vcn28On, ShareInv, RailUsers
  <2>4. UNCHANGED vcn28Users
    BY <1>5
  <2>5. \A g \in railLeft' : ~On(g)' /\ UsesVcn28(g)'
    BY <1>2, <1>3, <2>2, <2>4 DEF vcn28Users, ShareInv, RailUsers
  <2>6. (\E g \in Vcn28Users : UserOn(g)') => (vcn28' > 0 <=> ~cold')
    BY <1>1, <1>4, <2>1, <2>3, <2>4 DEF vcn28Users, ShareInv, RailUsers
  <2> QED  BY <2>1, <2>4, <2>5, <2>6 DEF vcn28Users, ShareInv, RailUsers
<1>6. CASE Vcn28Used(f) /\ sts' = [sts EXCEPT ![f] = "FUNC_ON"]
  <2>1. On(f)' /\ (On(o)' <=> On(o))
    BY <1>1, <1>6 DEF On, Vcn28Users, Inv, StsType, AllTypes, Funcs, Drivers
  <2>2. (UserOn(f)' <=> UsesVcn28(f)) /\ (UserOn(o)' <=> UserOn(o))
    BY <1>1, <1>2, <2>1 DEF UserOn
  <2>3. f \notin gpsFm => f \notin railLeft
    BY DEF ShareInv, RailUsers
  <2>4. CASE ~UsesVcn28(f)
    <3>1. UNCHANGED <<vcn28, gpsFm, railLeft, cold>>
      BY <1>6, <2>4 DEF Vcn28Used, Vcn28On, vcn28Users
    <3>2. f \notin railLeft
      BY <2>4 DEF ShareInv, RailUsers
    <3> QED  BY <1>1, <1>2, <1>3, <1>4, <2>1, <2>2, <2>4, <3>1, <3>2 DEF ShareInv, RailUsers
  <2>5. CASE UsesVcn28(f)
    <3>1. /\ gpsFm' = gpsFm \cup {f} /\ railLeft' = railLeft \ {f}
          /\ cold' = (cold \/ (vcn28 = 0 /\ o \in railLeft))
      BY <1>6, <2>5 DEF Vcn28Used
    <3>2. vcn28' = IF o \notin gpsFm THEN vcn28 + 1 ELSE vcn28
      BY <2>5 DEF Vcn28On
    <3>3. vcn28' > 0 <=> ~cold'
      <4>1. CASE UserOn(o)
        BY <1>1, <3>1, <3>2, <4>1 DEF ShareInv, RailUsers, UserOn
      <4>2. CASE ~UserOn(o)
        <5>1. ~cold
          BY <1>1, <1>4, <4>2 DEF ShareInv, RailUsers
        <5>2. o \in gpsFm <=> o \in railLeft
          BY <1>1, <4>2 DEF ShareInv, RailUsers
        <5>3. CASE o \in railLeft
          <6>1. vcn28' = vcn28 /\ (cold' <=> vcn28 = 0)
            BY <3>1, <3>2, <5>1, <5>2, <5>3
          <6> QED  BY <1>3, <6>1
        <5>4. CASE o \notin railLeft
          <6>1. vcn28' = vcn28 + 1 /\ ~cold'
            BY <3>1, <3>2, <5>1, <5>2, <5>4
          <6> QED  BY <1>3, <6>1
        <5> QED  BY <5>3, <5>4
      <4> QED  BY <4>1, <4>2
    <3>4. \A g \in Vcn28Users : g \in gpsFm' <=> (UserOn(g)' \/ g \in railLeft')
      BY <1>1, <2>2, <2>5, <3>1 DEF ShareInv, RailUsers
    <3>5. \A g \in railLeft' : ~On(g)' /\ UsesVcn28(g)'
      BY <1>1, <1>2, <1>3, <2>1, <3>1 DEF ShareInv, RailUsers
    <3>6. cold' => conf'.coClock /\ conf'.hostLna
      <4>1. CASE cold
        BY <4>1 DEF ShareInv, RailUsers
      <4>2. CASE o \in railLeft
        <5>1. UsesVcn28(f) /\ UsesVcn28(o)
          BY <2>5, <4>2 DEF ShareInv, RailUsers
        <5> QED  BY <5>1 DEF UsesVcn28, OtherUser, Vcn28Users
      <4> QED  BY <3>1, <4>1, <4>2
    <3> QED  BY <2>2, <2>5, <3>3, <3>4, <3>5, <3>6 DEF RailUsers
  <2> QED  BY <2>4, <2>5
<1> QED  BY <1>5, <1>6

\* The rail at the off of one of its users: left to the other, or turned off.
LEMMA RailOff ==
  ASSUME Inv, ShareInv, NEW f \in Vcn28Users, On(f), conf' = conf, Vcn28Off(f),
         sts' = [sts EXCEPT ![f] = "OFF"]
  PROVE  RailUsers'
<1> DEFINE o == OtherUser(f)
<1>1. o \in Vcn28Users /\ o # f /\ Vcn28Users = {f, o}
  BY DEF OtherUser, Vcn28Users
<1>2. \A g \in Vcn28Users : UsesVcn28(g)' <=> UsesVcn28(g)
  BY DEF UsesVcn28
<1>3. railLeft \subseteq Vcn28Users
  BY DEF Inv, GhostType, Vcn28Users
<1>4. ~On(f)' /\ (On(o)' <=> On(o))
  BY <1>1 DEF On, Vcn28Users, Inv, StsType, AllTypes, Funcs, Drivers
<1>5. ~UserOn(f)' /\ (UserOn(o)' <=> UserOn(o))
  BY <1>1, <1>2, <1>4 DEF UserOn
<1>6. f \notin railLeft
  BY DEF ShareInv, RailUsers
<1>7. CASE ~UsesVcn28(f)
  <2>1. UNCHANGED <<vcn28, gpsFm, railLeft, cold>>
    BY <1>7 DEF Vcn28Off, vcn28Users
  <2>2. ~UserOn(f)
    BY <1>7 DEF UserOn
  <2> QED  BY <1>1, <1>2, <1>3, <1>4, <1>5, <2>1, <2>2 DEF ShareInv, RailUsers
<1>8. CASE UsesVcn28(f)
  <2>1. /\ gpsFm' = gpsFm \ {f} /\ railLeft' = railLeft /\ cold' = (cold /\ On(o))
        /\ o \in gpsFm => vcn28' = vcn28
    BY <1>8 DEF Vcn28Off
  <2>2. \A g \in Vcn28Users : g \in gpsFm' <=> (UserOn(g)' \/ g \in railLeft')
    BY <1>1, <1>5, <1>6, <2>1 DEF ShareInv, RailUsers
  <2>3. \A g \in railLeft' : ~On(g)' /\ UsesVcn28(g)'
    BY <1>1, <1>2, <1>3, <1>4, <2>1 DEF ShareInv, RailUsers
  <2>4. CASE UserOn(o)
    <3>1. vcn28' = vcn28 /\ cold' = cold
      BY <1>1, <2>1, <2>4 DEF ShareInv, RailUsers, UserOn, Inv, GhostType
    <3> QED  BY <1>1, <1>5, <2>2, <2>3, <2>4, <3>1 DEF ShareInv, RailUsers
  <2>5. CASE ~UserOn(o)
    <3>1. ~cold'
      <4> SUFFICES ASSUME cold, On(o) PROVE FALSE
        BY <2>1
      <4>1. conf.coClock /\ conf.hostLna
        BY DEF ShareInv, RailUsers
      <4> QED  BY <1>1, <2>5, <4>1 DEF UserOn, UsesVcn28
    <3> QED  BY <1>1, <1>5, <2>2, <2>3, <2>5, <3>1 DEF RailUsers
  <2> QED  BY <2>4, <2>5
<1> QED  BY <1>7, <1>8

\* A function that does not use VCN28 leaves it alone.
LEMMA RailAlone ==
  ASSUME Inv, ShareInv, conf' = conf, vcn28' = vcn28, UNCHANGED vcn28Users,
         \A f \in Vcn28Users : On(f)' <=> On(f)
  PROVE  RailUsers'
<1>1. \A f \in Vcn28Users : (UsesVcn28(f)' <=> UsesVcn28(f)) /\ (UserOn(f)' <=> UserOn(f))
  BY DEF UserOn, UsesVcn28
<1>2. railLeft' = railLeft /\ railLeft \subseteq Vcn28Users
  BY DEF Inv, GhostType, Vcn28Users, vcn28Users
<1>3. \A f \in railLeft' : ~On(f)' /\ UsesVcn28(f)'
  BY <1>1, <1>2 DEF ShareInv, RailUsers
<1> QED  BY <1>1, <1>3 DEF ShareInv, RailUsers, vcn28Users

LEMMA LpbkShare == ASSUME Inv, ShareInv, LpbkOn \/ LpbkOff PROVE ShareInv'
<1>1. \E s \in {"FUNC_ON", "OFF"} : sts' = [sts EXCEPT !["LPBK"] = s]
  BY DEF LpbkOn, LpbkOff, Status
<1>2. fn = "LPBK" /\ conf' = conf /\ vcn28' = vcn28 /\ gpsFailed' = gpsFailed
  BY DEF LpbkOn, LpbkOff, Started, Stopped, FuncOnEnds, FuncOffEnds, CommandEnds
<1>3. UNCHANGED <<shareVars, leftVars>>
  BY <1>2 DEF LpbkOn, LpbkOff, shareVars, leftVars, vcn28Users, airUsers
<1>4. \A f \in {"BT", "WIFI", "GPS", "FM"} : On(f)' <=> On(f)
  BY <1>1 DEF On, Inv, StsType, AllTypes, Funcs, Drivers
<1>5. RailUsers'
  BY <1>2, <1>3, <1>4, RailAlone DEF Vcn28Users, vcn28Users, shareVars, leftVars
<1>6. LnaDriven'
  BY <1>2, <1>3, <1>4 DEF ShareInv, LnaDriven, shareVars, leftVars
<1>7. RadiosOn'
  BY <1>3, <1>4, RadioStaysOff DEF Radios, airUsers, shareVars, leftVars
<1> QED  BY <1>5, <1>6, <1>7 DEF ShareInv

LEMMA BtShare == ASSUME Inv, ShareInv, BtOn \/ BtOff PROVE ShareInv'
<1>1. /\ fn = "BT" /\ conf' = conf /\ vcn28' = vcn28 /\ UNCHANGED <<vcn28Users, lna, gpsFailed>>
  BY DEF BtOn, BtOff, Started, Stopped, FuncOnEnds, FuncOffEnds, CommandEnds
<1>2. /\ BtOn => ~On("BT")
      /\ BtOff => On("BT")
  BY DEF BtOn, BtOff, Started, Stopped, Inv, InProgress
<1>3. \A f \in {"WIFI", "GPS", "FM"} : On(f)' <=> On(f)
  BY DEF BtOn, BtOff, Status, On, Inv, StsType, AllTypes, Funcs, Drivers
<1>4. RailUsers'
  BY <1>1, <1>3, RailAlone DEF Vcn28Users
<1>5. LnaDriven'
  BY <1>1, <1>3 DEF ShareInv, LnaDriven
<1>6. RadiosOn'
  <2>1. CASE BtOn /\ RadioOn("BT", {"GPS"}) /\ Status("BT", "FUNC_ON")
    BY <2>1, RadioGoesOn DEF Radios, Status
  <2>2. CASE BtOn /\ Status("COREDUMP", "FUNC_ON") /\ UNCHANGED airUsers
    <3>1. \A g \in Radios : On(g)' <=> On(g)
      BY <2>2 DEF Status, On, Radios, Inv, StsType, AllTypes, Funcs, Drivers
    <3> QED  BY <2>2, <3>1, RadioStaysOff
  <2>3. CASE BtOff
    <3>1. \A g \in Radios : On(g)' <=> (On(g) /\ g # "BT")
      BY <2>3, <1>3 DEF BtOff, Status, On, Radios, Inv, StsType, AllTypes, Funcs, Drivers
    <3>2. {"BT", "WIFI"} \ {"BT"} = {"WIFI"}
      OBVIOUS
    <3>3. \/ RadioOff("BT", {"WIFI"}) /\ UNCHANGED radioLeft
          \/ RadioStays("BT")
      BY <2>3 DEF BtOff
    <3> QED  BY <2>3, <1>2, <3>1, <3>2, <3>3, RadioGoesOff DEF RadioOff, Radios
  <2> QED  BY <2>1, <2>2, <2>3 DEF BtOn
<1> QED  BY <1>4, <1>5, <1>6 DEF ShareInv

LEMMA WifiShare == ASSUME Inv, ShareInv, WifiOn \/ WifiOff PROVE ShareInv'
<1>1. /\ fn = "WIFI" /\ conf' = conf /\ vcn28' = vcn28 /\ UNCHANGED <<vcn28Users, lna, gpsFailed>>
  BY DEF WifiOn, WifiOff, Started, Stopped, FuncOnEnds, FuncOffEnds, CommandEnds
<1>2. WifiOff => On("WIFI")
  BY DEF WifiOff, Stopped, Inv, InProgress
<1>3. \A f \in {"BT", "GPS", "FM"} : On(f)' <=> On(f)
  BY DEF WifiOn, WifiOff, Status, On, Inv, StsType, AllTypes, Funcs, Drivers
<1>4. RailUsers'
  BY <1>1, <1>3, RailAlone DEF Vcn28Users
<1>5. LnaDriven'
  BY <1>1, <1>3 DEF ShareInv, LnaDriven
<1>6. RadiosOn'
  <2>1. CASE WifiOn /\ RadioOn("WIFI", {"GPS"}) /\ Status("WIFI", "FUNC_ON")
    BY <2>1, RadioGoesOn DEF Radios, Status
  <2>2. CASE WifiOn /\ UNCHANGED <<airUsers, sts>>
    <3>1. \A g \in Radios : On(g)' <=> On(g)
      BY <2>2 DEF On
    <3> QED  BY <2>2, <3>1, RadioStaysOff
  <2>3. CASE WifiOff
    <3>1. \A g \in Radios : On(g)' <=> (On(g) /\ g # "WIFI")
      BY <2>3, <1>3 DEF WifiOff, Status, On, Radios, Inv, StsType, AllTypes, Funcs, Drivers
    <3>2. {"BT", "WIFI"} \ {"WIFI"} = {"BT"}
      OBVIOUS
    <3>3. \/ RadioOff("WIFI", {"BT"}) /\ UNCHANGED radioLeft
          \/ RadioStays("WIFI")
      BY <2>3 DEF WifiOff
    <3> QED  BY <2>3, <1>2, <3>1, <3>2, <3>3, RadioGoesOff DEF RadioOff, Radios
  <2> QED  BY <2>1, <2>2, <2>3 DEF WifiOn
<1> QED  BY <1>4, <1>5, <1>6 DEF ShareInv

LEMMA FmShare == ASSUME Inv, ShareInv, FmOn \/ FmOff PROVE ShareInv'
<1>1. /\ fn = "FM" /\ conf' = conf /\ UNCHANGED <<airUsers, lna, gpsFailed>>
  BY DEF FmOn, FmOff, Started, Stopped, FuncOnEnds, FuncOffEnds, CommandEnds
<1>2. /\ FmOn => ~On("FM")
      /\ FmOff => On("FM")
  BY DEF FmOn, FmOff, Started, Stopped, Inv, InProgress
<1>3. \A f \in Radios : On(f)' <=> On(f)
  BY DEF FmOn, FmOff, Status, On, Radios, Inv, StsType, AllTypes, Funcs, Drivers
<1>4. RailUsers'
  <2>1. CASE FmOn
    BY <2>1, <1>1, <1>2, RailOn DEF FmOn, Status, Vcn28Users
  <2>2. CASE FmOff
    BY <2>2, <1>1, <1>2, RailOff DEF FmOff, Status, Vcn28Users
  <2> QED  BY <2>1, <2>2
<1>5. LnaDriven'
  BY <1>1, <1>3 DEF ShareInv, LnaDriven, Radios
<1>6. RadiosOn'
  BY <1>1, <1>3, RadioStaysOff
<1> QED  BY <1>4, <1>5, <1>6 DEF ShareInv

LEMMA GpsShare == ASSUME Inv, ShareInv, GpsOn \/ GpsOff PROVE ShareInv'
<1>1. fn = "GPS" /\ conf' = conf
  BY DEF GpsOn, GpsOff, Started, Stopped, FuncOnEnds, FuncOffEnds
<1>2. /\ GpsOn => ~On("GPS")
      /\ GpsOff => On("GPS")
  BY DEF GpsOn, GpsOff, Started, Stopped, Inv, InProgress
<1>3. RailUsers'
  <2>1. CASE GpsOn
    BY <2>1, <1>1, <1>2, RailOn DEF GpsOn, Status, Vcn28Users
  <2>2. CASE GpsOff
    BY <2>2, <1>1, <1>2, RailOff DEF GpsOff, Status, Vcn28Users
  <2> QED  BY <2>1, <2>2
<1>4. LnaDriven'
  <2>1. CASE GpsOn
    <3>1. \/ gpsFailed' = TRUE
          \/ lna' = conf.hostLna /\ sts' = [sts EXCEPT !["GPS"] = "FUNC_ON"]
      BY <2>1, <1>1 DEF GpsOn, Status, FuncOnEnds, CommandEnds
    <3>2. CASE lna' = conf.hostLna /\ sts' = [sts EXCEPT !["GPS"] = "FUNC_ON"]
      <4>1. On("GPS")'
        BY <3>2 DEF On, Inv, StsType, AllTypes, Funcs, Drivers
      <4>2. conf' = conf /\ lna' = conf.hostLna
        BY <1>1, <3>2
      <4> QED  BY <4>1, <4>2 DEF LnaDriven
    <3> QED  BY <3>1, <3>2 DEF LnaDriven
  <2>2. CASE GpsOff
    <3>1. gpsFailed' = TRUE \/ lna' = FALSE
      BY <2>2, <1>1 DEF GpsOff, FuncOffEnds, CommandEnds
    <3>2. ~On("GPS")'
      BY <2>2 DEF GpsOff, Status, On, Inv, StsType, AllTypes, Funcs, Drivers
    <3> QED  BY <3>1, <3>2 DEF LnaDriven
  <2> QED  BY <2>1, <2>2
<1>5. RadiosOn'
  <2>1. CASE GpsOn /\ RadioOn("GPS", {"BT", "WIFI"}) /\ Status("GPS", "FUNC_ON")
    BY <2>1, RadioGoesOn DEF Radios, Status
  <2>2. CASE GpsOn /\ UNCHANGED <<airUsers, sts>>
    <3>1. \A g \in Radios : On(g)' <=> On(g)
      BY <2>2 DEF On
    <3> QED  BY <2>2, <3>1, RadioStaysOff
  <2>3. CASE GpsOff
    <3>1. \A g \in Radios : On(g)' <=> (On(g) /\ g # "GPS")
      BY <2>3 DEF GpsOff, Status, On, Radios, Inv, StsType, AllTypes, Funcs, Drivers
    <3>2. \/ /\ radios' = radios \ {"GPS"} /\ UNCHANGED radioLeft
             /\ IF radios \cap {"BT", "WIFI"} # {}
                  THEN Tell(FALSE) ELSE UNCHANGED <<desense, forgot>>
          \/ RadioStays("GPS")
      BY <2>3 DEF GpsOff
    <3> QED  BY <2>3, <1>2, <3>1, <3>2, RadioGoesOff DEF Radios
  <2> QED  BY <2>1, <2>2, <2>3 DEF GpsOn
<1> QED  BY <1>3, <1>4, <1>5 DEF ShareInv

\* A reset leaves every bit set and every function off.
LEMMA HwRstPowerFailsShare == ASSUME Inv, ShareInv, HwRstPowerFails PROVE ShareInv'
<1>1. /\ \A f \in Funcs : ~On(f)
      /\ \A f \in Funcs : ~On(f)'
  BY DEF HwRstPowerFails, On, Inv, ChipUnder, StsType, AllTypes, Funcs, Drivers
<1>2. UNCHANGED <<conf, shareVars, leftVars>>
  BY <1>1 DEF HwRstPowerFails, LnaAfterReset, shareVars, ghostVars, Funcs, Drivers
<1> QED  BY <1>1, <1>2, SameShare

LEMMA HwRstShare == ASSUME Inv, ShareInv, HwRst PROVE ShareInv'
<1>1. \A f \in Funcs : ~On(f)'
  BY DEF HwRst, HwRstClears, On, Inv, StsType, AllTypes, Funcs, Drivers
<1>2. /\ UNCHANGED <<conf, gpsFm, gpsFailed>> /\ lna' = IF On("GPS") THEN FALSE ELSE lna
      /\ railLeft' = gpsFm /\ cold' = FALSE /\ radioLeft' = radios'
  BY DEF HwRst, LnaAfterReset
<1>3. RailUsers'
  <2>1. gpsFm \subseteq Vcn28Users
    BY DEF Inv, ShareType, Vcn28Users
  <2>2. \A f \in gpsFm : UsesVcn28(f)'
    BY <1>2, <2>1 DEF ShareInv, RailUsers, UserOn, UsesVcn28
  <2>3. \A f \in Vcn28Users : ~On(f)'
    BY <1>1 DEF Vcn28Users, Funcs, Drivers
  <2> QED  BY <1>2, <2>1, <2>2, <2>3 DEF RailUsers, UserOn
<1>4. LnaDriven'
  BY <1>1, <1>2 DEF ShareInv, LnaDriven, Funcs, Drivers
<1>5. RadiosOn'
  <2>1. radios' \subseteq Radios
    BY DEF HwRst, RadioOff, Inv, ShareType, Radios
  <2>2. \A f \in Radios : ~On(f)'
    BY <1>1 DEF Radios, Funcs, Drivers
  <2>3. \/ On("WIFI") /\ RadioOff("WIFI", {"BT"})
        \/ UNCHANGED <<radios, desense, forgot>>
    BY DEF HwRst
  <2>4. desense' <=> forgot' \/ Neighbours'
    BY <2>3 DEF ShareInv, RadiosOn, Radios, Neighbours, RadioOff, Tell
  <2> QED  BY <1>2, <2>1, <2>2, <2>4 DEF RadiosOn
<1> QED  BY <1>3, <1>4, <1>5 DEF ShareInv

-----------------------------------------------------------------------------
(* The theorems.                                                           *)

LEMMA ShareStarts == Init => ShareInv
<1> SUFFICES ASSUME Init PROVE ShareInv
  OBVIOUS
<1>1. RailUsers
  BY DEF Init, RailUsers, UserOn, Vcn28Users, On, Funcs, Drivers
<1>2. LnaDriven /\ RadiosOn
  BY DEF Init, LnaDriven, RadiosOn, Radios, Neighbours, On, Funcs, Drivers
<1> QED
  BY <1>1, <1>2 DEF ShareInv

LEMMA ShareSteps == Inv /\ ShareInv /\ [Next]_vars => ShareInv'
  BY BracketShare, PowerUpShare, PowerDownShare, BtShare, GpsShare, FmShare,
     WifiShare, LpbkShare, HwRstPowerFailsShare, HwRstShare DEF Next

LEMMA ShareHolds == Spec => []ShareInv
BY InvHolds, ShareStarts, ShareSteps, PTL DEF Spec

\* gGpsFmState names the users of VCN28 that are on and those a reset ended, and
\* the rail is on under GPS with the host's LNA, or FM, that is on; unless the
\* first of them relied on a bit of a function a reset had ended.
THEOREM RailKept == Spec => []RailWhileUsed
<1>1. ShareInv => RailWhileUsed
  BY DEF ShareInv, RailUsers, UserOn, Vcn28Users, RailWhileUsed
<1> QED
  BY <1>1, ShareHolds, PTL

\* The host drives the LNA exactly while GPS is on, whether its off path or a
\* reset ended it, unless its last command failed.
THEOREM LnaReleased == Spec => []LnaOnlyForGps
<1>1. ShareInv => LnaOnlyForGps
  BY DEF ShareInv, LnaDriven, LnaOnlyForGps
<1> QED
  BY <1>1, ShareHolds, PTL

\* The GPS daemon was told what gBtWifiGpsState says, and that names the radios
\* that are on and those a failed off or a reset left; in whatever order the
\* radios went on and off, failed and were reset.
THEOREM DesenseExact == Spec => []DesenseTold
<1>1. Inv /\ ShareInv => DesenseTold
  <2> SUFFICES ASSUME Inv, ShareInv PROVE DesenseTold
    OBVIOUS
  <2>1. radios \subseteq Radios /\ radioLeft \subseteq Radios
    BY DEF Inv, ShareType, GhostType, Radios
  <2>2. radios = {f \in Radios : On(f)} \cup radioLeft
    BY <2>1 DEF ShareInv, RadiosOn
  <2>3. desense <=> forgot \/ ("GPS" \in radios /\ radios \cap {"BT", "WIFI"} # {})
    BY DEF ShareInv, RadiosOn, Neighbours
  <2> QED  BY <2>2, <2>3 DEF DesenseTold
<1> QED
  BY <1>1, InvHolds, ShareHolds, PTL

\* What the functions share, together.
THEOREM SharedAlwaysExact == Spec => []SharedExact
<1> QED BY RailKept, LnaReleased, DesenseExact, PTL DEF SharedExact

=============================================================================
