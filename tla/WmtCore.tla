------------------------------- MODULE WmtCore -------------------------------
(***************************************************************************)
(* The function state machine wmtd runs (wmt_core.c, wmt_func.c): which of *)
(* the functions of the chip are on, when the chip itself is powered, and  *)
(* the supplies the functions share.  wmtd executes one operation at a     *)
(* time, so an operation is a sequence of steps nothing interleaves with;  *)
(* what makes it hard is that every command to the chip can fail, and that *)
(* a whole-chip reset ends all functions without their own off path.       *)
(***************************************************************************)
EXTENDS Integers, FiniteSets

CONSTANTS
  PwrRetry,  \* WMT_PWRON_RTY_DFT
  RstRetry,  \* RETRYTIMES of wmt_lib_cmb_rst()
  MaxRail,   \* bound: supplies left enabled by failed operations
  MaxReset   \* bound: whole-chip resets

ASSUME WmtCoreAssumption ==
  /\ PwrRetry \in Nat /\ RstRetry \in Nat \ {0}
  /\ MaxRail \in Nat \ {0} /\ MaxReset \in Nat

Drivers == {"BT", "FM", "GPS", "WIFI", "LPBK"}  \* types FUNC_ON is called with
Funcs == Drivers \cup {"COREDUMP"}              \* on from a BT failure to a reset
Labels == {"idle", "pwr_on", "stp_init", "undo", "func_on", "func_off",
           "failed", "off", "hw_rst", "sw_rst", "rst_fail"}

VARIABLES
  conf,      \* WMT_SOC.cfg: co_clock_flag, wmt_gps_lna_enable = 0
  sts,       \* eDrvStatus
  pwr,       \* WMT_STAT_PWR
  vcn18, vcn28, vcn33,  \* enable counts of the regulators; vcn33 is BT's
  lna,       \* the host drives the GPS LNA enable
  gpsFm,     \* gGpsFmState: who uses VCN28 in co-clock mode
  radios,    \* gBtWifiGpsState
  desense,   \* last de-sense message sent to the GPS daemon
  offFlag,   \* g_pwr_off_flag
  open, ready,       \* WMT_STAT_STP_OPEN, mtk_wcn_stp_is_ready()
  pc, fn, retry,     \* where wmtd is, the op's function, opfunc_pwr_on()'s retry
  tries, nReset,     \* tries left of the reset in progress (0: none); bound
  \* history variables, read by the properties alone:
  railLeft,  \* bits of gGpsFmState that a reset found set and left
  cold,      \* VCN28 was off when its user relied on such a bit
  radioLeft, \* bits of gBtWifiGpsState that a failed off or a reset left
  forgot,    \* the bits were cleared, and the GPS daemon was not told
  gpsFailed, \* the last command to GPS failed
  why        \* why a chip without functions was left powered

railVars == <<vcn18, vcn28, vcn33>>
hwVars == <<pwr, vcn18, vcn28>>
linkVars == <<open, ready>>
shareVars == <<gpsFm, radios, desense, lna>>
vcn28Users == <<gpsFm, railLeft, cold>>
airUsers == <<radios, desense, radioLeft, forgot>>
leftVars == <<railLeft, cold, radioLeft, forgot, gpsFailed>>
ghostVars == <<leftVars, why>>
rstVars == <<tries, nReset>>
vars == <<conf, sts, pwr, railVars, shareVars, offFlag, linkVars, pc, fn, retry,
          rstVars, ghostVars>>

TypeOK ==
  /\ conf \in [coClock : BOOLEAN, hostLna : BOOLEAN]
  /\ sts \in [Funcs \cup {"WMT"} -> {"OFF", "POWER_ON", "FUNC_ON"}]
  /\ pwr \in BOOLEAN /\ {vcn18, vcn28, vcn33} \subseteq Nat
  /\ gpsFm \subseteq {"GPS", "FM"} /\ radios \subseteq {"BT", "WIFI", "GPS"}
  /\ {lna, desense, offFlag, open, ready, cold, forgot, gpsFailed} \subseteq BOOLEAN
  /\ railLeft \subseteq {"GPS", "FM"} /\ radioLeft \subseteq {"BT", "WIFI", "GPS"}
  /\ pc \in Labels /\ fn \in Funcs /\ retry \in -2..PwrRetry
  /\ tries \in 0..RstRetry /\ nReset \in 0..MaxReset
  /\ why \in {"", "reset", "refused", "irq"}

Init ==
  /\ conf \in [coClock : BOOLEAN, hostLna : BOOLEAN]
  /\ sts = [f \in Funcs \cup {"WMT"} |-> "OFF"] /\ pwr = FALSE
  /\ vcn18 = 0 /\ vcn28 = 0 /\ vcn33 = 0
  /\ gpsFm = {} /\ radios = {} /\ desense = FALSE /\ lna = FALSE
  /\ offFlag = TRUE /\ open = FALSE /\ ready = FALSE
  /\ pc = "idle" /\ fn = "BT" /\ retry = 0 /\ tries = 0 /\ nReset = 0
  /\ railLeft = {} /\ cold = FALSE /\ radioLeft = {} /\ forgot = FALSE
  /\ gpsFailed = FALSE /\ why = ""

-----------------------------------------------------------------------------
(* The supplies.                                                           *)

On(f) == sts[f] = "FUNC_ON"
AllOff == \A f \in Funcs : sts[f] = "OFF"
Status(f, s) == sts' = [sts EXCEPT ![f] = s]

\* regulator_disable(): an unbalanced one warns and does nothing.
Disabled(count) == IF count > 0 THEN count - 1 ELSE 0

\* WMT_CTRL_HW_PWR_ON: supplies up, then the wake interrupt is requested,
\* which may fail; WMT_STAT_PWR is set before either.
HwPwrOn(ok) ==
  \/ pwr /\ ok /\ UNCHANGED hwVars
  \/ /\ ~pwr
     /\ pwr' = TRUE /\ vcn18' = vcn18 + 1
     /\ vcn28' = IF conf.coClock THEN vcn28 ELSE vcn28 + 1

\* WMT_CTRL_HW_PWR_OFF: mtk_wcn_consys_hw_pwr_off() passes co_clock_type 0, so
\* VCN28 is disabled in co-clock mode too.
HwPwrOff ==
  IF pwr THEN /\ pwr' = FALSE
              /\ vcn18' = Disabled(vcn18) /\ vcn28' = Disabled(vcn28)
         ELSE UNCHANGED hwVars

\* wmt_core_stp_deinit(); WMT_CTRL_STP_CLOSE may fail.
StpDeinit == ready' = FALSE /\ open' \in {FALSE, open}

\* opfunc_pwr_off()
PwrOffRefused == sts["WMT"] = "OFF" \/ ~offFlag
PwrOff ==
  IF PwrOffRefused
  THEN UNCHANGED <<hwVars, linkVars, sts>> /\ why' = "refused"
  ELSE /\ IF sts["WMT"] = "FUNC_ON" THEN StpDeinit ELSE UNCHANGED linkVars
       /\ HwPwrOff /\ Status("WMT", "OFF") /\ why' = ""

-----------------------------------------------------------------------------
(* WMT_OPID_FUNC_ON.                                                       *)

\* opfunc_func_on(), up to the chip; a function already on is left alone.
FuncOn(f) ==
  /\ pc = "idle" /\ tries = 0 /\ ~On(f)
  /\ f \in {"GPS", "FM"} => vcn28 < MaxRail
  /\ fn' = f /\ offFlag' = TRUE /\ retry' = PwrRetry
  /\ pc' = IF On("WMT") THEN "func_on" ELSE "pwr_on"
  /\ UNCHANGED <<conf, sts, pwr, railVars, shareVars, linkVars, rstVars, ghostVars>>

\* opfunc_pwr_on(): "already powered on" fails the op.
AlreadyPowered ==
  /\ pc = "pwr_on" /\ sts["WMT"] # "OFF"
  /\ pc' = "idle"
  /\ UNCHANGED <<conf, sts, pwr, railVars, shareVars, offFlag, linkVars, fn, retry,
                 rstVars, ghostVars>>

\* On failure the code retries when its counter is 0 (0 == retry--).
PwrOnAgain == retry = 0
PwrOn ==
  /\ pc = "pwr_on" /\ sts["WMT"] = "OFF"
  /\ \E ok \in BOOLEAN :
       /\ HwPwrOn(ok)
       /\ \/ /\ ok /\ Status("WMT", "POWER_ON") /\ pc' = "stp_init"
             /\ UNCHANGED <<retry, why>>
          \/ /\ ~ok /\ retry' = retry - 1 /\ UNCHANGED sts
             /\ IF PwrOnAgain THEN pc' = "pwr_on" /\ UNCHANGED why
                              ELSE pc' = "idle" /\ why' = "irq"
  /\ UNCHANGED <<conf, vcn33, shareVars, offFlag, linkVars, fn, rstVars, leftVars>>

\* wmt_core_stp_init() succeeds: STP is open and ready, the chip patched; the
\* caller of a reset's SW_RST may have stopped waiting.
StpInitOk ==
  /\ pc \in {"stp_init", "sw_rst"}
  /\ open' = TRUE /\ ready' = TRUE /\ Status("WMT", "FUNC_ON")
  /\ \/ pc = "stp_init" /\ pc' = "func_on" /\ UNCHANGED <<tries, why>>
     \/ pc = "sw_rst" /\ pc' = "idle" /\ tries' = 0 /\ why' = "reset"
     \/ pc = "sw_rst" /\ pc' = "rst_fail" /\ UNCHANGED <<tries, why>>
  /\ UNCHANGED <<conf, pwr, railVars, shareVars, offFlag, fn, retry, nReset, leftVars>>

\* STP does not open, or a later step fails with STP open but not ready.
StpInitFails ==
  /\ pc \in {"stp_init", "sw_rst"}
  /\ \/ UNCHANGED linkVars
     \/ open' = TRUE /\ ready' = FALSE
  /\ pc' = IF pc = "stp_init" THEN "undo" ELSE "rst_fail"
  /\ UNCHANGED <<conf, sts, pwr, railVars, shareVars, offFlag, fn, retry, rstVars,
                 ghostVars>>

\* stp_deinit, pwr_off and another try.
UndoPwrOn ==
  /\ pc = "undo"
  /\ StpDeinit /\ HwPwrOff /\ Status("WMT", "OFF")
  /\ pc' = IF retry > 0 THEN "pwr_on" ELSE "idle"
  /\ retry' = retry - 1
  /\ UNCHANGED <<conf, vcn33, shareVars, offFlag, fn, rstVars, ghostVars>>

\* The command to the function is over.
CommandEnds(ok) == gpsFailed' = IF fn = "GPS" THEN ~ok ELSE gpsFailed
FuncOnEnds(ok) ==
  /\ pc' = IF ok THEN "idle" ELSE "failed"
  /\ CommandEnds(ok)
  /\ why' = IF ok THEN "" ELSE why
  /\ UNCHANGED <<conf, pwr, vcn18, linkVars, fn, retry, rstVars>>
Started(f) == pc = "func_on" /\ fn = f

\* De-sense messages go to the GPS daemon while GPS shares the air.
Tell(shared) == desense' = shared /\ forgot' = FALSE
RadioOn(f, others) ==
  /\ radios' = radios \cup {f} /\ radioLeft' = radioLeft \ {f}
  /\ IF radios \cap others # {} THEN Tell(TRUE) ELSE UNCHANGED <<desense, forgot>>

\* wmt_func_bt_on(): a failure marks a core dump as the chip's user.
BtOn ==
  /\ Started("BT")
  /\ \/ /\ RadioOn("BT", {"GPS"}) /\ vcn33' = vcn33 + 1 /\ Status("BT", "FUNC_ON")
        /\ FuncOnEnds(TRUE)
     \/ /\ Status("COREDUMP", "FUNC_ON") /\ FuncOnEnds(FALSE)
        /\ UNCHANGED <<airUsers, vcn33>>
  /\ UNCHANGED <<vcn28Users, lna, vcn28, offFlag>>

\* VCN28 is on for the first of GPS and FM, in co-clock mode.
UsesVcn28(f) == conf.coClock /\ (f = "GPS" => conf.hostLna)
OtherUser(f) == IF f = "GPS" THEN "FM" ELSE "GPS"
Vcn28On(f) ==
  vcn28' = IF UsesVcn28(f) /\ OtherUser(f) \notin gpsFm THEN vcn28 + 1 ELSE vcn28
\* Mutant: VCN28 is turned off whoever else uses it.
Vcn28OffAlways(f) ==
  /\ vcn28' = IF UsesVcn28(f) THEN Disabled(vcn28) ELSE vcn28
  /\ gpsFm' = gpsFm \ {f} /\ cold' = (cold /\ On(OtherUser(f)))
  /\ UNCHANGED railLeft
Vcn28Off(f) ==
  IF ~UsesVcn28(f) THEN UNCHANGED <<vcn28, vcn28Users>>
  ELSE /\ vcn28' = IF OtherUser(f) \in gpsFm THEN vcn28 ELSE Disabled(vcn28)
       /\ gpsFm' = gpsFm \ {f} /\ cold' = (cold /\ On(OtherUser(f)))
       /\ UNCHANGED railLeft
Vcn28Used(f) ==
  IF ~UsesVcn28(f) THEN UNCHANGED vcn28Users
  ELSE /\ gpsFm' = gpsFm \cup {f} /\ railLeft' = railLeft \ {f}
       /\ cold' = (cold \/ (vcn28 = 0 /\ OtherUser(f) \in railLeft))

\* wmt_func_gps_on(): the pins first, the LNA among them, then the command.
GpsOn ==
  /\ Started("GPS") /\ Vcn28On("GPS")
  /\ \/ /\ RadioOn("GPS", {"BT", "WIFI"}) /\ Vcn28Used("GPS") /\ lna' = conf.hostLna
        /\ Status("GPS", "FUNC_ON") /\ FuncOnEnds(TRUE)
     \/ /\ lna' \in {lna, conf.hostLna} /\ FuncOnEnds(FALSE)
        /\ UNCHANGED <<airUsers, vcn28Users, sts>>
  /\ UNCHANGED <<vcn33, offFlag>>

FmOn ==
  /\ Started("FM") /\ Vcn28On("FM")
  /\ \/ Vcn28Used("FM") /\ Status("FM", "FUNC_ON") /\ FuncOnEnds(TRUE)
     \/ FuncOnEnds(FALSE) /\ UNCHANGED <<vcn28Users, sts>>
  /\ UNCHANGED <<airUsers, lna, vcn33, offFlag>>

\* wmt_func_wifi_on(): a failed probe may forbid powering the chip off.
WifiOn ==
  /\ Started("WIFI")
  /\ \/ /\ RadioOn("WIFI", {"GPS"}) /\ Status("WIFI", "FUNC_ON")
        /\ FuncOnEnds(TRUE) /\ UNCHANGED offFlag
     \/ /\ offFlag' \in {offFlag, FALSE} /\ FuncOnEnds(FALSE)
        /\ UNCHANGED <<airUsers, sts>>
  /\ UNCHANGED <<vcn28Users, lna, vcn28, vcn33>>

LpbkOn ==
  /\ Started("LPBK")
  /\ Status("LPBK", "FUNC_ON") /\ FuncOnEnds(TRUE)
  /\ UNCHANGED <<vcn28Users, airUsers, lna, vcn28, vcn33, offFlag>>

\* A failed function on, and every function off: with no user left the chip
\* is powered down; only the former forgets who shares what.
LastUserGoneButWifi == \A f \in Funcs \ {"WIFI"} : sts[f] = "OFF"
LastUserGoneOff == pc = "off" /\ AllOff
LastUserGone == AllOff
\* mtk_wcn_wmt_system_state_reset()
Forget ==
  /\ gpsFm' = {} /\ railLeft' = {}
  /\ radios' = {} /\ radioLeft' = {} /\ forgot' = desense
PowerDown ==
  /\ pc \in {"failed", "off"}
  /\ \/ /\ LastUserGone /\ PwrOff
        /\ IF pc = "failed" THEN Forget
                            ELSE UNCHANGED <<gpsFm, railLeft, radios, radioLeft, forgot>>
     \/ /\ ~LastUserGone
        /\ UNCHANGED <<hwVars, linkVars, sts, why, gpsFm, railLeft, radios, radioLeft, forgot>>
  /\ pc' = "idle"
  /\ UNCHANGED <<conf, vcn33, cold, desense, lna, offFlag, fn, retry, rstVars, gpsFailed>>

-----------------------------------------------------------------------------
(* WMT_OPID_FUNC_OFF.                                                      *)

FuncOff(f) ==
  /\ pc = "idle" /\ tries = 0 /\ On(f)
  /\ fn' = f /\ pc' = "func_off"
  /\ UNCHANGED <<conf, sts, pwr, railVars, shareVars, offFlag, linkVars, retry,
                 rstVars, ghostVars>>

Stopped(f) == pc = "func_off" /\ fn = f
FuncOffEnds(ok) ==
  /\ pc' = "off" /\ CommandEnds(ok)
  /\ UNCHANGED <<conf, pwr, vcn18, linkVars, fn, retry, rstVars, why>>
RadioOff(f, others) ==
  /\ radios' = radios \ {f}
  /\ IF "GPS" \in radios /\ radios \cap others = {}
       THEN Tell(FALSE) ELSE UNCHANGED <<desense, forgot>>
RadioStays(f) == radioLeft' = radioLeft \cup {f} /\ UNCHANGED <<radios, desense, forgot>>

BtOff ==
  /\ Stopped("BT") /\ vcn33' = Disabled(vcn33)
  /\ \/ /\ RadioOff("BT", {"WIFI"}) /\ UNCHANGED radioLeft
        /\ Status("BT", "OFF") /\ FuncOffEnds(TRUE)
     \/ /\ sts' = [sts EXCEPT !["BT"] = "OFF", !["COREDUMP"] = "FUNC_ON"]
        /\ FuncOffEnds(FALSE) /\ RadioStays("BT")
  /\ UNCHANGED <<vcn28Users, lna, vcn28, offFlag>>

GpsOff ==
  /\ Stopped("GPS") /\ Vcn28Off("GPS") /\ Status("GPS", "OFF")
  /\ \/ /\ radios' = radios \ {"GPS"} /\ lna' = FALSE /\ UNCHANGED radioLeft
        /\ IF radios \cap {"BT", "WIFI"} # {}
             THEN Tell(FALSE) ELSE UNCHANGED <<desense, forgot>>
        /\ FuncOffEnds(TRUE)
     \/ lna' \in {lna, FALSE} /\ FuncOffEnds(FALSE) /\ RadioStays("GPS")
  /\ UNCHANGED <<vcn33, offFlag>>

FmOff ==
  /\ Stopped("FM") /\ Vcn28Off("FM") /\ Status("FM", "OFF")
  /\ \E ok \in BOOLEAN : FuncOffEnds(ok)
  /\ UNCHANGED <<airUsers, lna, vcn33, offFlag>>

WifiOff ==
  /\ Stopped("WIFI") /\ Status("WIFI", "OFF")
  /\ \/ RadioOff("WIFI", {"BT"}) /\ FuncOffEnds(TRUE) /\ UNCHANGED radioLeft
     \/ FuncOffEnds(FALSE) /\ RadioStays("WIFI")
  /\ UNCHANGED <<vcn28Users, lna, vcn28, vcn33, offFlag>>

LpbkOff ==
  /\ Stopped("LPBK") /\ Status("LPBK", "OFF") /\ FuncOffEnds(TRUE)
  /\ UNCHANGED <<vcn28Users, airUsers, lna, vcn28, vcn33, offFlag>>

-----------------------------------------------------------------------------
(* The whole-chip reset: HW_RST and SW_RST until both succeed, with no other *)
(* operation in between (module WmtOp).  It is requested while STP is ready, *)
(* but the last function may be off before the BTM thread starts it.         *)

Reset ==
  /\ pc = "idle" /\ tries = 0 /\ nReset < MaxReset
  /\ tries' = RstRetry /\ nReset' = nReset + 1 /\ pc' = "hw_rst"
  /\ UNCHANGED <<conf, sts, pwr, railVars, shareVars, offFlag, linkVars, fn, retry, ghostVars>>

\* Functions HW_RST writes off before it powers the chip, and the ones after.
EndedByReset == {"FM", "GPS", "LPBK", "COREDUMP"}
\* The reset drops the LNA enable of a GPS that is on.
LnaAfterReset == IF On("GPS") THEN FALSE ELSE lna

\* opfunc_hw_rst() cannot power the chip.
HwRstPowerFails ==
  /\ pc = "hw_rst" /\ sts["WMT"] = "OFF"
  /\ HwPwrOn(FALSE) /\ pc' = "rst_fail"
  /\ lna' = LnaAfterReset
  /\ sts' = [f \in DOMAIN sts |-> IF f \in EndedByReset THEN "OFF" ELSE sts[f]]
  /\ offFlag' = TRUE
  /\ UNCHANGED <<conf, vcn33, gpsFm, radios, desense, linkVars, fn, retry, rstVars, ghostVars>>

\* opfunc_hw_rst(): BT's supply goes off, Wi-Fi is removed, the chip is
\* power-cycled, STP closed.  It may succeed too late for its caller.
HwRstClearsOwn(f) == f \in EndedByReset
HwRstClears(f) == f \in Funcs
HwRst ==
  /\ pc = "hw_rst"
  /\ IF sts["WMT"] = "OFF" THEN HwPwrOn(TRUE) ELSE UNCHANGED hwVars
  /\ lna' = LnaAfterReset
  /\ vcn33' = IF On("BT") THEN Disabled(vcn33) ELSE vcn33
  /\ \/ On("WIFI") /\ RadioOff("WIFI", {"BT"})
     \/ UNCHANGED <<radios, desense, forgot>>
  /\ sts' = [f \in DOMAIN sts |->
               IF f = "WMT" THEN "POWER_ON" ELSE IF HwRstClears(f) THEN "OFF" ELSE sts[f]]
  /\ \/ open' = FALSE /\ pc' \in {"sw_rst", "rst_fail"}
     \/ open /\ UNCHANGED open /\ pc' = "rst_fail"
  /\ offFlag' = TRUE
  /\ railLeft' = gpsFm /\ cold' = FALSE /\ radioLeft' = radios'
  /\ UNCHANGED <<conf, gpsFm, ready, fn, retry, rstVars, gpsFailed, why>>

\* Another try, or WMTRSTMSG_RESET_END_FAIL.
RstFail ==
  /\ pc = "rst_fail"
  /\ tries' = tries - 1
  /\ IF tries > 1 THEN pc' = "hw_rst" /\ UNCHANGED why
                  ELSE pc' = "idle" /\ why' = "reset"
  /\ UNCHANGED <<conf, sts, pwr, railVars, shareVars, offFlag, linkVars, fn, retry,
                 nReset, leftVars>>

-----------------------------------------------------------------------------

Next ==
  \/ \E f \in Drivers : FuncOn(f) \/ FuncOff(f)
  \/ AlreadyPowered \/ PwrOn \/ StpInitOk \/ StpInitFails \/ UndoPwrOn \/ PowerDown
  \/ BtOn \/ GpsOn \/ FmOn \/ WifiOn \/ LpbkOn
  \/ BtOff \/ GpsOff \/ FmOff \/ WifiOff \/ LpbkOff
  \/ Reset \/ HwRstPowerFails \/ HwRst \/ RstFail

Spec == Init /\ [][Next]_vars

-----------------------------------------------------------------------------
(* Between two operations.                                                 *)
Quiet == pc = "idle" /\ tries = 0

\* A function that is on has a powered chip with STP up under it, whatever
\* failed or was reset before: the drivers send as soon as they are on.
FunctionsNeedChip ==
  Quiet /\ (\E f \in Funcs : On(f)) => On("WMT") /\ pwr /\ open /\ ready

\* "chip should be powered off when no subsystem is active" (wmt_core.c): if
\* it is not, a reset brought it up, a power-off was forbidden, or the wake
\* interrupt could not be requested; nothing else leaves it on.
ChipOffWhenUnused == Quiet /\ AllOff /\ pwr => why # ""

\* The supplies are counted right: the chip's by its power state, BT's by BT.
SuppliesMatch ==
  Quiet => /\ vcn18 = IF pwr THEN 1 ELSE 0
           /\ vcn33 = IF On("BT") THEN 1 ELSE 0
           /\ ~conf.coClock => vcn28 = vcn18

\* gGpsFmState names the functions on that use VCN28 and the ones a reset
\* ended, and VCN28 is on under each that is on, although each relies on the
\* other's bit.  The exception: the first user after a reset relied on the bit
\* of one that the reset had ended, and VCN28 was off (cold); it is over when no
\* user is on any more.
RailWhileUsed ==
  Quiet => \A f \in {"GPS", "FM"} :
    /\ f \in gpsFm <=> (On(f) /\ UsesVcn28(f)) \/ f \in railLeft
    /\ On(f) /\ UsesVcn28(f) => (vcn28 > 0 <=> ~cold)

\* The host drives the LNA exactly while GPS is on, over resets too ("or the
\* LNA stays powered until the next GPS session", opfunc_hw_rst()); unless the
\* last command to GPS failed.
LnaOnlyForGps == Quiet /\ ~gpsFailed => (lna <=> On("GPS") /\ conf.hostLna)

\* gBtWifiGpsState names the radios on and the ones whose bit a failed off or a
\* reset left, and the GPS daemon was told of a neighbour exactly while the bits
\* say so.  The exception: a failed function on cleared the bits without a
\* message (forgot); it is over with the next message.
Radios == {"BT", "WIFI", "GPS"}
DesenseTold ==
  Quiet => /\ radios = {f \in Radios : On(f)} \cup radioLeft
           /\ desense <=> forgot \/ ("GPS" \in radios /\ radios \cap {"BT", "WIFI"} # {})

\* What BT, GPS, FM and Wi-Fi share follows the ones that are on through failed
\* commands and resets: the rail, the LNA and the de-sense message, with the
\* three exceptions above and no other.
SharedExact == RailWhileUsed /\ LnaOnlyForGps /\ DesenseTold

=============================================================================
