CONSTANTS
  Callers = {c1, c2}
  Holders = {wifi, gps}
  wifi = wifi
  dbg = dbg
  wmtd = wmtd
  none = none
  MaxOp = 2
  MaxHold = 2
  MaxCtrl = 1
  MaxReset = 1
  Expires = TRUE
  AppReset = TRUE
  OpTimeout = TRUE
SPECIFICATION FairSpec
INVARIANTS
  MonitorFollowsPolicy
  NoWaitCycle
PROPERTIES
  MonitorComesBack
  BracketEnds
CHECK_DEADLOCK FALSE
