CONSTANTS
  MaxPkt = 2
  FifoMax = 1
  ReleaseMax = 1
  WakeTries = 1
  MaxJob = 2
  MaxReset = 1
  MaxWake = 1
  MaxDeath = 1
  QuickPs = TRUE
  Timeouts = TRUE
  FullWindow = TRUE
SPECIFICATION Spec
INVARIANT BlockedUnlessActive
PROPERTY NoDataToSleepingChip
CHECK_DEADLOCK FALSE
