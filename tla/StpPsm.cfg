CONSTANTS
  MaxPkt = 3
  FifoMax = 2
  ReleaseMax = 2
  WakeTries = 1
  MaxJob = 3
  MaxReset = 0
  MaxWake = 2
  MaxDeath = 0
  QuickPs = FALSE
  Timeouts = FALSE
  FullWindow = FALSE
SPECIFICATION FairSpec
INVARIANTS
  SentInOrder
  CleanUpTerminates
PROPERTIES
  HostAwakeOnlyWhenAsked
  HeldDataSent
  TransitionsEnd
  IdleChipSleeps
CHECK_DEADLOCK FALSE
