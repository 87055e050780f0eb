CONSTANTS
  MaxEvents = 2
  Kinds = {"scan", "connect", "disconnect", "deauth", "beacon", "security", "mismatch", "roaming", "remain", "cancel"}
  AutoSwitch = TRUE
  RocAnytime = FALSE
SPECIFICATION Spec
INVARIANTS ChannelInv JoinSupervised HostTold
PROPERTY ChannelFreed
CHECK_DEADLOCK FALSE
