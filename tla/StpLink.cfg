CONSTANTS
  Modulus = 3
  WinSize = 2
  RetryLimit = 1
  RingSize = 1
  Loads <- SendLoads
  MaxErrors = 1
  MaxWire = 1
  MaxOps = 2
SPECIFICATION Spec
CHECK_DEADLOCK FALSE
INVARIANT LinkInv
PROPERTIES
  Settles
  IsChannel
