SPECIFICATION SaaSpec
CONSTANTS
  Algs = {"open", "shared"}
  RetryLimit = 2
  MaxJoins = 3
  MaxShort = 1
  MaxLeaves = 1
  MaxAir = 1
INVARIANTS JoinInv
PROPERTIES JoinEnds
CHECK_DEADLOCK FALSE
