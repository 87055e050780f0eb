CONSTANTS
  SnCount = 18
  Buf = 3
  IncSize = 1
  FirstSn = 14
  LastSn = 22
  MaxAdd = 2
SPECIFICATION RxSpec
CHECK_DEADLOCK FALSE
INVARIANTS OrderInv DroppedWasGivenUp
