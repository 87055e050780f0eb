CONSTANTS
  Size = 5
  MaxPending = 3
  VffSize = 2
  MaxBytes = 6
  MaxOpens = 2
SPECIFICATION Spec
INVARIANTS RingInv LifeInv
PROPERTY IsPipe
CHECK_DEADLOCK FALSE
