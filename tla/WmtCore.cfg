CONSTANTS
  PwrRetry = 2
  RstRetry = 2
  MaxRail = 3
  MaxReset = 2
SPECIFICATION Spec
INVARIANTS
  FunctionsNeedChip
  ChipOffWhenUnused
  SuppliesMatch
  SharedExact
