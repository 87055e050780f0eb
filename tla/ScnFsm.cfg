CONSTANTS
  MaxScans = 3
  Firsts = {0, 50, 255}
  MaxTimeouts = 1
SPECIFICATION Spec
INVARIANTS ChipWorksForIt OneScanAtChip
PROPERTIES AllScansEnd IsScanService
CHECK_DEADLOCK FALSE
