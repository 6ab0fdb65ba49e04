CONSTANTS
  RxSize = 4
  BulkSize = 2
  BufLen = 2
  Faults = {"error", "submit", "line", "timeout"}
  MaxBytes = 5
  MaxZlps = 1
  MaxSets = 2
SPECIFICATION Spec
INVARIANTS TypeOK InOrder NothingLost Parked
PROPERTIES Flows ErrorTold
CHECK_DEADLOCK FALSE
