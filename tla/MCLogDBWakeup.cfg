CONSTANTS
  Slices = 3
  RowsPerSlice = 2
  RunsOver = FALSE
  Workers = 2
  MaxRows = 8
SPECIFICATION Spec
INVARIANT WaitHasWaker
CHECK_DEADLOCK FALSE
