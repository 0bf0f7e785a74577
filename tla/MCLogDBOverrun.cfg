CONSTANTS
  Slices = 3
  RowsPerSlice = 2
  RunsOver = TRUE
  Workers = 2
  MaxRows = 8
SPECIFICATION Spec
INVARIANT FileIsLog
CHECK_DEADLOCK FALSE
