CONSTANTS
  Slices = 4
  RowsPerSlice = 2
  RunsOver = FALSE
  Workers = 3
  MaxRows = 19
SPECIFICATION FairSpec
INVARIANTS TypeOK TasksMatchStates OneWriter FileIsLog
PROPERTY AddDataEnds
CHECK_DEADLOCK FALSE
