SPECIFICATION Spec
CONSTANTS
  Args <- MCArgs
  Keys = {0, 1}
  MaxThreads = 2
  MayFail = TRUE
INVARIANTS
  TypeOK
  WorkIsSafe
  RoundsInOrder
PROPERTIES
  RecordsKept
  Terminates
CHECK_DEADLOCK FALSE
