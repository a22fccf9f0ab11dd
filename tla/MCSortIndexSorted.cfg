SPECIFICATION Spec
CONSTANTS
  Args <- MCArgs
  Keys = {0, 1}
  MaxThreads = 2
  MayFail = FALSE
INVARIANTS
  SortedOnSuccess
CHECK_DEADLOCK FALSE
