SPECIFICATION WalkSpec
CONSTANTS
  Last = 3
  MaxDepth = 1
  Filters = {{}, {"dir"}, {"file", "link"}}
INVARIANTS
  WalkTypeOK
  ReportComplete
CHECK_DEADLOCK FALSE
