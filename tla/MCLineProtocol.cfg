SPECIFICATION SessionSpec
CONSTANTS
  Lines <- EveryLine
  MaxLines = 3
INVARIANTS
  InStep
PROPERTIES
  Answered
  ThreadEnds
CHECK_DEADLOCK FALSE
