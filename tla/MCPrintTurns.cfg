SPECIFICATION Spec
CONSTANTS
  Child = {c1, c2}
  NoChild = NoChild
  MaxChildren = 2
  MaxCycles = 2
INVARIANTS
  TypeOK
  OnePrintPerPermission
  DroppedOnlyWhenTold
PROPERTIES
  StuckOnlyByMissedTerm
  EveryRequestAnswered
CHECK_DEADLOCK FALSE
