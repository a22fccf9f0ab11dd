SPECIFICATION FieldSpec
CONSTANTS
  Procs = {p1, p2}
  Adders = {p1}
  Field <- MCField
  Rec <- MCRec
  Nothing = Nothing
  MaxRecords = 2
INVARIANTS
  ReadIsCurrent
PROPERTIES
  TakenBackOnlyWhenTold
  StoreRefinement
  EveryLockReleased
