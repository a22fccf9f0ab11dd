SPECIFICATION Spec
CONSTANTS
  Prod = {p1}
  Cons = {c1}
  NoThread = NoThread
  Msg = {m1}
  Garbage = Garbage
  InitSize = 1
  MaxSize = 2
  MaxThreads = 1
  MaxAdded = 2
  MaxSignals = 1
  Resizes = TRUE
INVARIANTS
  TypeOK
  TokensMatch
  RingCoherent
PROPERTIES
  StopTerminates
CHECK_DEADLOCK FALSE
