SPECIFICATION FairSpec
CONSTANTS
  Prod = {p1}
  Cons = {c1}
  Main = main
  NoThread = NoThread
  Msg = {m1, m2}
  Garbage = Garbage
  InitSize = 1
  MaxSize = 2
  MaxThreads = 2
  MaxAdded = 3
  MaxSignals = 1
  KillCommands = TRUE
  PrintfCancels = TRUE
  ExactShrink = FALSE
INVARIANTS
  RingCoherent
PROPERTIES
  FifoRefinement
  StopTerminates
CHECK_DEADLOCK FALSE
