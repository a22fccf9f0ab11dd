SPECIFICATION Spec
CONSTANTS
  Prod = {p1, p2}
  Cons = {c1}
  Main = main
  NoThread = NoThread
  Msg = {m1}
  Garbage = Garbage
  InitSize = 1
  MaxSize = 2
  MaxThreads = 2
  MaxAdded = 2
  MaxSignals = 1
  KillCommands = TRUE
  PrintfCancels = TRUE
  ExactShrink = TRUE
SYMMETRY Interchangeable
INVARIANTS
  TypeOK
  OnlyOwnerInside
  NoLostWakeup
  NobodyWaitsAfterBroadcast
  NoUseAfterDestroy
CHECK_DEADLOCK FALSE
