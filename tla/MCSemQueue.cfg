SPECIFICATION Spec
CONSTANTS
  Prod = {p1}
  Cons = {c1}
  NoProc = NoProc
  Msg = {m1, m2}
  Garbage = Garbage
  QueueSize = 2
  MaxAdded = 3
  MaxSignals = 1
INVARIANTS
  TypeOK
  ExclusiveUnlessBarged
  SlotsAccounted
  RingCoherent
PROPERTIES
  StuckOnlyByMissedTerm
  ShutdownTerminates
CHECK_DEADLOCK FALSE
