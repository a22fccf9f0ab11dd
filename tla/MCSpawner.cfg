SPECIFICATION SpawnSpec
CONSTANTS
  Child = {c1, c2, c3}
  InitCap = 2
  MaxNames = 4
INVARIANTS
  EnvTerminated
  QuitWaitsForAll
PROPERTIES
  ZombiesReaped
CHECK_DEADLOCK FALSE
