SPECIFICATION Spec
CONSTANTS
  Task = {1, 2, 3}
  Host = 2
  Unit = 2
  MinBurst = 2
  MaxBurst = 4
  MaxVruntime = 3
  Durations = {0, 1}
  MaxWall = 1
  Respawn = TRUE
  Handoffs = TRUE
INVARIANTS
  TypeOK
  KeepsPace
PROPERTIES
  ImplementsRunBag
CHECK_DEADLOCK FALSE
