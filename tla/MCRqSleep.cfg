SPECIFICATION Spec
CONSTANTS
  Task = {1, 2, 3}
  Host = 2
  Unit = 2
  MinBurst = 2
  MaxBurst = 4
  MaxVruntime = 4
  Durations = {1}
  MaxWall = 2
  Respawn = TRUE
  Handoffs = FALSE
INVARIANTS
  SleepsLongEnough
CHECK_DEADLOCK FALSE
