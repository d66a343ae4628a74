SPECIFICATION LiveSpec
CONSTANTS
  Task = {1, 2, 3}
  Host = 2
  Unit = 2
  MinBurst = 1
  MaxBurst = 2
  MaxVruntime = 4
  Durations = {}
  MaxWall = 0
  Respawn = FALSE
  Handoffs = FALSE
PROPERTIES
  EveryoneRuns
CHECK_DEADLOCK FALSE
