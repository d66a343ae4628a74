SPECIFICATION Spec
CONSTANTS
  NULL = NULL
  Task = {host, t1, t2}
  Host = host
  MaxPool = 1
  TickAt = {}
  Sleeps = TRUE
SYMMETRY Spawned
INVARIANTS
  NoLostTask
CHECK_DEADLOCK FALSE
