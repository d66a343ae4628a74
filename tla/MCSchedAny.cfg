SPECIFICATION Spec
CONSTANTS
  NULL = NULL
  Task = {host, t1, t2, t3}
  Host = host
  MaxPool = 1
  TickAt = {"user", "make", "sched", "join", "claim", "return", "entry"}
  Sleeps = TRUE
SYMMETRY Spawned
INVARIANTS
  TypeOK
  QueuedOnce
  NoUseAfterReturn
  JoinSeesResult
  NoLeak
PROPERTIES
  NeverFreesRunningStack
CHECK_DEADLOCK FALSE
