SPECIFICATION LiveSpec
CONSTANTS
  NULL = NULL
  Task = {host, t1, t2}
  Host = host
  MaxPool = 1
  TickAt = {"user", "sched", "join", "claim"}
  Sleeps = FALSE
INVARIANTS
  NoLostTask
  NoFault
PROPERTIES
  JoinReturns
  DetachedReclaimed
