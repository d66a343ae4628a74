SPECIFICATION Spec
CONSTANTS
  NULL = NULL
  Reader = rd
  Writer = wr
  Task = {rd, wr}
  Spot = spot
  Slot = {spot}
  MaxWrites = 2
  Size = 2
  Wrap = 4
  Monitors = {"channel_window"}
INVARIANT NoFault
CHECK_DEADLOCK FALSE
