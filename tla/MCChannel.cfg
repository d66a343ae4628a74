SPECIFICATION LiveSpec
CONSTANTS
  NULL = NULL
  Reader = rd
  Writer = wr
  Task = {rd, wr}
  Spot = spot
  Slot = {spot}
  MaxWrites = 5
  Size = 2
  Wrap = 4
  Monitors = {"channel_window", "ring_buffer"}
INVARIANTS
  TypeOK
  InOrder
  SentIsRead
  NoDanglingReader
  SlotsSound
  OnlyWriteAsserts
PROPERTIES
  CallsReturn
  ImplementsFifo
CHECK_DEADLOCK FALSE
