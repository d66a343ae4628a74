SPECIFICATION LiveSpec
CONSTANTS
  NULL = NULL
  Task = {t1, t2, t3}
  Slot = {t1, t2, t3}
INVARIANTS
  TypeOK
  MutualExclusion
  NoLostWakeup
  WaiterOutlivesPark
  WaitersCounted
  NoFault
PROPERTY WaiterIsWoken
