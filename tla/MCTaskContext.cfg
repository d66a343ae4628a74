SPECIFICATION Spec
CONSTANTS
  NULL = NULL
  Host = host
  Task = {host, a, b}
  Attrs <- MCAttrs
  DefaultGuard = 9
  KStackMin = 1
  MaxPool = 1
  Modules = 2
  Static = {1}
  MemSize <- MCMemSize
  Align <- MCAlign
INVARIANTS
  TypeOK
  OwnContext
  OwnName
  UserReady
  OnlyBorrowersFail
  CleanStart
  BlocksAccounted
PROPERTIES
  ImplementsProcessor
CHECK_DEADLOCK FALSE
