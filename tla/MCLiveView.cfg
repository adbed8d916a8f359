CONSTANTS
  v1 = v1
  Viewers <- MCViewers
  Buffer = 2
  MaxMessages = 3
  MaxTyping = 3
  MaxDrops = 1
  MaxFailures = 1
  Wire = 1
  MaxLoads = 3
SPECIFICATION Spec
CHECK_DEADLOCK FALSE
INVARIANTS
  TypeOK
  UpdateOnItsWay
PROPERTIES
  CatchesUp
