CONSTANTS
  u1 = u1
  k1 = k1
  k2 = k2
  r1 = r1
  r2 = r2
  None = None
  Users <- MCUsers
  Tokens <- MCTokens
  Requests <- MCRequests
  Window = 3
  Lifetime = 5
  Delay = 1
  MaxTime = 6
  MaxCrashes = 1
SPECIFICATION Spec
CHECK_DEADLOCK FALSE
INVARIANTS
  TypeOK
  LifetimeBounded
  
PROPERTIES
  EndedStaysEnded
