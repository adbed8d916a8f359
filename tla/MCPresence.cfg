CONSTANTS
  a = a
  b = b
  pa = pa
  pb = pb
  None = None
  Users <- MCUsers
  Pages <- MCPages
  Owner <- MCOwner
  Slots = {1, 2}
  Interval = 1
  TTL = 3
  Delay = 1
  MaxMoves = 3
  MaxFaults = 1
SPECIFICATION Spec
INVARIANTS
  TypeOK
  StillListed
  OneIsWarned
PROPERTIES
  BothAreWarned
  DraftsShow
