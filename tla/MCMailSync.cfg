CONSTANTS
  a = a
  b = b
  o = o
  Exts <- MCExts
  Own <- MCOwn
  PageSize = 2
  MaxFeed = 5
  MaxFaults = 2
  MaxIngestFailures = 2
SPECIFICATION Spec
INVARIANTS
  TypeOK
  LossBounded
PROPERTIES
  ImplementsMailbox
  DeliveredWithoutOwnPages
