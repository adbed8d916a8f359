CONSTANTS
  a = a
  b = b
  o = o
  Exts <- MCExts
  Own <- MCOwn
  PageSize = 2
  MaxFeed = 5
  MaxFaults = 2
  MaxIngestFailures = 0
SPECIFICATION Spec
PROPERTY Delivered
