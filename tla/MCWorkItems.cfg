CONSTANTS
  i1 = i1
  i2 = i2
  u1 = u1
  x1 = x1
  None = None
  Items <- MCItems
  Staff <- MCStaff
  Assets <- MCAssets
  Codes <- MCCodes
  Exts = {}
  Parties = {}
  InitialStatuses = {"NEW"}
  LooseForeignKeys = TRUE
  MaxMessages = 3
  MaxAudit = 6
SYMMETRY MCSymmetry
SPECIFICATION TicketSpec
CHECK_DEADLOCK FALSE
INVARIANTS
  TypeOK
  AuditExplainsStatus
  AuditChain
  TrailMatchesTables
PROPERTIES
  LegalSteps
