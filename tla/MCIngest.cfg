CONSTANTS
  i1 = i1
  i2 = i2
  u1 = u1
  p1 = p1
  e1 = e1
  e2 = e2
  e3 = e3
  n1 = n1
  w = w
  h1 = h1
  h2 = h2
  None = None
  Items <- MCItems
  Staff <- MCStaff
  Assets = {}
  Codes = {1002}
  Exts <- MCExts
  Parties <- MCParties
  InitialStatuses = {"NEW"}
  LooseForeignKeys = FALSE
  MaxMessages = 3
  MaxAudit = 5
  Worker = w
  Hooks <- MCTwoHooks
  Mails <- MCMails
  Voicemails <- MCVoicemails
  Trimmed <- MCBare
  QueryFails = TRUE
  FirstCode = 1001
SYMMETRY MCSymmetry
SPECIFICATION Spec
CHECK_DEADLOCK FALSE
INVARIANTS
  IngestTypeOK
  GapsNeedRace
  NoUnseenReply
  ThreadNotSplit
  GeneratedCodesDiffer
  AlertsFollowCommit
PROPERTIES
  ClosedNeedsOperator
