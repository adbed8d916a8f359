CONSTANTS
  c1 = c1
  o1 = o1
  n1 = n1
  ph = ph
  t1 = t1
  h1 = h1
  h2 = h2
  v1 = v1
  v2 = v2
  None = None
  Contacts <- MCContacts
  Orgs <- MCOrgs
  Names = {n1}
  Addresses <- MCAddresses
  Canonical <- MCCanonical
  Kind <- MCKind
  Items <- MCItems
  Requester <- MCRequester
  LooseForeignKeys = FALSE
  Hooks <- MCHooks
  Operators <- MCOperators
  Number = ph
  Limit = 1
  Buffer = 1
  Wire = 1
  MaxCalls = 2
  MaxDrops = 1
SYMMETRY MCSymmetry
SPECIFICATION CallsSpec
INVARIANTS
  CallsTypeOK
  LinkHasCaller
  LatestOnItsWay
