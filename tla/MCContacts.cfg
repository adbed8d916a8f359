CONSTANTS
  c1 = c1
  c2 = c2
  o1 = o1
  o2 = o2
  n1 = n1
  m = m
  mm = mm
  ph = ph
  t1 = t1
  None = None
  Contacts <- MCContacts
  Orgs <- MCOrgs
  Names = {n1}
  Addresses <- MCAddresses
  Canonical <- MCCanonical
  Kind <- MCKind
  Items <- MCItems
  Requester <- MCRequester
  LooseForeignKeys = TRUE
SYMMETRY MCSymmetry
SPECIFICATION Spec
INVARIANTS
  ReferencesResolve
PROPERTIES
  SecondMainByPromotion
  PrimaryNotLost
  PromotedOwnsAddress
