SPECIFICATION Spec
CONSTANTS
  d1 = d1
  d2 = d2
  p1 = p1
  t1 = t1
  t2 = t2
  h1 = h1
  h2 = h2
  h3 = h3
  l1 = l1
  l2 = l2
  s1 = s1
  s2 = s2
  Docs <- MCDocs
  PathKeys <- MCPathKeys
  TitleKeys <- MCTitleKeys
  Handles <- MCHandles
  LeaseIds <- MCLeaseIds
  Sessions <- MCSessions
  None = None
  MaxUnnoticed = 1
SYMMETRY RegistrySymmetry
INVARIANTS TypeOK RegistryInv KeysCurrent GrantKept WriterHoldsLease
PROPERTIES HandleStable
