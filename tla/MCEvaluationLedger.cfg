SPECIFICATION FairSpec
CONSTANTS
  c1 = c1
  c2 = c2
  l1 = l1
  l2 = l2
  t1 = t1
  t2 = t2
  Callers <- TwoCallers
  Lineages <- TwoLineages
  Theses <- TwoTheses
  NoRow = NoRow
  Unspent = Unspent
  None = None
  MaxAttempts = 2
INVARIANTS
  OneGrantPerLineage
  RefusalsAreTrue
  ReadsAreEntitled
PROPERTIES
  CallsReturn
  ImplementsEntitlement
