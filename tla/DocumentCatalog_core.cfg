CONSTANTS
  None = None
  q1 = q1
  q2 = q2
  q3 = q3
  f1 = f1
  p1 = p1
  t1 = t1
  t2 = t2
  Request = {q1, q2}
  FamilyCode = {f1}
  PolicyCode = {p1}
  TypeCode = {t1}
  Canonical <- MCShortCanonical
  MaxVersion = 2
  MaxClock = 1
  MaxPatches = 1
SPECIFICATION FairSpec
INVARIANTS
  LoadIsComplete
  ListingIsRecent
PROPERTIES
  ChangesAreAudited
  EveryRequestEnds
