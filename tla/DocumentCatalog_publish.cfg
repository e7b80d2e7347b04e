CONSTANTS
  None = None
  q1 = q1
  q2 = q2
  q3 = q3
  f1 = f1
  p1 = p1
  t1 = t1
  t2 = t2
  Request = {q1, q2, q3}
  FamilyCode = {f1}
  PolicyCode = {p1}
  TypeCode = {t1}
  Canonical <- MCCanonical
  MaxVersion = 3
  MaxClock = 3
  MaxPatches = 0
SPECIFICATION PublishSpec
SYMMETRY Handlers
INVARIANTS
  OneVersionInForce
  PublishNeverConflicts
PROPERTIES
  VersionsAreImmutable
  ImplementsHistory
