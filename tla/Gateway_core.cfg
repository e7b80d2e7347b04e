CONSTANTS
  None = None
  q1 = q1
  q2 = q2
  q3 = q3
  u1 = u1
  ra = ra
  rd = rd
  rc = rc
  Request = {q1, q2, q3}
  Calls <- MCCalls
  User = {u1}
  Role = {ra, rd, rc}
  CodeOf <- MCCodeOf
  SystemRole = {ra, rd}
  Requestable <- MCRequestable
  Absent = Absent
  Types <- MCTypes
  Branches <- MCBranches
  Organization = {"o1"}
  Year <- MCYear
  Now = 2026
  Correlative = {1, 2026}
  Contexts <- MCContexts
SPECIFICATION MCSpec
INVARIANTS
  RightsAreRecent
  AuditorIsReadOnly
  SamplesAreHonest
PROPERTIES
  PublishedMatrixHolds
  LoadRestoresBaselines
  OutputsAreIdentified
