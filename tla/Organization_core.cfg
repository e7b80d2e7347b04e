CONSTANTS
  None = None
  q1 = q1
  q2 = q2
  o1 = o1
  b1 = b1
  w1 = w1
  w2 = w2
  s1 = s1
  rs = rs
  r1 = r1
  u1 = u1
  l1 = l1
  l2 = l2
  l3 = l3
  Request = {q1, q2}
  Org = {o1}
  Branch = {b1}
  Warehouse = {w1, w2}
  Series = {s1}
  Role = {rs, r1}
  User = {u1}
  Location = {l1, l2, l3}
  Permission = {"read", "void"}
  Mutation = {"void"}
  Code = {"AUDITOR", "c"}
  AuditorCode = "AUDITOR"
  SystemRole = {rs}
SPECIFICATION MCSpec
SYMMETRY Handlers
INVARIANTS
  ReferencesHold
  CodesAreUnique
  LocationsArePrivate
PROPERTIES
  AssignmentReplaces
  
