CONSTANTS
  None = None
  r1 = r1
  r2 = r2
  r3 = r3
  org1 = org1
  org2 = org2
  sc1 = sc1
  sc2 = sc2
  s1 = s1
  s2 = s2
  v1 = v1
  v2 = v2
  v3 = v3
  Request = {r1, r2}
  Org = {org1, org2}
  Scope = {sc1, sc2}
  SeriesId = {s1, s2}
  ReservationId = {v1}
  OrgOfRequest <- MCOrgOfRequest
  OrgOfScope <- MCOrgOfScope
  MaxReservationSize = 1
  MaxCorrelativeLimit = 1
SPECIFICATION MCFairSpec
INVARIANTS
  OneSeriesPerScope
  TenantIsolation
PROPERTIES
  EveryRequestEnds
