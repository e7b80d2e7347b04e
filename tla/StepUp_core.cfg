CONSTANTS
  None = None
  q1 = q1
  q2 = q2
  s1 = s1
  s2 = s2
  f1 = f1
  f2 = f2
  k1 = k1
  k2 = k2
  c1 = c1
  c2 = c2
  high = high
  critical = critical
  Request = {q1, q2}
  Session = {s1, s2}
  FactorId = {f1, f2}
  CodeId = {k1, k2}
  ChallengeId = {c1}
  Policy = {high, critical}
  GrantTTL <- MCGrantTTL
  ChallengeTTL = 1
  MaxAttempts = 2
  CodesPerFactor = 1
  MaxClock = 2
SPECIFICATION HistorySpec
SYMMETRY Interchangeable
INVARIANTS
  AttemptsAreExact
  ConfirmationReplaces
PROPERTIES
  AllowedOnFreshProof
  ImplementsLedger
