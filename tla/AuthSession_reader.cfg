CONSTANTS
  None = None
  Request = {q1}
  User = {u1}
  SessionId = {1}
  IdleTimeout = 1
  AbsoluteTTL = 4
  MaxClock = 3
SPECIFICATION PlainSpec
INVARIANTS
  ExpiryIsForInactivity
