CONSTANTS
  None = None
  Request = {q1, q2}
  User = {u1}
  SessionId = {1, 2}
  IdleTimeout = 0
  AbsoluteTTL = 2
  MaxClock = 2
SPECIFICATION FairSpec
PROPERTIES
  EveryRequestEnds
