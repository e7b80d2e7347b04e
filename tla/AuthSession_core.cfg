CONSTANTS
  None = None
  q1 = q1
  q2 = q2
  u1 = u1
  u2 = u2
  Request = {q1, q2}
  User = {u1, u2}
  SessionId = {1, 2}
  IdleTimeout = 0
  AbsoluteTTL = 2
  MaxClock = 2
SPECIFICATION HistorySpec
SYMMETRY Interchangeable
INVARIANTS
  OnlyUserEditsDeadlock
PROPERTIES
  RevocationIsComplete
  WorkKeepsItsSession
  DisabledUsersGainNothing
  ImplementsLifecycle
