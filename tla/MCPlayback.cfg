CONSTANTS
  s1 = s1
  a1 = a1
  a2 = a2
  b1 = b1
  User = {u1, u2}
  MaxSessions = 2
  NoSession = NoSession
SPECIFICATION MCSpec
CHECK_DEADLOCK FALSE
INVARIANTS
  TypeOK
  OwnFileIsNotCutShort
PROPERTIES
  ClosedSessionReleases
  TakeoverAnswered
  ContinuityServed
  GenerationSettles
