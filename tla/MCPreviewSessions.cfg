CONSTANTS
  s1 = s1
  s2 = s2
  Session <- MCSession
  NoSession = NoSession
  ViewOf <- MCViewOf
  SafeDefault = 1
  Limits = {0}
  MaxGets = 2
  Attempts = 2
  MayOverrun = TRUE
SPECIFICATION MCSpec
SYMMETRY MCSymmetry
INVARIANTS
  OneProcessPerSession
  ProcessHoldsLease
  OrphansAreKilled
  NoLeakedLease
PROPERTIES
  LeaseOutlivesProcess
  OnlyTheOwnerSpawns
