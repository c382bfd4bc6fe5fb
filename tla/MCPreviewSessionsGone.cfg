CONSTANTS
  s1 = s1
  Session <- MCSession
  NoSession = NoSession
  ViewOf <- MCViewOf
  SafeDefault = 1
  Limits = {0}
  MaxGets = 3
  Attempts = 2
  MayOverrun = TRUE
SPECIFICATION Spec
INVARIANTS
  NoProcessWithoutClient
