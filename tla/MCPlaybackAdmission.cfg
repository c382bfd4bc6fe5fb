CONSTANTS
  a1 = a1
  a2 = a2
  a3 = a3
  b1 = b1
  Session <- MCSession
  NoSession = NoSession
  ViewOf <- MCViewOf
  SafeDefault = 1
  Limits = {0, 2}
SPECIFICATION Spec
SYMMETRY MCSymmetry
INVARIANTS
  TypeOK
  QueueIsDisciplined
PROPERTIES
  GrantsWithinLimit
  NobodyOvertakesTheQueue
  FifoWithinClass
