SPECIFICATION MCSpec
CONSTANTS
  Views = {v1, v2}
  MaxRequests = 3
  MaxSpawns = 2
  MaxRestarts = 1
  MaxRetentions = 1
  MaxRefusals = 1
  MaxStarts = 1
  MaxMinted = 1
  MaxMoves = 2
  MaxCloses = 1
  MaxFaults = 1
SYMMETRY ViewSymmetry
INVARIANTS MCTypeOK ClosedStaysClosed NobodyWaitsForNothing RetainedIsUnwatched
           TabKnowsTheServer NoCloseIsAbandoned
PROPERTIES NoKillUnderAViewer
CHECK_DEADLOCK FALSE
