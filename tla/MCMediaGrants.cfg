SPECIFICATION FairSpec
CONSTANTS
  User = {u1}
  Path = {p1}
  Instance = {i1, i2}
  None = None
  Grant = {g1}
  Use = {x1}
  MaxRow = 2
  MaxFailures = 2
INVARIANTS TypeOK RevocationCoversUse NoRevocationLost
PROPERTIES GoneSourceStaysGone RevocationsDrained
