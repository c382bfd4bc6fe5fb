SPECIFICATION Spec
CONSTANTS
  User = {u1}
  Path = {p1}
  Instance = {i1}
  None = None
  Grant = {g1}
  Use = {x1}
  MaxRow = 1
  MaxFailures = 0
INVARIANT NoStalePermission
