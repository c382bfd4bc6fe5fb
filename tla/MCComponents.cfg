CONSTANTS
  Path = {p1}
  Pass = {t1, t2}
  Ttl = 3
  MaxUpsets = 3
  MaxToken = 12
  a1 = a1
  a2 = a2
  b1 = b1
  Browser = {"a", "b"}
  Tab <- MCTab
  BrowserOf <- MCBrowserOf
  MaxTokens = 3
  MaxSessions = 1
  Camera = {c1, c2}
  AiCall = {k1, k2}
  MaxPerKey = 2
  MaxTotal = 3
  MaxConcurrent = 2
  FailureThreshold = 2
  HalfOpenMaxCalls = 1
  OfflineConfirmChecks = 3
  RecoveryConfirmChecks = 2
  MaxAlerts = 3
  Viewer = {v1, v2}
  MaxRemovals = 1
  MaxTroubles = 1
  Removal = Removal
  Analytics = Analytics
  Worker = Worker
  Nobody = Nobody
SPECIFICATION CSpec
CHECK_DEADLOCK FALSE
INVARIANTS
  TypesOK
  HonestTabsAreNotThieves
  ReuseEndsTheFamily
  NoProbeIsLost
  OneUnresolvedAlert
  AlertsEndWithTheOutage
  WatchedPathExists
PROPERTIES
  NoInstanceReturns
  TokensAreExchanged
  GoneSourceLosesItsInstance
  WatchedPathComesBack
