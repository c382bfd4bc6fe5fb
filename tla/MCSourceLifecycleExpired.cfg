SPECIFICATION FairSpec
CONSTANTS
  Path = {p1}
  Pass = {t1}
  Ttl = 3
  MaxUpsets = 1
  MaxToken = 12
PROPERTY LiveSourceHasAnInstance
