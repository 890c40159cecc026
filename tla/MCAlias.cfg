SPECIFICATION FairSpec
CONSTANTS
  Ip = ip
  Aliases = {a, b}
  None = none
  Requests = {r1, r2}
  Refresh = refresh
  BatchSize = 2
  Overlapping = FALSE
  MaxFailures = 1
  MaxEntries = 3
 
PROPERTY CacheCatchesUp
CHECK_DEADLOCK FALSE
