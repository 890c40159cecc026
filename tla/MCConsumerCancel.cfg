SPECIFICATION Spec
CONSTANTS
  Run = run
  Stoppers = {s1}
  Sentinel = sentinel
  NoOne = nobody
  QueueMaxSize = 3
  BatchMax = 2
  MaxShutdownRetries = 2
  MaxEntries = 3
  MaxInsertFaults = 1
  MaxConnectFaults = 0
  MaxCancels = 2
  ConnectMayFailForGood = FALSE
INVARIANT CancelPreserves
CHECK_DEADLOCK FALSE
