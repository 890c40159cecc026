SPECIFICATION FairSpec
CONSTANTS
  Run = run
  Stoppers = {s1, s2}
  Sentinel = sentinel
  NoOne = nobody
  QueueMaxSize = 2
  BatchMax = 2
  MaxShutdownRetries = 2
  MaxEntries = 3
  MaxInsertFaults = 5
  MaxConnectFaults = 1
  MaxCancels = 0
  ConnectMayFailForGood = FALSE
INVARIANTS TypeOK OneInsertAtATime PublishedAfterCommit  
PROPERTIES DeliversInOrder EntriesSettle StopReturns
