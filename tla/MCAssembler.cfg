SPECIFICATION Spec
CONSTANTS
  Streams = {a, b, c}
  Kinds = {"head", "trace", "ctx"}
  Sizes = {1, 3}
  MaxStreamLines = 3
  MaxStreamBytes = 5
  MaxTotalStreams = 2
  MaxStreamLifetime = 2
  FlushTimeout = 2
  QueueMaxSize = 1
  MaxFeeds = 3
  MaxTime = 2
SYMMETRY StreamSymmetry
INVARIANTS TypeOK CapacityBound LinesConserved LifetimeRespected OneEntryPerRecord
PROPERTY EvictsOldest
CHECK_DEADLOCK FALSE
