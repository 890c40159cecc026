SPECIFICATION LiveSpec
CONSTANTS
  s1 = s1
  s2 = s2
  kernel = kernel
  nginx = nginx
  Subscribers = {s1, s2}
  Kinds = {kernel, nginx}
  Wanted <- MCWanted
  MaxEvents <- MCMaxEvents
  MaxSize = 2
  MaxBatch = 2
  MaxEntries = 3
INVARIANTS  NewestKept
PROPERTIES FeedSpec GoneIsReleased
CHECK_DEADLOCK FALSE
