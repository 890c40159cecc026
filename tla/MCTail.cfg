SPECIFICATION TailFairSpec
CONSTANTS
  TicksPerSecond = 2
  Fragments = {1}
  Shuffled = TRUE
  MaxLines = 4
  MaxTime = 4
  MaxBreaks = 2
  MaxDeaths = 1
  MaxRejections = 1
INVARIANTS  FedOnceInOrder
 
CHECK_DEADLOCK FALSE
