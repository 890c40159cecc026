SPECIFICATION FairSpec
CONSTANTS
  Containers = {a, b}
  None = none
  MaxChanges = 2
  MaxErrors = 1
  MaxEofs = 1
  MaxHangs = 1
  GapChanges = FALSE
INVARIANT OneTailer
 
CHECK_DEADLOCK FALSE
