SPECIFICATION Spec
CONSTANTS
  kernel = kernel
  nginx = nginx
  Kinds = {kernel, nginx}
  NoFilter <- MCNoFilter
  Filters <- AllFilters
  Ways = {"enter"}
  PageSize = 1
  MaxBufferSize = 3
  BatchSize = 2
  ContextLines = 1
  MaxRows = 3
  MaxActs = 2
  MaxBreaks = 1
INVARIANTS ViewMatchesFilters SelectionFollowsRow 
CHECK_DEADLOCK FALSE
