SPECIFICATION PagingSpec
CONSTANTS
  MaxRows = 5
  FetchSize = 2
  FirstPageLimit = 1
  BatchSize = 2
  MaxMany = 2
  MaxCalls = 3
  MaxFaults = 2
INVARIANTS
  RowsInOrder
PROPERTY
  CursorSpec
CHECK_DEADLOCK FALSE
