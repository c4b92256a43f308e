SPECIFICATION FairSpec
CONSTANTS
  u1 = u1
  u2 = u2
  None = None
  Cursors = {u1, u2}
  Statements = {1, 2}
  MaxExecutes = 2
  MaxPolls = 2
INVARIANTS
  RowsAreFinished
  NoSilentOrphan
  CancelStopsRecorded
PROPERTIES
  ExecuteEnds
CHECK_DEADLOCK FALSE
