SPECIFICATION FairSpec
CONSTANTS
  Kinds = {"managed", "reference", "sql"}
  Parts = 2
  Attempts = 5
  MaxRuns = 2
  MaxSessions = 4
INVARIANTS
  NoDuplicates
  LoadedIsCommitted
  StagedOnOwnSession
PROPERTIES
  RunEnds
CHECK_DEADLOCK FALSE
