SPECIFICATION CommandSpec
CONSTANTS
  s1 = s1
  s2 = s2
  s3 = s3
  None = None
  Statements = {s1, s2, s3}
  NoLimit = NoLimit
  Budget = 6
  Hold = 2
  Delays = {1, 3}
  Latency = 1
  MaxPresses = 2
  PageSize = 2
  Limits = {0, 1, 2, 3}
  MaxRows = 5
  NoWait = NoWait
  Waits = {0, 2, 8}
  ServerHold = 3
  OpenDelays = {1, 2}
  LongestDelay = 2
  OpenLatency = 1
INVARIANTS
  GivesUpRightly
  
  AllAnswered
  SessionReleased
  OpenBounded
CHECK_DEADLOCK FALSE
