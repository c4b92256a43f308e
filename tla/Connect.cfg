SPECIFICATION ConnectSpec
CONSTANTS
  s1 = s1
  s2 = s2
  NoId = NoId
  Ids = {s1, s2}
  ComputeWait = 12
  HttpTimeout = 3
  OpenWait = 4
  PollStart = 1
  PollMax = 5
  RetryDelays = {0, 9}
  GetTime = 8
  MaxRetries = 3
  MaxElapsed = 5
  BackoffBase = 1
  BackoffMax = 4
  RetryAfters = {0, 5, 20}
  RequestTime = 3
INVARIANTS
  ReturnedIsOpen
  WaitBounded
  NoSessionLeft
PROPERTIES
  OpensAsSpecified
CHECK_DEADLOCK FALSE
