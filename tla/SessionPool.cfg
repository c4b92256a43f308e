SPECIFICATION FairSpec
CONSTANTS
  c1 = c1
  c2 = c2
  c3 = c3
  raw = raw
  other = other
  s1 = s1
  s2 = s2
  AtExit = AtExit
  NoSession = NoSession
  NoKey = NoKey
  Clients = {c1, c2, c3}
  Sessions = {s1, s2}
  Keys <- MCKeys
  Key <- MCKey
INVARIANTS
  OneUserPerSession
  NoDeadHandle
  SessionFits
  NothingLeftAtExit
PROPERTIES
  LeaseSpec
  LeaseEnds
CHECK_DEADLOCK FALSE
