SPECIFICATION Spec
CONSTANTS
  t1 = t1
  t2 = t2
  s1 = s1
  s2 = s2
  s3 = s3
  None = None
  Threads = {t1, t2}
  Sessions = {s1, s2, s3}
SYMMETRY NameSymmetry
INVARIANTS
  OwnSession
  NothingLost
  RunsOnce
CHECK_DEADLOCK FALSE
