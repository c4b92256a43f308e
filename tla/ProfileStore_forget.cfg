SPECIFICATION StoreSpec
CONSTANTS
  default = default
  prod = prod
  h1 = h1
  h2 = h2
  t1 = t1
  t2 = t2
  p1 = p1
  p2 = p2
  None = None
  Torn = Torn
  Procs = {p1, p2}
  Names = {default, prod}
  DefaultName = default
  Hosts = {h1, h2}
  Tokens = {t1, t2}
  InitialFiles <- MCInitialFiles
SYMMETRY MCSymmetry
INVARIANTS
  ForgottenStaysForgotten
CHECK_DEADLOCK FALSE
