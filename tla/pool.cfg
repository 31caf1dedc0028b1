SPECIFICATION Spec
CONSTANTS
  r1 = r1 r2 = r2 r3 = r3 pa = pa pb = pb q1 = q1 q2 = q2 q3 = q3
  Repos = {r1, r2, r3}
  Paths = {pa, pb}
  PathOf <- MCPathOf
  Queries = {q1, q2, q3}
  MaxConns = 1
  MaxPool = 2
  Attempts = 2
  Scanners = {q3}
  Labels = 2
  Lockable = {pb}
  MaxEntries = 3
SYMMETRY MCSymmetry
INVARIANTS
  TypeOK
  ConnectionsAccounted
  NoWaitBesideFree
  DatabasesCounted
  QueriesKeepDatabase
PROPERTIES
  ImplementsPermits
CHECK_DEADLOCK FALSE
