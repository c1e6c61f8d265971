\* Two workers with skewed clocks and renewable leases.
SPECIFICATION Spec
CONSTANTS
  Workers = {w1, w2}
  Executions = {e1, e2}
  Tokens = {t1, t2}
  s1 = s1
  Sessions = {s1}
  SessionOf <- OneSession
  MaxAttempts = 2
  LeaseMs = 2
  MaxLeaseMs = 3
  Skew = 1
  MaxQueueDepth = 2
  MaxConcurrent = 1
  CountBound = 0
  NoLease = NoLease
  NoExecution = NoExecution
  NoOwner = NoOwner
SYMMETRY Symmetry
INVARIANTS
  ConcurrencyLimit
PROPERTIES
  ImplementsOwnership
CHECK_DEADLOCK FALSE
