\* The whole life of one execution under fair time, recovery scans, pollers and forgetting.
SPECIFICATION FairSpec
CONSTANTS
  Workers = {w1, w2}
  Executions = {e1}
  Tokens = {t1, t2}
  s1 = s1
  Sessions = {s1}
  SessionOf <- OneSession
  MaxAttempts = 3
  LeaseMs = 1
  MaxLeaseMs = 2
  Skew = 1
  MaxQueueDepth = 1
  MaxConcurrent = 1
  CountBound = 1
  NoLease = NoLease
  NoExecution = NoExecution
  NoOwner = NoOwner
INVARIANTS
  
  IndexesAreTrue

  
CHECK_DEADLOCK FALSE
