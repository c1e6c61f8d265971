SPECIFICATION ExecutorSpec
CONSTANTS
  a = a
  b = b
  c = c
  gpu = gpu
  Plans <- ExecutionPlans
  ResourceIds = {gpu}
  PoolIds = {lane}
  TaskIds = {a, b, c}
  Capacities = {1, 3}
  Amounts = {1, 2}
  States = {"available", "unavailable"}
  MaxRecords = 2
  MaxTime = 1
  MaxCalls = 0
  MaxManual = 1
  None = None
INVARIANT
  DrivesToCompletion
CHECK_DEADLOCK FALSE
