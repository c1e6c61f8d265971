\* One worker, with child processes or a tmux shell, that crashes, is stopped, loses its shell and runs commands of every kind, three
\* leases, a cancellation and a session that ends.
SPECIFICATION FairSpec
CONSTANTS
  Workers = {w1}
  Executions = {e1}
  Services = {}
  Scanners = {}
  Runtimes = {TRUE, FALSE}
  Cancellable = {e1}
  Crashing = {w1}
  Stopping = {w1}
  Detaching = {w1}
  Mortal = {e1}
  Kinds = {"command", "virtual", "refused"}
  StoreErrors = FALSE
  MaxAttempts = 3
  MaxProcesses = 1
  TokenBound = 3
  None = None
PROPERTIES
  NoLateStart
  RunsEnd
  WorkerReturns
\* Nothing is left to do once every execution is over and no token is left.
CHECK_DEADLOCK FALSE
