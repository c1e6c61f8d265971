\* Two workers with child processes, one of which crashes, a store that fails, and a
\* recovery service that requeues their executions; or one worker with a tmux shell, and repairs.
SPECIFICATION Spec
CONSTANTS
  Workers = {w1, w2}
  Executions = {e1}
  Services = {r1}
  Scanners = {r1}
  Runtimes = {TRUE, FALSE}
  Cancellable = {}
  Crashing = {w1}
  Stopping = {}
  Detaching = {}
  Mortal = {}
  Kinds = {"command"}
  StoreErrors = TRUE
  MaxAttempts = 2
  MaxProcesses = 1
  TokenBound = 2
  None = None
INVARIANTS
  OutcomeIsOwned
  

  
CONSTRAINT
  OneWithShells
\* Nothing is left to do once every execution is over and no token is left.
CHECK_DEADLOCK FALSE
