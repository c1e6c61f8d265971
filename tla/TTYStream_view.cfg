\* A viewer whose windows all slide, in both modes, and everything that can fail or be asked for.
SPECIFICATION FairSpec
CONSTANTS
  Viewers = {v1}
  Modes = {"realtime", "polling"}
  MaxReplay = 2
  MaxBuffered = 1
  MaxQueue = 2
  Faults = {"trim", "read", "wire", "network", "restart", "user"}
  MaxEvents = 3
  MaxFaults = 1
  None = None
INVARIANTS
  FramesInOrder
  GapIsNoticed

  
\* Nothing is left to do once the completion has been shown.
CHECK_DEADLOCK FALSE
