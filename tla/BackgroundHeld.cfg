SPECIFICATION Spec
CONSTANTS
  Assets = {j1}
  Size = 2
  None = None
  Faults = {}
  Callers = {r1}
  Declares = {FALSE}
  MaxUploads = 2
  MaxFaults = 0
  MaxTasks = 2
  MaxAttempts = 2
  MaxBatches = 1
INVARIANT SentIsHeld
CHECK_DEADLOCK FALSE
