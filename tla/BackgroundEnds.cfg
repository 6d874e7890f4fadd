SPECIFICATION FairSpec
CONSTANTS
  Assets = {j1}
  Size = 2
  None = None
  Faults = {"kill", "appkill", "late"}
  Callers = {r1}
  Declares = {FALSE}
  MaxUploads = 2
  MaxFaults = 1
  MaxTasks = 2
  MaxAttempts = 2
  MaxBatches = 1
PROPERTY JobsEnd
CHECK_DEADLOCK FALSE
