SPECIFICATION Spec
CONSTANTS
  Assets = {j1}
  Size = 2
  None = None
  Faults = {"kill", "sweep", "short", "appkill", "cancel"}
  Callers = {r1}
  Declares = {TRUE, FALSE}
  MaxUploads = 2
  MaxFaults = 2
  MaxTasks = 2
  MaxAttempts = 2
  MaxBatches = 1
   
PROPERTY CopiesAreOwned
CHECK_DEADLOCK FALSE
