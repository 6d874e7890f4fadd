SPECIFICATION Spec
CONSTANTS
  f1 = f1
  f2 = f2
  f3 = f3
  Assets <- MCAssets
  Policy <- MCPolicy
  Selections <- MCSelections
  Workers = {w1}
  ConfirmBatch = 2
  MaxRuns = 2
  Faults = {"kill", "rot", "upload", "hash", "lost", "appkill", "forget"}
  MaxFaults = 1
  None = None
PROPERTY DeletesAreVouched
CHECK_DEADLOCK FALSE
