SPECIFICATION Spec
CONSTANTS
  f1 = f1
  f2 = f2
  f3 = f3
  Assets <- MCAssets
  Policy <- MCPolicy
  Selections <- MCSelections
  Workers = {w1}
  ConfirmBatch = 2
  MaxRuns = 1
  Faults = {"upload"}
  MaxFaults = 1
  None = None
INVARIANT DeletedWasSent
CHECK_DEADLOCK FALSE
