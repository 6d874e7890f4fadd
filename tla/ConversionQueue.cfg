SPECIFICATION FairConversionSpec
CONSTANTS
  f1 = f1
  f2 = f2
  Assets <- MCAssets
  Policy <- MCPolicy
  Workers = {w1, w2}
  Faults = {"kill", "ledger", "remove", "rot"}
  MaxFaults = 3
  None = None
INVARIANT OneWorkerPerFile RemovedIsReplaced
PROPERTY ConversionsEnd
CHECK_DEADLOCK FALSE
