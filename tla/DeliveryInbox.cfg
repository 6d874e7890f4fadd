SPECIFICATION FairSpec
CONSTANTS
  Phone = phone
  Items = {i1}
  Digests = {g1}
  None = None
  Resumers = {r1}
  MaxAttempts = 1
  MaxTasks = 1
  MaxCrashes = 1
  MaxFetches = 2
INVARIANT RetiredIsSaved EachBodySavedOnce
PROPERTY AcknowledgementsGetThrough ReceiverKeepsItsPromise
CHECK_DEADLOCK FALSE
