SPECIFICATION SceneSpec
CONSTANTS
  d1 = d1
  d2 = d2
  f1 = f1
  h1 = h1
  h2 = h2
  c1 = c1
  Devices = {d1, d2}
  Files = {f1}
  Handlers = {h1, h2}
  Callers = {c1}
  None = None
  MaxItems = 2
  MaxVersion = 3
INVARIANT OfferIsVerifiable DeliveredIsHeld OnlyTheOwnerCollects NoLostWakeUp
PROPERTY ServedMatchesDigest ImplementsOffer EventuallyPrepared
CHECK_DEADLOCK FALSE
