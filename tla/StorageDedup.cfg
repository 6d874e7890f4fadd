SPECIFICATION Spec
CONSTANTS
  Devices = {d1}
  Digests = {g1, g2}
  Bases = {b1}
  Exts = {x1, x2}
  Pairs = {p1}
  None = None
  Commits = {c1, c2}
  MaxCounter = 1
  MaxKills = 1
  MaxTouched = 0
PROPERTY DuplicateWasPresent
CHECK_DEADLOCK FALSE
