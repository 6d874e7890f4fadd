SPECIFICATION FairSpec
CONSTANTS
  d1 = d1
  d2 = d2
  h1 = h1
  h2 = h2
  p1 = p1
  p2 = p2
  n1 = n1
  n2 = n2
  u1 = u1
  f1 = f1
  None = None
  Receivers = {d1, d2, h1, h2}
  Ports = {p1, p2}
  Names = {n1, n2}
  Migrations = 1
  Daemons = {d1, d2}
  ConfigOf <- MCConfigOf
  MaxKills = 1
  Handles = {h1, h2}
  Calls = {"c"}
  Defaults <- MCDefaults
  Choices <- MCChoices
  MaxCalls = 2
  Uploads = {u1}
  Fetches = {f1}
  Size = 2
  Buffer = 2
  MaxBytes = 2
  Machines <- MCMachines
INVARIANTS TypeOK DirectoryIsShared   RowsMatch RateIsReal
PROPERTIES  CallsReturn
CHECK_DEADLOCK FALSE
