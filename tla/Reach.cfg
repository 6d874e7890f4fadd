SPECIFICATION FairSpec
CONSTANTS
  a1 = a1
  a2 = a2
  a3 = a3
  g = g
  m = m
  r1 = r1
  r2 = r2
  None = None
  Nobody = Nobody
  NoAddr = NoAddr
  Codes = {c1, c2}
  Phones = {p1, p2}
  Requests = {q1, q2}
  MaxTokens = 2
  MaxEvents = 2
  Receivers = {r1, r2}
  Hears <- MCHears
  Mdns = m
  Plans <- MCPlans
  Wanted = r1
  Readers = {"udp4"}
  Browser = "mdns"
  Rounds = 2
  MaxScans = 2
  MaxLost = 1
  MaxLate = 1
  Sources = {s1, s2}
  Burst = 2
  Cost = 2
  Idle = 4
  MaxTracked = 1
  TTL = 2
  MaxClock = 6
  MaxMoves = 1
  Addrs = {a1, a2, a3}
  Lists <- MCLists
  Dials = {k1, k2}
  MaxSets = 1
  f1 = f1
  f2 = f2
  f3 = f3
  Entries <- MCEntries
  PoolLimit = 1
  Lanes = 2
  MaxTaps = 4
INVARIANTS ScanIsRight  RaceKeepsOne LastGoodFirst NothingIsDropped
PROPERTIES CodesAreSpent RevokedStaysOut RaceEnds CopiesAreReleased
CHECK_DEADLOCK FALSE
