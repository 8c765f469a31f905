SPECIFICATION PeerFairSpec
CONSTANTS
  c1 = c1
  c2 = c2
  p1 = p1
  p2 = p2
  Client = {c1, c2}
  Handler = {h1}
  Proc = {p1, p2}
  Mortal = {}
  NoPid = NoPid
  PidOf <- MCPidOf
  N = 2
  QueueCap = 1
  GenMod = 3
  GenStart = 1
  FirstQueries = 1
  OtherQueries = 1
  MaxQueries <- MCMaxQueries
  CanExpire = FALSE
  HasDeadline = TRUE
  CanFail = FALSE
  CanOverflow = FALSE
  Worlds <- Mixed
INVARIANTS OwnResponse NonZeroId NoLeak
PROPERTIES QueriesEnd
CHECK_DEADLOCK FALSE
