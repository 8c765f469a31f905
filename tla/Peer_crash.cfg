SPECIFICATION PeerFairSpec
CONSTANTS
  c1 = c1
  c2 = c2
  p1 = p1
  p2 = p2
  Client = {c1, c2}
  Handler = {h1}
  Proc = {p1, p2}
  Mortal = {p1}
  NoPid = NoPid
  PidOf <- MCPidOf
  N = 1
  QueueCap = 2
  GenMod = 16
  GenStart = 0
  FirstQueries = 1
  OtherQueries = 2
  MaxQueries <- MCMaxQueries
  CanExpire = TRUE
  HasDeadline = TRUE
  CanFail = TRUE
  CanOverflow = TRUE
  Worlds <- Doomed
PROPERTIES DeadOwnerNoticed ExpiredEnds
CHECK_DEADLOCK FALSE
