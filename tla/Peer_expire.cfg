SPECIFICATION PeerSpec
CONSTANTS
  c1 = c1
  c2 = c2
  p1 = p1
  p2 = p2
  Client = {c1, c2}
  Handler = {h1}
  Proc = {p1, p2}
  Mortal = {}
  NoPid = NoPid
  PidOf <- MCPidOf
  N = 1
  QueueCap = 3
  GenMod = 16
  GenStart = 0
  FirstQueries = 3
  OtherQueries = 1
  MaxQueries <- MCMaxQueries
  CanExpire = TRUE
  HasDeadline = TRUE
  CanFail = FALSE
  CanOverflow = FALSE
  Worlds <- MixedLate
INVARIANTS PeerTypeOK SingleTenant UniqueIds
CHECK_DEADLOCK FALSE
