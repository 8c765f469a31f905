SPECIFICATION Spec
CONSTANTS
  c1 = c1
  c2 = c2
  c3 = c3
  p1 = p1
  p2 = p2
  Client = {c1, c2}
  Handler = {h1}
  Proc = {p1, p2}
  Mortal = {}
  NoPid = NoPid
  PidOf <- MCPidOf
  N = 1
  QueueCap = 2
  GenMod = 16
  GenStart = 0
  FirstQueries = 1
  OtherQueries = 1
  MaxQueries <- MCMaxQueries
  CanExpire = TRUE
  HasDeadline = TRUE
  CanFail = FALSE
  CanOverflow = FALSE
INVARIANTS OwnResponse
CHECK_DEADLOCK FALSE
