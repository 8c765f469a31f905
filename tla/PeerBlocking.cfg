SPECIFICATION PeerFairSpec
CONSTANTS
  c1 = c1
  c2 = c2
  r1 = r1
  Sender = {c1, c2}
  Receiver = {r1}
  Slot = {s1}
  QueueCap = 1
  MaxQueries = 1
  CanExpire = TRUE
  HasDeadline = FALSE
  CanStop = TRUE
  Mixes <- MCMixes
INVARIANTS TypeOK GoRequestNoticed
PROPERTIES RequestTaken GoSendEnds ExpiredSendEnds
CHECK_DEADLOCK FALSE
