SPECIFICATION PeerSpec
CONSTANTS
  ReqCap = 4
  ReqArenaCap = 44
  RespSlots = 2
  MaxSends = 5
  MaxClearedSends = 3
  Lengths = {0, 17}
  LongLengths = {41, 45}
  Byte <- MCByte
  Request <- MCRequest
  PeerRequest <- MCPeerRequest
INVARIANTS TypeOK RegionsDisjoint EmptyMeansReclaimed IInv
PROPERTIES RefinesClearable
