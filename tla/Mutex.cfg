SPECIFICATION PeerFairSpec
CONSTANTS
  p1 = p1
  p2 = p2
  t1 = t1
  t2 = t2
  t3 = t3
  Thread = {t1, t2, t3}
  Proc = {p1, p2}
  Mortal = {p1}
  Free = Free
  Receiver = {t3}
  Mixes <- MCMixes
  ProcOf <- MCProcOf
INVARIANTS TypeOK MutualExclusion NoLostWakeup
PROPERTIES LiveLockKept Progress RecvNeverRecovers
