SPECIFICATION Spec
CONSTANTS
  Sender = {c1, c2, c3}
  Receiver = {r1}
  Slot = {s1, s2}
  QueueCap = 1
  MaxQueries = 1
  CanExpire = FALSE
  HasDeadline = FALSE
  CanStop = FALSE
INVARIANTS RightGroup
SYMMETRY Symmetry
