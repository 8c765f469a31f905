SPECIFICATION FairSpec
CONSTANTS
  p1 = p1
  p2 = p2
  c1 = c1
  c2 = c2
  Producer = {p1, p2}
  Consumer = {c1, c2}
  Cap = 2
  MaxSends = 3
  MaxClears = 1
  Mortal = {p1}
INVARIANTS TypeOK RingInv
PROPERTIES RefinesRing RefusalJustified Drains
