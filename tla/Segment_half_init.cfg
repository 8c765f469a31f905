SPECIFICATION Spec
CONSTANTS
  Server = {s1, s2}
  Client = {c1}
  Inode = {i1, i2}
  NoFile = NoFile
  NoLayout = NoLayout
  W = 20
  MaxUint32 = 1048575
  MaxInt = 2000000000
  Options <- MCOptions
  FirstFile <- MCFirstFile

PROPERTIES CrashedInitRecovered
