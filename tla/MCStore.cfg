SPECIFICATION SessionSpec
CONSTANTS
  NoPath = NoPath
  Name <- Names
  NoName = NoName
  Path <- TreeUniverse
  Leaf = {f, g}
  Inode = {i1, i2, i3}
  Dir = Dir
  Absent = Absent
  None = None
  Snapshot = {s1, s2}
  InitRoots <- Workspace
  NewRoot <- NoRoots
  WatchLimit = 4
  MaxQueue = 4
  MaxChanges = 2
  Hazards = {}
INVARIANTS
  NoLostChange
PROPERTIES
  ImplementsStore
