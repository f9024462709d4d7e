SPECIFICATION Spec
CONSTANTS
  NoPath = NoPath
  Name <- Names
  NoName = NoName
  Path <- WideUniverse
  Leaf = {f, g}
  Inode = {i1, i2, i3, i4}
  Dir = Dir
  Absent = Absent
  None = None
  Snapshot = {s1}
  InitRoots <- Workspace
  NewRoot <- NoRoots
  WatchLimit = 4
  MaxQueue = 2
  MaxChanges = 4
  Hazards = {"rename"}
SYMMETRY Symmetry
PROPERTIES
  SnapshotIsExact
