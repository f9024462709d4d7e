SPECIFICATION LossSpec
CONSTANTS
  NoPath = NoPath
  Name <- Names
  NoName = NoName
  Path <- WideUniverse
  Leaf = {f}
  Inode = {i1, i2, i3, i4, i5}
  Dir = Dir
  Absent = Absent
  None = None
  Snapshot = {s1}
  InitRoots <- Workspace
  NewRoot <- NoRoots
  WatchLimit = 3
  MaxQueue = 2
  MaxChanges = 2
  Hazards = {"background", "lag", "rename", "overflow", "readerDeath", "startFailure", "rootRemoved"}
SYMMETRY Symmetry
INVARIANTS
  NoLostChangeWhereWatched
PROPERTIES
  RestoreIsExact
