SPECIFICATION BusySpec
CONSTANTS
  NoPath = NoPath
  Name <- Names
  NoName = NoName
  Path <- TreeUniverse
  Leaf = {f, g}
  Inode = {i1, i2, i3}
  Dir = Dir
  Absent = Absent
  None = None
  Snapshot = {s1}
  InitRoots <- Workspace
  NewRoot <- NoRoots
  WatchLimit = 4
  MaxQueue = 4
  MaxChanges = 4
  Hazards = {"background", "lag"}
PROPERTIES
  EventuallyExact
  QuietSnapshotIsExact
INVARIANTS
  TypeOK
  EveryDirWatched
  NoLostChange
