SPECIFICATION ShellSpec
CONSTANTS
  NoPath = NoPath
  Name <- Names
  NoName = NoName
  Path <- Project
  Leaf = {f}
  Inode = {i1, i2, i3, i4}
  Dir = Dir
  Absent = Absent
  None = None
  Snapshot = {s1}
  InitRoots <- ProjectRoots
  NewRoot <- ProjectNewRoots
  WatchLimit = 4
  MaxQueue = 3
  LogErrors = TRUE
  Home <- ProjectHome
  MaxChanges = 2
  Hazards = {"background", "lag"}
SYMMETRY Symmetry
INVARIANTS
  EveryDirWatched
  RootsDisjoint
  ScopeIsBacked
  CommandsAreCovered
