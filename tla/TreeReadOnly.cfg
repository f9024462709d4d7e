SPECIFICATION Spec
CONSTANTS
  NoPath = NoPath
  c1 = c1
  c2 = c2
  Name <- Names
  Path <- Universe
  Root <- W
  Meta <- MetaDir
  Exe <- Binary
  Content = {c1, c2}
  Torn = Torn
  Process = {me}
  Me = me
  Dir = Dir
  Absent = Absent
  None = None
  Holds <- Nodes
  Start <- Trees
  MetaWatched = FALSE
  MaxChanges = 1
SYMMETRY Contents
PROPERTIES
  SameStateRestores
