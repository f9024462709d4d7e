SPECIFICATION Spec
CONSTANTS
  f = f
  g = g
  base = base
  Proc = {p, q}
  Name = {n}
  File = {f, g}
  Flat <- SameBase
  Base = {base}
  Content = {c, d}
  Absent = Absent
  Torn = Torn
  Lists <- SomeLists
  MaxFiles = 2
  MaxChanges = 1
  MaxOps = 4
SYMMETRY CheckpointSymmetry
CHECK_DEADLOCK FALSE
INVARIANTS
  NamedCopiesExist
  SettledIsFaithful
PROPERTIES
  GivesBackWhatWasSeen
