SPECIFICATION Spec
CONSTANTS
  Proc = {a}
  Disk = {d1, d2}
  Env = {e1, e2}
  Size = {2}
  None = None
  Torn = Torn
  MaxId = 4
  Faults = {"crash", "storage"}
SYMMETRY EngineSymmetry
INVARIANTS
  RecordsAreTrue
  KeepsTheLatest
  NothingLeaks
PROPERTIES
  RestoreBringsBack
