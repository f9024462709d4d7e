SPECIFICATION Spec
CONSTANTS
  NoPath = NoPath
  Name <- Names
  Universe <- AllPaths
  StringLen <- Lengths
  MaxPaths = 3
CHECK_DEADLOCK FALSE
INVARIANTS
  GreedyIsOutermost
  CompactKeepsCoverage
  MatchRootIsTheOwner
  AddedRootsCoverTheRest
