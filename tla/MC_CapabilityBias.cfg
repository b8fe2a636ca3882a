SPECIFICATION MCSpec
CONSTANTS
  N = 7
  MaxIterations = 10
  Trees <- AllTrees
  Patterns <- AllPatterns
  NoValue = NoValue
  Families = {"bias"}
CHECK_DEADLOCK FALSE
INVARIANTS
  FusionsAcyclic
