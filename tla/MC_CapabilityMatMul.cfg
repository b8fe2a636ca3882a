SPECIFICATION MCSpec
CONSTANTS
  N = 5
  MaxIterations = 10
  Trees <- AllTrees
  Patterns <- AllPatterns
  NoValue = NoValue
  Families = {"matmul"}
CHECK_DEADLOCK FALSE
INVARIANTS
  FusionsAcyclic
