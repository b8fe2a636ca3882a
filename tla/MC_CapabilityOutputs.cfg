SPECIFICATION MCSpec
CONSTANTS
  N = 3
  MaxIterations = 10
  Trees <- AllTrees
  Patterns <- AllPatterns
  NoValue = NoValue
  Families = {"gelu"}
CHECK_DEADLOCK FALSE
INVARIANTS
  FusionsHaveOneOutput
