SPECIFICATION MCSpec
CONSTANTS
  N = 4
  MaxIterations = 10
  Trees <- AllTrees
  Patterns <- AllPatterns
  NoValue = NoValue
  Families = {"topologies", "claims", "gelu"}
CHECK_DEADLOCK FALSE
INVARIANTS
  ClaimsAcyclic
  GroupsOrdered
  ListsMatchMap
  ClaimsComplete
  ClaimedOnce
  CompiledByItsTier
  CapabilityAcyclic
  FusionsHavePivot
