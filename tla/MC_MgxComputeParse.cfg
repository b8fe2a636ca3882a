SPECIFICATION Spec
CONSTANTS
  t1 = t1
  t2 = t2
  Threads <- OneThread
  Setups <- NoBuckets
  HipGraph = TRUE
  MayFail = {"parse"}
CHECK_DEADLOCK FALSE
INVARIANTS
  RunsOwnProgram
