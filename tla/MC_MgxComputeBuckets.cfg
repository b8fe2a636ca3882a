SPECIFICATION Spec
CONSTANTS
  t1 = t1
  t2 = t2
  Threads <- OneThread
  Setups <- Sessions
  HipGraph = TRUE
  MayFail = {"parse", "compile", "save", "capture"}
CHECK_DEADLOCK FALSE
INVARIANTS
  RunsOwnUntilFailure
  StagingFits
  ServesBatch
  CompiledOnce
