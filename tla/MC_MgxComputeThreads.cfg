SPECIFICATION Spec
CONSTANTS
  t1 = t1
  t2 = t2
  Threads <- TwoThreads
  Setups <- TwoBatches
  HipGraph = TRUE
  MayFail = {}
INVARIANTS
  StagedDataIntact
