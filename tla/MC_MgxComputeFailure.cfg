SPECIFICATION Spec
CONSTANTS
  t1 = t1
  t2 = t2
  Threads <- OneThread
  Setups <- PowersOfTwo
  HipGraph = TRUE
  MayFail = {"compile"}
INVARIANTS
  RunsOwnProgram
