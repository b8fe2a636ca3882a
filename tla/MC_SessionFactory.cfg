SPECIFICATION Spec
CONSTANTS
  s1 = s1
  s2 = s2
  s3 = s3
  s4 = s4
  dml = dml
  mgx = mgx
  hip = hip
  Sessions <- MCSessions
  DirectML = dml
  NoSession = NoSession
  NoBackend = NoBackend
  Backends <- MCThree
  MaxLive = 3
CHECK_DEADLOCK FALSE
INVARIANTS
  SequentialRelease
  TransferLive
  SequentialCopies
