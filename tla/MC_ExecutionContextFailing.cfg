CONSTANTS
  Kernels = {k1}
  Buffers = {b1}
  k1 = k1
  k2 = k2
  b1 = b1
  FailingCompute = TRUE
  MaxFence = 2
  MaxRefs = 2
SPECIFICATION Spec
INVARIANTS InFlightAlive
CHECK_DEADLOCK FALSE
