CONSTANTS
  Kernels = {k1, k2}
  Buffers = {b1}
  k1 = k1
  k2 = k2
  b1 = b1
  FailingCompute = FALSE
  MaxFence = 3
  MaxRefs = 3
SPECIFICATION Spec
SYMMETRY KernelSymmetry
INVARIANTS TypeOK InFlightAlive
PROPERTIES LifetimeSpec
CHECK_DEADLOCK FALSE
