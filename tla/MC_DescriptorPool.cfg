CONSTANTS
  Kernels = {k1}
  Buffers = {}
  k1 = k1
  b1 = b1
  FailingCompute = TRUE
  MaxFence = 4
  MaxRefs = 2
  Counts = {1, 3}
  InitialCapacity = 2
  MaxHeaps = 2
SPECIFICATION PoolSpec
INVARIANTS DescriptorsIntact WaitTargetSubmitted ClosedDrained
PROPERTIES AllocatorResetIdle WaitReleasesCompleted WaitsEnd
CHECK_DEADLOCK FALSE
