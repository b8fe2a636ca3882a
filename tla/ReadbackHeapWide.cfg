CONSTANTS
  Threads = {t1}
  Sizes = {1, 5}
  MaxBatch = 2
  InitialCapacity = 2
  Width = 8
  MaxFence = 2
SPECIFICATION Spec
INVARIANTS ReadbackExact
CHECK_DEADLOCK FALSE
