CONSTANTS
  Threads = {t1, t2}
  Sizes = {1, 2}
  MaxBatch = 1
  InitialCapacity = 2
  Width = 1024
  MaxFence = 3
SPECIFICATION Spec
INVARIANTS ReadbackExact
CHECK_DEADLOCK FALSE
