CONSTANTS
  Threads = {t1}
  Sizes = {1, 2, 5}
  MaxBatch = 2
  InitialCapacity = 2
  Width = 1024
  MaxFence = 4
SPECIFICATION FairSpec
INVARIANTS TypeOK ReadbackExact CopiesInHeap
PROPERTIES ReadbackReturns
CHECK_DEADLOCK FALSE
