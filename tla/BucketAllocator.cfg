CONSTANTS
  Threads = {t1}
  Sizes = {0, 4, 7, 8, 11, 15, 16}
  MinExponent = 3
  MaxResources = 4
  MaxLive = 3
SPECIFICATION Spec
INVARIANTS TypeOK OneOwner ResourceFits BucketsUniform
CHECK_DEADLOCK FALSE
