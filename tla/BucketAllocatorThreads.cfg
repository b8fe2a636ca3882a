CONSTANTS
  Threads = {t1, t2}
  Sizes = {8}
  MinExponent = 3
  MaxResources = 3
  MaxLive = 2
SPECIFICATION Spec
INVARIANTS OneOwner
CHECK_DEADLOCK FALSE
