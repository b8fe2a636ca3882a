CONSTANTS
  Threads = {t1}
  Sizes = {4, 8, 15}
  MinExponent = 3
  MaxResources = 3
  MaxLive = 2
SPECIFICATION Spec
INVARIANTS UnpooledStaysOut
CHECK_DEADLOCK FALSE
