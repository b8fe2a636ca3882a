SPECIFICATION HipSpec
CONSTANTS
  Threads = {t1}
  MaxFactories = 3
  MaxLoads = 3
CHECK_DEADLOCK FALSE
INVARIANTS
  CountsFactories
