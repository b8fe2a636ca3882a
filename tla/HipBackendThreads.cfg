SPECIFICATION HipSpec
CONSTANTS
  Threads = {t1, t2}
  MaxFactories = 3
  MaxLoads = 3
CHECK_DEADLOCK FALSE
INVARIANTS
  LoadedWhileHeld
