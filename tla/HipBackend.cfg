SPECIFICATION HipSpec
CONSTANTS
  Threads = {t1}
  MaxFactories = 4
  MaxLoads = 4
CHECK_DEADLOCK FALSE
INVARIANTS
  LoadedWhileHeld
  RetryReattempts
