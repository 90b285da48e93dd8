SPECIFICATION LockSpec
CONSTANTS
  Threads = {t1, t2, t3}
  Locks = {a, b, c}
  MaxDepth = 3
  None = None
SYMMETRY NameSymmetry
INVARIANTS NoSilentDeadlock CrashOnlyForCycle
CHECK_DEADLOCK FALSE
