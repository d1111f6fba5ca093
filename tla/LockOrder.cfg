CONSTANTS
  num_threads = 3
  rounds = 3
SPECIFICATION UnfairSpec
INVARIANTS BFreeUnderA DestroyedUnlocked SomebodyServed
PROPERTY WaitFree
CHECK_DEADLOCK FALSE
