CONSTANTS
  queue_size = 4
  num_cores = 3
SPECIFICATION FairSpec
INVARIANTS TakenInOrder AllOrNothing NoLostWakeup
PROPERTY OneThenAll
CHECK_DEADLOCK FALSE
