CONSTANTS
  queue_size = 3
  num_cores = 2
SPECIFICATION Spec
INVARIANT PoolDrained
CHECK_DEADLOCK FALSE
