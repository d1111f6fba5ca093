CONSTANTS
  num_trucks = 2
  num_managers = 2
  BUFFER_SIZE = 3
  DELIVERY_MAX_PRODUCTS = 2
  STORAGE_MAX_PRODUCTS = 2
  MAX_DELIVERIES = 2
  Garbage = {0, 2}
SPECIFICATION FairSpec
INVARIANTS TypeOK TokensConserved ProductsCovered RingFilled
PROPERTY TrucksFinish
CHECK_DEADLOCK FALSE
