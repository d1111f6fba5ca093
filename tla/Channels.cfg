CONSTANTS
  TOTAL_SERVERS = 5
  MAX_TASKS = 3
SPECIFICATION FairSpec
INVARIANTS ChannelsAccounted NoDeadlock
PROPERTIES ImplementsRing Termination
