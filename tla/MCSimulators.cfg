CONSTANTS
  NUM_PAGES = 4
  PAGE_SIZE = 2
  TLB_SIZE = 3
  MAX_PREVIOUS = 6
  MAX_TRANSLATIONS = 7
  num_frames = 3
  BYTE = 6
  MAX_REQUESTS = 9
  Inputs <- Boundaries
  n = 3
  MAX_ARRIVAL = 3
  MAX_BURST = 3
  MAX_QUANTUM = 2
  SECTORS_PER_TRACK = 100
  INITIAL_HEAD_POSITION = 100
  Sector = {0, 150, 199, 200, 350, 499}
  MAX_DISK_REQUESTS = 4
  MAX_STATIONS = 2
  Name = {"a", "b", "c", "long"}
  LongName = {"long"}
  Temperature <- Readings
  MAX_LINES = 4
SPECIFICATION Spec
INVARIANTS TLBCoherent WorkingSetFits SegmentsDisjoint EqualShares NoScheduleIsAhead NothingPassedOver AllLinesOrNone
PROPERTIES ImplementsFifoCache SecondChance ImplementsProcessor ReadyComplete
CHECK_DEADLOCK FALSE
