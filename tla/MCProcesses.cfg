CONSTANTS
  SIZE = 4
  Value = {1, 2, 3}
  CHILDREN = 4
  ARRAY_SIZE = 16
  ELEMENTS = 4
  BLOCKS = 3
  Entry = {"list.c", "sub", "b", "deep", "c"}
  Directories = {"sub", "deep"}
  Parent <- Tree
SPECIFICATION Spec
INVARIANTS SortedUnlessFailed NobodyLeftBehind LinesWrittenOnce OneAnswer Redirection CopyFaithful NothingLost
PROPERTY EveryProgramEnds
CHECK_DEADLOCK FALSE
