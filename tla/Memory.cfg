CONSTANTS
  NumPages = 4
  Procs = {p1, p2}
  BUDDY_MAX_LEVEL = 2
  NUM_BUFFER_RECLAIM = 1
  MaxByte = 3
  Reserve = 2
  BucketShared = FALSE
  NULL = NULL
SPECIFICATION Spec
INVARIANTS
  RingExact
  PagesInOnePlace
  AwakeAboveThreshold
SYMMETRY Symmetry
VIEW View
CHECK_DEADLOCK FALSE
