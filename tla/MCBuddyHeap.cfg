CONSTANTS
  MIN_BLOCK_SHIFT = 5
  MAX_BLOCK_SHIFT = 8
  HEADER_SIZE = 16
  WORD = 4
  SIZE_MAX = 511
  Request <- Requests
  Junk <- MCJunk
  MayDoubleFree = TRUE
SPECIFICATION HeapSpec
CHECK_DEADLOCK FALSE
INVARIANTS
  BlocksTileHeap
  CoalesceReadsHeader
  FailsOnlyWithoutRoom
  HaltsOnlyOnMisuse
PROPERTIES
  DoubleFreeCaught
  ImplementsAllocator
