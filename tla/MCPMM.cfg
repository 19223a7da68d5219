CONSTANTS
  PAGE_SIZE = 4
  MAX_FRAMES = 6
  WORD_BITS = 6
  STACK_WORD = 2
  KERNEL_START = 8
  KERNEL_END = 14
  MemoryMap <- LowMaps
  UserAddr = {0, 5, 16, 17, 20, 56}
SPECIFICATION PMMSpec
INVARIANTS
  StackIsBitmap
  NoPageTwice
  AccountedFor
