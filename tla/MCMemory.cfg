CONSTANTS
  PAGE_SIZE = 2
  MEM_BASE = 2
  MEM_CAP = 14
  FALLBACK_TOP = 8
  PRIVATE_WINDOW_END = 6
  FREE_LIST_CAPACITY = 2
  WORD = 32
  MaxRun = 3
  MemoryMaps <- MCMemoryMaps
SPECIFICATION Spec
INVARIANTS NothingSkipped
PROPERTIES Implements
