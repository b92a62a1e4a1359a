CONSTANTS
  PAGE_SIZE = 2
  MEM_BASE = 2
  MEM_CAP = 16
  FALLBACK_TOP = 8
  PRIVATE_WINDOW_END = 10
  FREE_LIST_CAPACITY = 5
  WORD = 32
  MAX_ACTORS = 4
  MAILBOX_CAPACITY = 1
  MAX_CAPS_PER_ACTOR = 4
  MAX_SPAWNS_PER_ACTOR = 1
  Op = {"SEND", "SPAWN", "TERMINATE", "READ_OBJECT"}
  Delegable = {}
  Payload = {}
  BootMap <- MCBootMap
  BOOT_ACTORS = 2
  BootCaps <- MCBootCaps
  BootQuota <- MCBootQuota
  PROGRAM_POOL_SIZE = 2
  PROGRAM_WINDOW_MAX = 4
  PROGRAM_HEADER = 1
  UINT32 = 8
  Object = {0}
  Images <- MCImages
SPECIFICATION ProgramsSpec
INVARIANTS OwnProgram CopyInBounds
PROPERTIES FailedLoadHarmless
