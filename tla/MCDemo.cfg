CONSTANTS
  PAGE_SIZE = 2
  MEM_BASE = 2
  MEM_CAP = 26
  FALLBACK_TOP = 8
  PRIVATE_WINDOW_END = 24
  FREE_LIST_CAPACITY = 11
  WORD = 32
  MAX_ACTORS = 10
  MAILBOX_CAPACITY = 8
  MAX_CAPS_PER_ACTOR = 10
  MAX_SPAWNS_PER_ACTOR = 2
  Op <- DemoOp
  Delegable <- MCDelegable
  Payload <- DemoPayload
  BootMap <- MCBootMap
  BOOT_ACTORS = 8
  BootCaps <- DemoBootCaps
  BootQuota <- DemoBootQuota
  Casts <- MCCasts
  ShellQuota = 3
  SHELL_MAX_JOBS = 4
  CountYields = 2
SPECIFICATION DemoFairSpec
INVARIANTS NoMessageMisread TrustEarned ReadsFinalVerdict PipeExact JobsInReach
PROPERTIES WrittenGetsVerdict
