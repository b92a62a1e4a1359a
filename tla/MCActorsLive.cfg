CONSTANTS
  PAGE_SIZE = 2
  MEM_BASE = 2
  MEM_CAP = 14
  FALLBACK_TOP = 8
  PRIVATE_WINDOW_END = 8
  FREE_LIST_CAPACITY = 4
  WORD = 32
  MAX_ACTORS = 3
  MAILBOX_CAPACITY = 2
  MAX_CAPS_PER_ACTOR = 4
  MAX_SPAWNS_PER_ACTOR = 1
  Op = {"SEND", "SPAWN", "TERMINATE"}
  Delegable = {}
  Payload = {"a"}
  BootMap <- MCBootMap
  BOOT_ACTORS = 2
  BootCaps <- MailBootCaps
  BootQuota <- MCBootQuota
SPECIFICATION FairSpec
INVARIANTS OneRunning NoLostWakeup
PROPERTIES ReadyRuns WaitingReceives DeadReaped
