SPECIFICATION FairSpec
CONSTANTS
  KBD_BUF_SIZE = 3
  SHELL_LINE_MAX = 3
  PROMPT = 1
  COLS = 4
  Letter = {"d"}
  RTC_SPINS = 2
  Second <- MCSecond
INVARIANTS ShownIsTyped TimeTold
PROPERTIES KeysInOrder LineCarriedOut
