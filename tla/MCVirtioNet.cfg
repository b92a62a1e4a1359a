SPECIFICATION Spec
CONSTANTS
  RX_BUF_COUNT = 3
  QSIZE = 2
  UINT16 = 4
  SPINS = 2
  Frame <- MCFrame
  Runt = "runt"
  Jumbo = "jumbo"
  MaxOwed = 2
INVARIANTS BuffersAccounted SentAsGiven
PROPERTIES Implements
