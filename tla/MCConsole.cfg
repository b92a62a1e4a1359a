CONSTANTS
  WindowSize <- MCWindowSize
  ESC_PARAMS = 2
  INT_RANGE = 8
  Digits = {9}
  LINE = 2
  AP_TEXT = 2
  SPINS = 2
SPECIFICATION ConsoleFairSpec
INVARIANTS CursorInside OneInPutchar ApReported
PROPERTIES WriteReturns
