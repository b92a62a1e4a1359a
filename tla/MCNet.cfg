SPECIFICATION FairSpec
CONSTANTS
  a = a
  b = b
  Machine = {a, b}
  RELIABLE_SEND_ATTEMPTS = 2
  RX_BUF_COUNT = 2
  Copies <- LostOrTwice
  MaxMessages = 3
  MaxRestarts = 1
INVARIANTS ConfirmedUnlessRestarted
PROPERTIES InOrder ReliableSendReturns
