SPECIFICATION StreamsSpec
CONSTANTS
  HeaderLen = 2
  CommandLen = 2
  MAX_MSG_SIZE = 3
  MaxPayload = 2
  Lows = {"a", "b"}
  Networks = {0, 1, 2, 3, 4, 5, 6, 7}
  MAX_LENGTH = 5
  MaxHops = 3
  LOCK_TIME_THRESHOLD = 8
  WINDOW = 3
  INTERVAL = 2
  LOW = 4
  LOCK_TYPE_MASK = 8
  LOCK_TIME_DISABLE_FLAG_MASK = 32
  U32 = 64
  LockValues = {0, 4, 6, 7, 8, 9, 10, 11}
  SequenceValues = {0, 1, 3, 6, 8, 9, 11, 18, 26, 41, 62, 63}
  Genesis <- MCGenesis
  MaxHeight = 6
  MaxStep = 2
INVARIANT
  ExpandsToTheMaximum
