SPECIFICATION MessageSpec
CONSTANTS
  HeaderLen = 2
  CommandLen = 2
  MAX_MSG_SIZE = 3
  MaxPayload = 2
INVARIANT
  UnknownIsBuffered
