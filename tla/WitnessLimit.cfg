SPECIFICATION CodecsSpec
CONSTANTS
  Radix = 6
  Elements <- MCElements
  MaxElements = 3
  MAX_WITNESS_STACK_ITEMS = 3
  MAX_WITNESS_ITEM_SIZE = 3
  MAX_COMPACT_SIZE = 4
  ByteStreams <- MCByteStreams
  MaxSize = 37
  MAX_VECTOR_ALLOCATE = 3
  PrefixLens = {1, 3}
  MaxLength = 3
  MaxItem = 3
  FreshLimit = 2
  Batch = 2
  InputLists <- MCInputLists
  OutputLists <- MCOutputLists
  BadStreams <- MCBadStreams
  null = null
  MAX_MONEY = 3
  Shapes <- MCShapes
  MaxItems = 3
  MaxSkip = 3
  LongPayload = 38
  outA = outA
  outB = outB
INVARIANT
  WitnessItemsAreLimited
