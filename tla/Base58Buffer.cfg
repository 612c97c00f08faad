SPECIFICATION Base58Spec
CONSTANTS
  Scripts = {1, 2, 3, 4, 5}
  TAPROOT_CONTROL_MAX_NODE_COUNT = 3
  Inserted = {1, 2}
  MaxInserts = 5
  WeightLists <- WalletWeights
  MaxWeight = 16
  MaxData = 92
  DataBytes = {0, 255}
INVARIANT
  BufferHoldsTheText
