SPECIFICATION WalletSpec
CONSTANTS
  Scripts = {1, 2, 3, 4, 5}
  TAPROOT_CONTROL_MAX_NODE_COUNT = 3
  Inserted = {1, 2}
  MaxInserts = 5
  WeightLists <- WalletWeights
  MaxWeight = 16
  MaxData = 4
  DataBytes = {0, 1, 57, 58, 116, 255}
INVARIANTS
  TaprootTypeOK
  CombineNeverFails
  LeavesAreKept
  SpendPathsVerify
  HuffmanIsOptimal
  SighashCommits
  PublicKeysFollow
  ScriptsReadBack
  TextsReadBack
  
PROPERTY
  CountsRoom
