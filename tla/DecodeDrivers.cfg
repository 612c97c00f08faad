SPECIFICATION FairDriverSpec
CONSTANTS
  MaxStream = 5
  BUFFER_SIZE = 2
  WindowSize = 3
  MaxInterrupts = 2
INVARIANTS
  DriverTypeOK
  DriversDecide
  NoOverRead
  FailedPushNotConsumed
PROPERTY
  DriverTerminates
