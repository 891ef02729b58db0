CONSTANTS
  MaxRequests = 3
  MaxQueue = 2
  FirstCap = 1
  OpSlots = 2
  Kinds <- AllKinds
SPECIFICATION FairSpec
INVARIANTS TypeOK NoDangling NoSharing NoLeak ReleaseOrder CancelReachesRunningQuery DriversOutliveCalls TxFlagCoversEngine NoNestedBegin NoBlindRetry
PROPERTIES ServiceSpec EveryCallAnswered ShutdownCompletes
