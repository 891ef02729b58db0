CONSTANTS
  MaxRequests = 3
  MaxQueue = 2
  FirstCap = 1
  OpSlots = 2
  Kinds <- SessionKinds
SPECIFICATION Spec
INVARIANT FinishedQueryIsNotCanceled
