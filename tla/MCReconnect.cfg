SPECIFICATION FairSpec
CONSTANTS
  MaxSess = 3
  MaxCalls = 2
  MaxDeaths = 2
  MaxMoves = 2
  Kinds <- MostKinds
  Modes <- AllModes
  Patient = TRUE
INVARIANTS NoOrphanSession WritesWereAllowed ConsentIsScoped NothingRunsTwice NoTxDiesSilently
PROPERTIES CallsReturn LostIsReopened
CHECK_DEADLOCK FALSE
