SPECIFICATION Spec
CONSTANTS
  A = A  B = B
  Tabs <- TwoTabs
  Stmts <- WriteOnly
  Items = 2
  MaxRuns = 3
  MaxTries = 2
  Turns = TRUE
  TxFails = TRUE
CHECK_DEADLOCK FALSE
INVARIANTS FailureSurfaces
