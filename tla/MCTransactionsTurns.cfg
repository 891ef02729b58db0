SPECIFICATION FairSpec
CONSTANTS
  A = A  B = B
  Tabs <- TwoTabs
  Stmts <- AllStmts
  Items = 2
  MaxRuns = 3
  MaxTries = 2
  Turns = TRUE
  TxFails = FALSE
CHECK_DEADLOCK FALSE
INVARIANTS IndicatorIsEngine LogIsTransaction EditIsWhole
PROPERTIES ManualWritesWait FlowsEnd
