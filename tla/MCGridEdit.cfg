SPECIFICATION Spec
CONSTANTS
  MaxKey = 3
  PageSize = 2
  MaxOps = 3
  MaxBatch = 2
  MaxWrites = 1
  Writes <- OtherRows
  Engines <- BothEngines
  Patient = TRUE
INVARIANTS ChangesHitTheirRow NoInsertTwice
PROPERTY CommitIsShown
CHECK_DEADLOCK FALSE
