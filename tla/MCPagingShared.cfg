SPECIFICATION FairSpec
CONSTANTS
  A = A  B = B  c1 = c1  w1 = w1  q1 = q1  q2 = q2  dml = dml
  NoTab = NoTab  NoSql = NoSql
  Conns <- TheConn
  Walkers <- TheWalker
  WalkConn <- WalkOn
  Tabs <- TwoTabs
  ConnOf <- OneConn
  Sqls <- ReadDml
  Rows <- DmlRows
  Reads <- OneRead
  PageSize = 1
  ExportPage = 2
  MaxExecs = 3
  Patient = FALSE
  CanFail = TRUE
CHECK_DEADLOCK FALSE
INVARIANTS NoSilentRerun
PROPERTIES ReadsEnd
