SPECIFICATION Spec
CONSTANTS
  A = A  B = B  c1 = c1  w1 = w1  q1 = q1  q2 = q2  dml = dml
  NoTab = NoTab  NoSql = NoSql
  Conns <- TheConn
  Walkers <- TheWalker
  WalkConn <- WalkOn
  Tabs <- TwoTabs
  ConnOf <- OneConn
  Sqls <- TwoReads
  Rows <- FiveRows
  Reads <- TwoReads
  PageSize = 2
  ExportPage = 2
  MaxExecs = 6
  Patient = TRUE
  CanFail = FALSE
CHECK_DEADLOCK FALSE
INVARIANTS PageIsOwn
