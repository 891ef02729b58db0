SPECIFICATION Spec
CONSTANTS
  Conns = {c}
  Texts = {x, b}
  Big = {b}
  NoConn = NoConn
  Focus <- Unbound
  Blank = Blank
  Nothing = Nothing
  MaxTabs = 2
  MaxDocs = 2
  MaxPinned = 0
  MaxRestored = 1
  MaxVersions = 1
  MaxRefused = 0
  Settled = TRUE
  LeavesTab = FALSE
INVARIANT VersionsAreOwn
CHECK_DEADLOCK FALSE
