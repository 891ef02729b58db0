SPECIFICATION Spec
CONSTANTS
  Conns = {c}
  Texts = {x, y}
  Big = {}
  NoConn = NoConn
  Focus <- Unbound
  Blank = Blank
  Nothing = Nothing
  MaxTabs = 2
  MaxDocs = 2
  MaxPinned = 1
  MaxRestored = 1
  MaxVersions = 1
  MaxRefused = 1
  Settled = TRUE
  LeavesTab = TRUE
INVARIANTS VersionsAreOwn OneTabPerThing
PROPERTIES ClosedTextIsKept OfferIsKept
SYMMETRY Symmetry
CHECK_DEADLOCK FALSE
