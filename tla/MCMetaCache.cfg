SPECIFICATION Spec
CONSTANTS
  Conns = {a, b}
  Hosts = {s, t}
  NoHost = NoHost
  Cap = 4
  MaxVer = 2
  MaxCalls = 2
  MaxMoves = 5
SYMMETRY Symmetry
INVARIANTS TypeOK FreshIsTrue NamesAreTrue
CHECK_DEADLOCK FALSE
