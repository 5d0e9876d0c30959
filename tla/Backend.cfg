CONSTANTS
  LenOf <- MCLenOf
  Blank = ""
  NulText = {"0"}
  Inputs <- MCInputs
  Finalizer = {w1, w2}
  line_limit = 5
  chunk_size = 5
  MaxPieces = 3
  compress = TRUE
  MaxFiles = 3
  MaxChars = 3
  Widths = {1, 2}
  MatchLens = {0, 1, 2}
  MaxCalls = 2
  Modes = {"rpc", "hot"}
  Time = {1, 2, 3}
  MaxGen = 4
SPECIFICATION Spec
INVARIANTS IndexedWhole BoundsExact
PROPERTIES QueuedIsFrozen IndexFollows CallsReturn
CHECK_DEADLOCK FALSE
