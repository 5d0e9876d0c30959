CONSTANTS
  Listing <- MCListing
  Worker = {w1, w2}
  Limit = 2
  Excluded = {3, 6}
  MaxBad = 2
  Repo = {"r1", "r2"}
  Branch = {"main", "trunk"}
  MaxChange = 1
  MaxFault = 3
  Compositions <- MCCompositions
SPECIFICATION Spec
INVARIANTS ConfigExact IndexWhole PublishedIsFresh OutputExact
PROPERTIES Converges ToolsFinish
CHECK_DEADLOCK FALSE
