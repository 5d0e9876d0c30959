SPECIFICATION Spec
CONSTANTS
  Step = 2
  Hashes <- MCHashes
  FileLists <- MCFileLists
  MaxHistory = 3
  MaxClicks = 1
INVARIANT SimpleLogWhole
CHECK_DEADLOCK FALSE
