CONSTANTS
  MaxScript = 7
  Context = 1
  Commits = {"a", "b"}
  MaxLines = 5
  Hunks = {0, 1, 2}
  MaxFiles = 3
  Step = 2
  Hashes <- MCHashes
  FileLists <- MCFileLists
  MaxHistory = 4
  MaxClicks = 2
  Files = {"README.md", "subREADME.md", "sub/README.md"}
  Dirs = {"", "sub"}
  Entries <- MCEntries
  Readme <- MCReadme
  Branch = {"main", "dev"}
  Trees <- MCTrees
  Ids <- MCIds
  Requests <- MCRequests
  MaxEntries = 5
  MaxDepth = 2
SPECIFICATION Spec
INVARIANTS RowsExact BlameExact ShowExact LogExact DoneMeansAll PageExact TreeExact
PROPERTY ViewsEnd
CHECK_DEADLOCK FALSE
