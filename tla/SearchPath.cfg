CONSTANTS
  Query <- MCQuery
  Empty = ""
  Bad <- MCBad
  Decode <- MCDecode
  Malformed = Malformed
  MaxFetches = 3
  Tokens <- MCTokens
  MaxTokens = 5
  Default = 3
  Handler = {h1, h2}
  Corpus = {l1, l2, l3}
  Exact = {l1}
  Prefix = {l2}
  HasTags = TRUE
  RequestLimit <- MCRequestLimit
  FlagMaxMatches = 2
  MaxRequests = 3
  MaxNames = 3
  MaxLen = 3
  Garbage <- MCGarbage
  Limits = {0, 2}
  Trees <- MCTrees
  Paths <- MCPaths
  FileLines = 3
  Context = 1
  MaxResults = 3
SPECIFICATION Spec
INVARIANTS SettledOnQuery TermsWhole LinkWidens RequestSafe NamesFound ReplyExact
CHECK_DEADLOCK FALSE
