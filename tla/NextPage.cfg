SPECIFICATION Spec
CONSTANTS
  Tokens <- MCTokens
  MaxTokens = 3
  Default = 3
INVARIANT LinkAlwaysWidens
CHECK_DEADLOCK FALSE
