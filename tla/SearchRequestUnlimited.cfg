CONSTANTS
    a = a
    b = b
    c = c
    h1 = h1
    h2 = h2
    Handler = {h1, h2}
    Corpus = {a, b, c}
    Exact = {a}
    Prefix = {b}
    HasTags = TRUE
    RequestLimit <- Unlimited
    FlagMaxMatches = 2
    MaxRequests = 1
SPECIFICATION Spec
SYMMETRY Symmetry
INVARIANT UnlimitedMeansComplete
CHECK_DEADLOCK FALSE
