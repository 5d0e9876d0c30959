CONSTANTS
    h1 = h1
    h2 = h2
    h3 = h3
    h4 = h4
    c1 = c1
    c2 = c2
    w1 = w1
    w2 = w2
    Worker = {w1, w2}
    Chunk = {c1, c2}
    NoHit = NoHit
    Hit = {h1, h2, h3, h4}
    HitsOf <- MCHitsOf
    Weight <- MCWeight
    Dropped = {h2}
    NameHits <- MCNameHits
    Limit = {1}
    MaxJobs = 2
SPECIFICATION FairSpec
PROPERTIES MatchReturns DestructorJoins
CHECK_DEADLOCK FALSE
