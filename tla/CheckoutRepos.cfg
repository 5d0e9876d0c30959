CONSTANTS
    w1 = w1
    w2 = w2
    Worker = {w1, w2}
    NumRepos = 5
SPECIFICATION Spec
INVARIANTS NilMeansAllFetched ErrorMeansFailure
PROPERTY ReturnsOrFull
CHECK_DEADLOCK FALSE
