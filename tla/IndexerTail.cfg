CONSTANTS
    w1 = w1
    w2 = w2
    LenOf <- MCLenOf
    Blank = ""
    NulText = {"0"}
    Inputs <- MCOneCharTail
    Finalizer = {w1, w2}
    line_limit = 5
    chunk_size = 5
    MaxPieces = 3
    compress = TRUE
    MaxFiles = 1
SPECIFICATION Spec
INVARIANT EveryLineFound
CHECK_DEADLOCK FALSE
