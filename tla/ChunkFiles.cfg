CONSTANTS
    Line <- MCLine
    MaxFiles = 3
    kMaxGap = 3
    Accepted = {1, 2}
SPECIFICATION Spec
INVARIANTS RangesDisjoint LinesCovered RangesUsable
CHECK_DEADLOCK FALSE
