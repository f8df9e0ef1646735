SPECIFICATION Spec
CONSTANTS
    N = 3
    Prefetch = 1
    Group = 2
    Normalize = TRUE
    Gap = TRUE
    MaxFrames = 3
INVARIANTS ChunksWhole
PROPERTY StreamEnds
CHECK_DEADLOCK FALSE
