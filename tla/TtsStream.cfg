SPECIFICATION Spec
CONSTANTS
    Streams = {r1, r2}
    MaxFrames <- MCMaxFrames
    r1 = r1  r2 = r2
    Lag = 1
    QMax = 1
    Group = 2
    Batch = 2
    MaxFail = 2
    MayFail = {r1}
    MayLeave = {r1, r2}
INVARIANTS InOrder FailureNeverClean
PROPERTIES EveryStreamEnds
CHECK_DEADLOCK FALSE
