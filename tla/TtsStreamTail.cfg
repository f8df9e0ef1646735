SPECIFICATION Spec
CONSTANTS
    Streams = {r1}
    MaxFrames <- MCMaxFrames
    r1 = r1  r2 = r2
    Lag = 1
    QMax = 1
    Group = 2
    Batch = 2
    MaxFail = 2
    MayFail = {}
    MayLeave = {}
INVARIANT CleanEndIsComplete
CHECK_DEADLOCK FALSE
