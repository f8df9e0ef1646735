CONSTANTS
    a = a  b = b  c = c  d = d
    NoReq = NoReq
    Reqs = {a, b, c, d}
    Slots = {1, 2}
    AdmitBatch = 1
    EvictEvery = 1
    EncLen <- MCEncLen
    TEncMax = 3
    TooLong = {}
    BadPrompt = {}
    MayDie = {}
    MaxPos = 3
    Delta = 1
    PromptLen = 1
    Bucket = 2
SPECIFICATION Spec
INVARIANT NoCallerHangs
CHECK_DEADLOCK FALSE
