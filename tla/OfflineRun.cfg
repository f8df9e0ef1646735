CONSTANTS
    u = u  v = v  w = w  x = x  y = y  z = z  p = p  q = q  r = r
    NoUtt = NoUtt
    Utts = {u, v, w, x, y, z, p, q, r}
    Inputs <- MCInputs
    PreErrored = {z}
    LoadFails = {x}
    BadPrompt = {y}
    EncLen <- MCEncLen
    Slots = {1, 2}
    EncoderBatch = 1
    AdmitBatch = 2
    EvictEvery = 2
    MayRaise = TRUE
    MaxPos = 5
    Delta = 1
    PromptLen = 1
    Bucket = 2
SPECIFICATION Spec
INVARIANTS ReturnsComplete CachesIntact
PROPERTIES AnsweredOnce RunEnds
CHECK_DEADLOCK FALSE
