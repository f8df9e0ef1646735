SPECIFICATION Spec
CONSTANTS
    Rows = {1, 2, 3}
    FlushEvery = 2
    MaxItems = 0
    PerBatch = 2
    Long = {}
    NoLang = {}
    MaxKills = 1
    MaxRuns = 2
INVARIANT ResumeReads
CHECK_DEADLOCK FALSE
