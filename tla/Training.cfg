CONSTANTS
    Cap = 5
    Counts <- MCCounts
    Weights <- MCWeights
    World = 2
    Lens = {1, 2, 3, 6}
    MaxEpochs = 2
    MaxStep = 4
    Metrics = {1, 2, 3}
    NoMetric = NoMetric
    Setups <- MCSetups
    MaxKills = 2
    NoFile = NoFile
    MaxRows = 4
    FirstRows = 3
    Sizes = {2, 3}
    Silent = {1}
    Flaky = {2}
    MaxRuns = 2
    Splits = {"hi", "ta"}
    Top = "top"
    SplitOf <- MCSplitOf
    Length <- MCLength
    Rejected = {4}
    ShardSize = 1
    MayFail = TRUE
    CompileRuns = 2
    Specs <- MCSpecs
    Docs <- MCDocs
    Md5 <- MCMd5
    Bytes <- MCBytes
    Mixes <- MCMixes
    MaxPasses = 2
    Unranked = 0
    Corpora <- MCCorpora
    Empty = ""
    LongPairs = {"long"}
    DevDraws <- MCDevDraws
    Picks <- MCPicks
    Renders <- MCRenders
    GpuRanks = {1, 2}
    SaveEvery = 2
    TotalSteps = 3
    JobKills = 1
    Checkpoints <- MCCheckpoints
    HeadDim = 1
    GlobalHeadDim = 2
    MaxMerges = 2
    MergeKills = 2
    LogEvery = 2
    EvalEvery = 3
    CkptEvery = 3
    PeakKnown = {TRUE, FALSE}
    StepTimes = {1, 2}
    PauseTime = 5
    MaxSteps = 8
    Never = Never
SPECIFICATION Spec
INVARIANTS RowsKept CompiledOnce WellPacked EpochDealt BestSurvive ResumesFromWhole BatchesAsAnnotated RanksTrainAlike ReadyLoads 
CHECK_DEADLOCK FALSE
