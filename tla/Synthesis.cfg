CONSTANTS
    CodebookSize = 4
    Base = 3
    StartId = 0
    EndId = 1
    Marker = 2
    Input <- MCInput
    NoText = 0
    Generations <- MCGenerations
    NLlm = 2
    NSnac = 2
    BatchSize = 2
    Options <- MCOptions
    MaxRuns = 2
    MaxKills = 1
    MaxFaults = 1
    Recordings <- MCRecordings
    LongRecordings = {3}
    MaxRows = 3
    DecodeBatch = 2
    WindowSizes = {3, 4}
    Emissions <- MCEmissions
    TagOverhead = 3
    Sep = 2
    MinBudget = 2
    Jobs <- MCJobs
    Pace <- MCPace
    LeastMax = 2
    LeastFirst = 1
    Blocked = {1, 2}
    Askings <- MCAskings
    MaxLoops = 2
    MaxShutdowns = 2
SPECIFICATION Spec
INVARIANTS ManifestTruthful SpokenAsRecorded InContext WholeText BlockingHearsAll
CHECK_DEADLOCK FALSE
