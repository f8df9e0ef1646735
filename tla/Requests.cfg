CONSTANTS
    Nothing = Nothing
    Quiet = Quiet
    Langs <- MCLangs
    Win = 2
    MinSil = 1
    MinChunk = 3
    MaxChunk = 5
    Relax = 1
    MinTail = 2
    Probes = 2
    Requests <- MCRequests
    Audio <- MCAudio
    Broken = {"noise"}
    Outside = {"away"}
    UploadSize <- MCUploadSize
    MaxUpload = 2
    Trained = {"hi", "ta", "bgc"}
    Recommended = {"hi", "ta"}
    ChunkAbove = 6
    BatchSize = 2
    LidMax = 8
    Rows = {1, 2, 3}
    FlushEvery = 2
    MaxItems = 0
    PerBatch = 2
    Long = {3}
    NoLang = {3}
    MaxKills = 2
    MaxRuns = 4
    MinSeg = 2
    MaxSeg = 6
    Endpoint = 2
    Partial = 3
    MinPause = 1
    Lead = 2
    Second = 3
    Keep = 5
    FrameHops = 2
    Extra = 1
    Packets = {1, 2, 4}
    MaxAudio = 11
    MayFail = TRUE
    Workers = 2
    Detected <- MCDetected
    PageEnd = 40
    PadPixels = 0
    RecognizerBatch = 2
    Beside = {"figure", "plain"}
    OcrCommands <- MCOcrCommands
    LanguageNames <- MCLanguageNames
    ByName <- MCByName
    DefaultScript <- MCDefaultScript
    HfBatch = 2
    Pivot = "eng_Latn"
    In22Rows = 3
    In22Columns = {"eng_Latn", "hin_Deva", "snd_Deva"}
    MtCommands <- MCMtCommands
    Callers = {c1, c2}
    c1 = c1  c2 = c2
    CallChoices <- MCCallChoices
    ChunkedDefault = FALSE
    Strikes = 2
    MaxDeaths = 1
    PageFiles = {"f", "g"}
    Boxes = {"native", "mixed"}
    Spoken = {"hi", "ta"}
    Foreign = {"bgc"}
    AutoLang = AutoLang
    Unset = Unset
    MaxRequests = 2
SPECIFICATION PartSpec
SYMMETRY CallersAlike
INVARIANTS RowsAnswered NothingLeft HealsInTwo SpeechHeardOnce SpanBounded OwnText Aligned EndMeansWhole OnePage
CHECK_DEADLOCK FALSE
