INIT ServicesInit
NEXT ServicesNext

CONSTANTS
    Operators = {"x","y"} Releases = {"r1","r2","r3"} CurrentRelease = "r2" PreviousRelease = "r1" MaxGeneration = 2
    TracedJobs = {"j1"} TraceDays = 1 ReplayDays = 1 MaxDay = 4 MaxAttempt = 2
    AudioKeys = {"a1"} BookKeys = {"b1"} UnsafeKeys = {"b1"} LocalStore = TRUE
    JobIds = {1,2} LeaseTime = 2 PendingThreshold = 2 LeaseGrace = 1 MaxRetries = 2 ReportLimit = 1 MaxNow = 5
    Words = {"test","prod","dev"} MaxSecond = 2 MaxDrills = 3
    AudioObjects = {"a"} BookObjects = {"b"} UploadLimit = 2
    Attempts = 3 Models = 2
    AsrJobs = {"j1","j2"} MaxAsrTries = 3
    Samples = 9 MaxRegion = 3 MaxRange = 4 MaxGap = 1 Padding = 1 MaxFinal = 5 MaxOverlapWords = 3
    Lengths = {1,3,8} Punctuation = {{2},{6},{3,5},{0,7}} MaxSegments = 3 CountThreshold = 2 InputThreshold = 5 OversizedAt = 4 TargetWindow = 2 MaxWindow = 4 TargetSegments = 2 MaxWindows = 4 Overlap = 1 MinWindow = 2 Reach = 2
    Names = {"n","m"} SourceSegments = {1,2} MaxMentions = 3
    PlannedWindows = 4 BudgetWindows = 4 MaxTotalCalls = 3 MaxRepairs = 1
    Letters = {"a","b"} MaxText = 3 MaxQuote = 2
    MaxSources = 2 MaxQuotes = 4
    MinChapters = 2 MaxChapters = 3 MinTotal = 7 MaxTotal = 9 MinChapter = 2 MaxChapter = 5
    MaxQuoteChars = 4
    ExportedRecordings = {"r1"} OtherRecordings = {"r3"} ExportedBooks = {"b1"} OtherBooks = {"b2"}

INVARIANTS
    ReleaseInv
    ReconcileInv
    
    DrillInv
    StoreInv
    
    ChunkInv
    WindowsInv
    RunInv
    GroundingInv
    ResolveInv
    SnapshotInv
    GateInv
    BlueprintInv
    
    CorefInv
    ExportInv


    

\* A part ends when its work is done.
CHECK_DEADLOCK FALSE
