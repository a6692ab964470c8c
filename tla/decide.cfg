SPECIFICATION DecideSpec
CONSTANTS
    d1 = d1
    d2 = d2
    d3 = d3
    Decisions = {d1, d2, d3}
    Size <- MCSize
    Cap = 3
    MaxCrashes = 1
    MayRaise = TRUE
    NoDecision = NoDecision
    Coins <- MCCoins
    BySymbol <- MCBySymbol
    ReposOf <- MCRepos
    RepoReadings <- MCRepoReadings
    Budget = 1
    Week = 6
    PushDay = 1
    MaxGithubTick = 2
    MaxFaults = 1
    Tokens <- MCTokens
    Worlds <- MCWorlds
    Horizon = 2
    CacheDays = 1
    MaxFetches = 1
    MaxDay = 2
    MaxQueue = 1
    TriageSymbols = {"a"}
    Market = {"price"}
    Signal = {"volume"}
    TriageReplicas = {"r"}
    Owner <- MCOwner
    Settle = 1
    MaxDelay = 2
    SeniorSymbols = {"a", "b"}
    Log <- MCLog
    MaxCalls = 1
    LongPause = TRUE
    MaxLimits = 1
    FieldReadings <- MCFieldReadings
    Threshold = 70
    MaxFields = 3
    ScanReplicas = {1}
    ScanAxes = {"volume", "trend"}
    Kinds <- MCKinds
    Top = 2
    MinPresence = 50
    DayTicks = 2
    RegimeGap = 0
    Days = 1
    Target = 1
    MaxRows = 2
    MaxScanTick = 1
CHECK_DEADLOCK FALSE
INVARIANTS ExposureInRange ExposureCovers UnlockTermWasRead TakenIsAccountedFor ProposalKeepsTarget
PROPERTIES MeasuredNotMade EvidenceNudges RoundsReachAll WindowCloses BacklogPassed EveryRowReported
