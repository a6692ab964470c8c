SPECIFICATION RecordSpec
CONSTANTS
    d1 = d1
    a1 = a1
    c1 = c1
    c2 = c2
    Decisions = {d1}
    Approvals = {a1}
    DecisionOf <- MCDecisionOf
    NoApproval = NoApproval
    Emitted = {"filled", "closed"}
    MaxExecutions = 2
    MaxCrashes = 1
    MayRaise = TRUE
    MaxFaults = 1
    Channels = {c1, c2}
    OffTopic <- MCOffTopic
    Backfill = 1
    MaxPerCycle = 2
    MaxCalls = 1
    ExpireLost = FALSE
    MaxPosts <- MCMaxPosts
    MaxEdits = 1
    Symbols = {"a", "b"}
    Ages = {0, 1, 3}
    Batch = 2
    DayHours = 2
    Retention = 1
    Baseline = 1
    MaxItems = 2
    MaxHour = 4
    Tasks = {"poll", "lists"}
    Critical = {"poll"}
    Interval <- MCInterval
    FailureWindow = 10
    UnhealthyAfter = 2
    Siblings <- MCSiblings
    MaxEvents = 1
    Stored <- MCStored
    Arrivals <- MCArrivals
    Class <- MCClass
    Stages <- MCStages
    Terminals = {1, 2}
    PanelWindow = 1
    PanelTtl = 1
    MaxReasons = 2
    MaxPanelRows = 11
    MaxPanelTick = 1
    Prices = {95, 110}
    Plans <- MCPlans
    Horizons = {1, 2}
    Primary = 2
    MinSample = 1
    Fee = 16
    JudgedTtl = 1
    MaxOutcomeRows = 2
    MaxOutcomeTick = 2
    Equities = {0, 100}
    BaseCapital = 1000
    Trades <- MCTrades
    PriceOf <- MCPriceOf
    StaleAfter = 1
    MaxAsset = 30
    MaxExposure = 80
    PollerMayRaise = FALSE
    MaxAccountTick = 2
    MaxTopic = 1
    Pairs = {"x"}
    Page = 2
    MaxCandle = 2
    MaxCandleTopic = 4
    Metas = {"m", "n"}
    Rewrite = 2
    MaxTokenTick = 3
    MaxPrices = 3
    Raw <- MCRaw
    LinkWindow = 1
    MaxTraceTick = 1
    MaxPublished = 5
    MaxMeanwhile = 1
    Sockets = {1, 2}
    MaxFrames = 2
CHECK_DEADLOCK FALSE
INVARIANTS StatusIsLatest JournalNamesATrade CursorClaimsStored AtMostOnce WindowsExact PanelsInAgreement NoHoleBehind TokenRowHeals TellsOneStory EveryFrameInOrder
PROPERTIES OutcomesAreKept SettledStays EveryApprovalIsStored ContentComesThrough OutageShows BalanceShown
