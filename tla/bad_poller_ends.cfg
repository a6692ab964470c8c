SPECIFICATION AccountFairSpec
CONSTANTS
    Equities = {0, 100}
    BaseCapital = 1000
    Trades <- MCTrades
    PriceOf <- MCPriceOf
    StaleAfter = 1
    MaxAsset = 30
    MaxExposure = 80
    PollerMayRaise = TRUE
    MaxAccountTick = 2
    MaxTopic = 1
    MaxFaults = 1
CHECK_DEADLOCK FALSE
INVARIANTS PollerRuns
