SPECIFICATION PollFairSpec
CONSTANTS
    c1 = c1
    Channels = {c1}
    OffTopic <- MCNone
    Backfill = 1
    MaxPerCycle = 2
    MaxCalls = 1
    ExpireLost = TRUE
    MaxPosts <- MCNoPosts
    MaxFaults = 1
    MaxEdits = 1
PROPERTIES SourceComesBack
