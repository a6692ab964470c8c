SPECIFICATION FairSpec
CONSTANTS
    r1 = r1
    r2 = r2
    Replicas = {r1, r2}
    Partitions = {1, 2}
    Reset = "latest"
    FirstOffset = 0
    MaxBatch = 2
    MaxLength = 2
    MaxCrashes = 1
    MaxRebalances = 0
    MayBreak = TRUE
CHECK_DEADLOCK FALSE
INVARIANTS ReplayWindow
PROPERTIES IsAtLeastOnce EveryMessageHandled
