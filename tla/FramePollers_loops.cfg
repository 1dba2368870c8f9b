SPECIFICATION FairSpec
CONSTANTS
    ArchiveEnabled = TRUE
    Lookback = 2
    Chunk = 2
    RetainHours = 4
    upstreamHistory = 4
    PublishDelay = 1
    Start = 4
    MaxNow = 5
    MaxFaults = 1
    MaxRestarts = 1
    Faults = {"discover", "fetch", "put"}
    None = None
CHECK_DEADLOCK FALSE
INVARIANTS
    BackfillContiguous
    TrafficProportional
PROPERTIES
    LiveCatchesUp
    RetentionWins
