SPECIFICATION Spec
CONSTANTS
    Kumpula = Kumpula
    Sodankyla = Sodankyla
    Stations <- MCStations
    pollInterval = 2
    retryInterval = 1
    stationsTTL = 3
    FetchTimeout = 1
    Redis = TRUE
    RedisCanFail = TRUE
    MaxFailures = 1
    MaxCrashes = 1
    MaxNow = 6
    None = None
SYMMETRY MCSymmetry
\* The bound on time ends every behaviour.
CHECK_DEADLOCK FALSE
INVARIANTS
    DetailNotOlderThanList
    ListMatchesDetails
