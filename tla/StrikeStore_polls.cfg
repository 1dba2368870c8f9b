SPECIFICATION Spec
CONSTANTS
    pollInterval = 1
    retryInterval = 1
    pollLookback = 5
    retainWindow = 7
    strikesTTL = 8
    healthyAge = 5
    PublishDelay = 1
    FetchTimeout = 1
    Redis = TRUE
    RedisCanFail = TRUE
    MaxFailures = 1
    MaxCrashes = 1
    MaxNow = 14
    None = None
CHECK_DEADLOCK FALSE
INVARIANTS
    NothingMissed
    NeverBackInTime
    HealthHonest
