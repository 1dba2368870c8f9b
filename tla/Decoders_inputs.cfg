\* Every pure function of the program over bounded inputs.
CONSTANTS
    Bad = Bad
    NaN = NaN
    Error = Error
    Unnamed = Unnamed
    Unreadable = Unreadable
    Failed = Failed
    Malformed = Malformed
    Pending = Pending
    T = T
    SnowDepth = SnowDepth
    Quantum = 4
    RasterWidth = 12
    RasterHeight = 4
    nowcastCoarsen = 2
    nowcastSearch = 2
    MinRaining = 1
    HorizonSteps = 3
    ArrivalThreshold = 2
CONSTANTS
    Parameters <- MCParameters
    RadarProducts <- MCRadarProducts
    defaultRetainHours <- MCDefaultHours
    Reports <- MCReports
    Layouts <- MCLayouts
    Losses <- MCLosses
    FrameLists <- MCFrameLists
    Rasters <- MCRasters
    Legends <- MCLegends
    Storms <- MCStorms
    Archives <- MCArchives
    Environments <- MCEnvironments
SPECIFICATION CallSpec
INVARIANTS
    TruncationCaught
    HeadlineMostRecent
    StationsKeepTheirReadings
    DiscoveryFaithful
    MapAgreesWithReadout
    LegendMatchesMap
    SteadyRainArrives
    NowcastIsFresh
    RasterMatchesCorners
    TyposCostThemselves
\* A call is evaluated once.
CHECK_DEADLOCK FALSE
