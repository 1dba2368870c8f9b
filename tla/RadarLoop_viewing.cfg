SPECIFICATION Spec
CONSTANTS
    Short = Short
    Long = Long
    Selections <- MCSelections
    windowHours <- MCWindowHours
    END_DWELL_FRAMES = 1
    MaxInFlight = 2
    MaxNow = 5
    MaxLoads = 3
    MaxActs = 3
\* The bounds end every behaviour.
CHECK_DEADLOCK FALSE
INVARIANTS
    LiveShowsNewest
    RunEndsLive
PROPERTIES
    PlaceKept
    RunEnds
