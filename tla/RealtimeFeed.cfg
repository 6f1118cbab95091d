SPECIFICATION FairSpec
CONSTANTS
    Cron = cron
    Others = {x1}
    Values = {v1}
    Refs = {w1}
    None = none
    MaxEvents = 3
    MaxFaults = 1
INVARIANTS
    TypeOK
    CursorIsHonest
PROPERTIES
    VersionsOnlyGrow
    CatchesUp
CHECK_DEADLOCK FALSE
