SPECIFICATION Spec
CONSTANTS
    Cron = cron
    Requests = {r1}
    Ttl = 3
    Grace = 4
    GraceFresh = 1
    ShortFresh = 1
    MaxTime = 8
    MaxEvents = 3
INVARIANTS
    TypeOK
    PremiumIsConfirmed
    RevocationSticks
    GraceIsHonoured
    OutageEnds
CHECK_DEADLOCK FALSE
