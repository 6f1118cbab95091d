SPECIFICATION Spec
CONSTANTS
    Events = {e1}
    NoEvent = none
    Workers = {w1, w2}
    Tries = 2
    MaxRetries = 1
    MaxBeats = 1
    MaxFaults = 2
SYMMETRY Symmetry
INVARIANTS
    TypeOK
    RowsTellTheTruth
    UnderWayIsPending
    NothingVanishes
    AttemptsAreBudgeted
CHECK_DEADLOCK FALSE
