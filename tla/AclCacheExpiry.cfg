SPECIFICATION Spec
CONSTANTS
    Procs = {p1, p2}
    Clients = {c1}
    Durations = {1}
    Ttl = 1
    MaxRows = 2
    MaxWrites = 2
    MaxTime = 2
PROPERTY
    ExpiredRowsAreIgnored
CHECK_DEADLOCK FALSE
