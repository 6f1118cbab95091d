SPECIFICATION Spec
CONSTANTS
    Procs = {p1, p2, p3}
    Clients = {c1}
    Durations = {1}
    Ttl = 1
    MaxRows = 2
    MaxWrites = 2
    MaxTime = 1
SYMMETRY Symmetry
INVARIANTS
    TypeOK
    LiveSetCoherent
    AllowTakesEffect
    RemovalTakesEffect
CHECK_DEADLOCK FALSE
