SPECIFICATION Spec
CONSTANTS
    b1 = b1
    b2 = b2
    Bodies = {b1, b2}
    Sizes <- MCSizes
    Mtimes <- MCMtimes
    MaxSize = 1
    Scripts = {}
    NoHash = nohash
    Paths = {p1}
    Files <- MCFiles
    Procs = {x1, x2}
    None = none
    Forged = forged
    Broken = broken
    MaxRuns = 3
    MaxBlesses = 1
    MaxEdits = 1
    MaxMishaps = 1
SYMMETRY Symmetry
INVARIANTS
    TypeOK
    SilenceMeansUnchanged
    NeverUnsigned
    AlarmsAreReal
    RememberedWasReported
    RegistryMatches
PROPERTIES
    OnlyBlessReplaces
CHECK_DEADLOCK FALSE
