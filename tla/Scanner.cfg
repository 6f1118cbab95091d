SPECIFICATION Spec
CONSTANTS
    b1 = b1
    b2 = b2
    s1 = s1
    s2 = s2
    p1 = p1
    uploads = uploads
    app = app
    other = other
    Procs = {x1, x2}
    Paths = {p1}
    Findings = {f1, f2}
    Bodies = {b1, b2}
    Targets = {uploads, app}
    Movable = {uploads}
    Stub = stub
    Absent = absent
    None = none
    MaxFaults = 1
    Runs = {r1}
    Signatures = {s1, s2}
    Hits <- MCHits
    Advisories <- MCAdvisories
    Names = {uploads, app, other}
    Covers <- MCCovers
    TargetLists <- MCTargetLists
    UnknownFiles = uploads
    PerFile = perFile
    RunLevel = runLevel
SYMMETRY Symmetry
INVARIANTS
    TypeOK
    RowsMatchVault
    CompletedIsWhole
PROPERTIES
    KeepsCustody
CHECK_DEADLOCK FALSE
