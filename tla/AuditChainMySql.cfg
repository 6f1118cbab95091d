SPECIFICATION Spec
CONSTANTS
    Writers = {w1, w2}
    c1 = c1
    c2 = c2
    c3 = c3
    Contents = {c1, c2, c3}
    Records = {c1, c3}
    ReadBack <- MySqlJson
    MaxInserts = 3
    MaxEdits = 0
INVARIANT
    UntouchedLogIsClean
CHECK_DEADLOCK FALSE
