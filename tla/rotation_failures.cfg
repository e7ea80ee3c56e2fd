\* Tasks may fail.
SPECIFICATION Spec
CONSTANTS
    Rows = {r1, r2}
    Values = {v1, v2}
    Params = {q1}
    Processes = {p1, p2, p3}
    MaxSecret = 2
    MayFail = TRUE
    None = None
    Deleted = Deleted
    Unreadable = Unreadable
    Schedule = Schedule
SYMMETRY Symmetry
CHECK_DEADLOCK FALSE
PROPERTY
    RotationKeepsCredentials
