\* A rotation task fails, and the old secret is removed.
SPECIFICATION Spec
CONSTANTS
    Rows = {r1, r2}
    Values = {v1}
    Params = {q1}
    Processes = {p1, p2}
    MaxSecret = 1
    MayFail = TRUE
    None = None
    Deleted = Deleted
    Unreadable = Unreadable
    Schedule = Schedule
SYMMETRY Symmetry
CHECK_DEADLOCK FALSE
INVARIANT
    EveryRowReadable
