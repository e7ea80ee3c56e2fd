\* One rotation of the secret and of the key parameters, no task fails.
SPECIFICATION FairSpec
CONSTANTS
    Rows = {r1}
    Values = {v1, v2}
    Params = {q1, q2}
    Processes = {p1, p2, p3}
    MaxSecret = 1
    MayFail = FALSE
    None = None
    Deleted = Deleted
    Unreadable = Unreadable
    Schedule = Schedule
CHECK_DEADLOCK FALSE
INVARIANTS
    TypeOK
    EveryRowReadable
PROPERTIES
    StoreSpec
    RotationCompletes
