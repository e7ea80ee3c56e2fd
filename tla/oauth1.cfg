SPECIFICATION Spec
CONSTANTS
    Accounts = {a1, a2}
    Browsers = {b1, b2}
    Requests = {r1, r2}
    Tokens = {t1, t2, t3}
    Rows = {c1, c2, c3}
    None = None
    Gone = Gone
SYMMETRY Symmetry
INVARIANTS
    TypeOK
    TokensOfAccount
    AuthUrlUnused
PROPERTIES
    AddonsKeptUntilCallback
CHECK_DEADLOCK FALSE
