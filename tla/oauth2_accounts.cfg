\* Two accounts that may come to share metadata and credentials rows.
SPECIFICATION Spec
CONSTANTS
    Accounts = {a1, a2}
    Metas = {m1, m2}
    Creds = {c1, c2}
    Tokens = {t1, t2}
    Handlers = {h1, h2}
    None = None
    Deleted = Deleted
    Owner = Owner
    AccessTokenOnly = FALSE
    Rotating = TRUE
SYMMETRY Symmetry
CHECK_DEADLOCK FALSE
INVARIANTS
    TypeOK
    TokenIssuedForMetadata
    NoCredentialsBesideNonce
