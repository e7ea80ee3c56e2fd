\* One metadata row, a service that replaces refresh tokens, three handlers.
SPECIFICATION Spec
CONSTANTS
    Accounts = {a1}
    Metas = {m1}
    Creds = {c1}
    Tokens = {t1, t2, t3}
    Handlers = {h1, h2, h3}
    None = None
    Deleted = Deleted
    Owner = Owner
    AccessTokenOnly = FALSE
    Rotating = TRUE
SYMMETRY Symmetry
CHECK_DEADLOCK FALSE
PROPERTIES
    StoredRefreshTokenLive
