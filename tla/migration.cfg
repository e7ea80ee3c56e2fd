\* Two users that share an account, while they change their addons.
SPECIFICATION Spec
CONSTANTS
    u1 = u1
    u2 = u2
    e1 = e1
    e2 = e2
    e3 = e3
    n1 = n1
    n2 = n2
    Users = {u1, u2}
    ExternalAccounts = {e1, e2}
    Nodes = {n1, n2}
    Services = {"owncloud"}
    Format <- Passwords
    Provider <- OneService
    UserToExternalAccount <- SharedAccount
    MayLack = {"oauth_key", "profile_url"}
    Options <- AllOptions
    MaxEdited = 1
    None = None
SYMMETRY Symmetry
INVARIANTS
    TypeOK
PROPERTIES
    MigrationComplete
    FixRepairs
    OwnerKept
