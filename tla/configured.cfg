\* Overlapping requests on two configured addons of one owner.
SPECIFICATION Spec
CONSTANTS
    u1 = u1
    u2 = u2
    a1 = a1
    a2 = a2
    n1 = n1
    n2 = n2
    r1 = r1
    r2 = r2
    res1 = res1
    res2 = res2
    Users = {u1, u2}
    Accounts = {a1, a2}
    Addons = {n1}
    Resources = {res1}
    Targets = {t1}
    Requests = {r1, r2}
    Capabilities = {"ACCESS"}
    Owner <- OwnerEach
    Service <- OneService
    Role <- ReaderAndAdmin
    None = None
SYMMETRY Symmetry
INVARIANTS
    TypeOK
    EveryAddonAnnounced
    LinksKnownUnlessAskedEarly
PROPERTIES
    CapabilitiesChecked
    RemovalAnnounced
