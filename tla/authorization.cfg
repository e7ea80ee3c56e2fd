SPECIFICATION Spec
CONSTANTS
    Users = {u1, u2}
    Owner = u1
    Invoker = u2
    NoUser = NoUser
    Requests = {r1}
    NoRequest = NoRequest
    Signings <- MCSignings
    Window = 1
    CacheSize = 2
    MaxTime = 2
    MaxMessages = 1
    MaxChanges = 2
INVARIANT TypeOK
PROPERTIES
    PerformedWithPermission
    AcceptedInWindow
    OsfIsAccepted
    DoesNotExpireWhenHandled
CHECK_DEADLOCK FALSE
