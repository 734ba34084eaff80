SPECIFICATION Spec
CONSTANTS
    d1 = d1
    d2 = d2
    Databases = {d1, d2}
    IdOf <- Same
    Stores = {s1, s2}
    Callbacks = {}
    N = 3
    MaxRequests = 1
    kThreadLimit = 2
    MayAbort = TRUE
    MayInvalidate = FALSE
    Scopes <- MixedScopes
SYMMETRY Symmetric
CHECK_DEADLOCK FALSE
INVARIANT Isolation
INVARIANT BlockedForAReason
INVARIANT NoDanglingInfo
