SPECIFICATION FairSpec
CONSTANTS
    d1 = d1
    d2 = d2
    Databases = {d1}
    IdOf <- Single
    Stores = {s1}
    Callbacks = {}
    N = 2
    MaxRequests = 1
    kThreadLimit = 2
    MayAbort = FALSE
    MayInvalidate = FALSE
    Scopes <- RepeatedScopes
CHECK_DEADLOCK FALSE
PROPERTY EveryTransactionFires
