SPECIFICATION FairSpec
CONSTANTS
    d1 = d1
    d2 = d2
    Databases = {d1, d2}
    IdOf <- Distinct
    Stores = {s1}
    Callbacks = {c1}
    N = 2
    MaxRequests = 2
    kThreadLimit = 1
    MayAbort = TRUE
    MayInvalidate = TRUE
    Scopes <- SplitScopes
CHECK_DEADLOCK FALSE
INVARIANT NothingAfterFinish
INVARIANT AbortedNeverCommits
PROPERTY CallbackFindsIdle
PROPERTY EveryTransactionFires
PROPERTY EveryCallbackRuns
