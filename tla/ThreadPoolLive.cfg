SPECIFICATION FairSpec
CONSTANTS
    Events = {e1, e2}
    Clients = {c1, c2}
    Workers = {w1, w2, w3}
    Listeners = {}
    None = None
    DEFAULT_THREAD_LIMIT = 2
    DEFAULT_IDLE_THREAD_LIMIT = 1
    ThreadLimits = {1}
    IdleThreadLimits = {}
    MayFail = FALSE
    OrderlyShutdown = TRUE
INVARIANT EventServed
PROPERTY EveryEventRuns
PROPERTY EveryThreadJoined
