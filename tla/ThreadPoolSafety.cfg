SPECIFICATION Spec
CONSTANTS
    Events = {e1, e2}
    Clients = {c1, c2}
    Workers = {w1, w2}
    Listeners = {l1}
    None = None
    DEFAULT_THREAD_LIMIT = 2
    DEFAULT_IDLE_THREAD_LIMIT = 1
    ThreadLimits = {0, 1}
    IdleThreadLimits = {0}
    MayFail = TRUE
    OrderlyShutdown = FALSE
SYMMETRY Symmetric
INVARIANT TypeOK
INVARIANT IdleCountExact
INVARIANT SoleReaper
INVARIANT ThreadPlaces
INVARIANT NoLostWakeup
INVARIANT ListenerPaired
