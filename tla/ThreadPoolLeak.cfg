SPECIFICATION Spec
CONSTANTS
    Events = {e1}
    Clients = {c1}
    Workers = {w1}
    Listeners = {}
    None = None
    DEFAULT_THREAD_LIMIT = 1
    DEFAULT_IDLE_THREAD_LIMIT = 1
    ThreadLimits = {}
    IdleThreadLimits = {}
    MayFail = FALSE
    OrderlyShutdown = FALSE
SYMMETRY Symmetric
INVARIANT NoEventLeaked
