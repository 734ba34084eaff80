SPECIFICATION FairSpec
CONSTANTS
    EVENTS_PER_PAGE = 2
    NoEvent = NoEvent
    N = 2
    None = None
    MaxTasks = 4
    MayFail = TRUE
CHECK_DEADLOCK FALSE
INVARIANT JoinedIsDone
INVARIANT NothingLeftBehind
INVARIANT ContextOutlivesUse
PROPERTY EveryCallReturns
PROPERTY ImplementsTargets
