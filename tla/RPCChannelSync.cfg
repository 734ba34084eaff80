SPECIFICATION Spec
CONSTANTS
    ParentWins <- ParentAlways
    Compress = FALSE
    LinkMayFail = {}
    MayTimeOut = FALSE
    MaxCalls <- Two
    MaxSyncs <- ChildOne
    MaxAsyncs <- One
    MaxNests <- None
    MaxFrames = 8
CHECK_DEADLOCK FALSE
INVARIANT SenderBlocked
