SPECIFICATION Spec
CONSTANTS
    ParentWins <- ByType
    Compress = TRUE
    LinkMayFail = {}
    MayTimeOut = FALSE
    MaxCalls <- Two
    MaxSyncs <- None
    MaxAsyncs <- ChildTwo
    MaxNests <- ParentOne
    MaxFrames = 8
CHECK_DEADLOCK FALSE
INVARIANT NeverOverestimated
INVARIANT ReplyMatches
INVARIANT OutOfTurnBelongs
INVARIANT IncallSane
INVARIANT TasksCoverQueue
INVARIANT QuietIsClean
