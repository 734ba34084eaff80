SPECIFICATION FairSpec
CONSTANTS
    ParentWins <- ByType
    Compress = FALSE
    LinkMayFail = {"parent", "child"}
    MayTimeOut = TRUE
    MaxCalls <- ParentMore
    MaxSyncs <- ChildOne
    MaxAsyncs <- ChildOne
    MaxNests <- None
    MaxFrames = 8
CHECK_DEADLOCK FALSE
INVARIANT SenderBlockedUnlessWon
INVARIANT RacesSymmetric
INVARIANT StackMatchesFrames
PROPERTY StacksUnwind
PROPERTY DeferredRuns
