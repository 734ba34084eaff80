SPECIFICATION FairSpec
CONSTANTS
    t1 = t1
    t2 = t2
    Timers = {t1, t2}
    TypesOf <- MixedTypes
    Delays = {1}
    Adjustments <- Early
    None = None
    MaxTime = 1
    MaxInits = 2
    MaxUpsets = 1
CHECK_DEADLOCK FALSE
INVARIANT RefCntExact
INVARIANT ListSound
INVARIANT NoneArmedAtEnd
INVARIANT SleepsInTime
INVARIANT NeverEarly
PROPERTY EveryTimerFires
PROPERTY ShutdownEnds
