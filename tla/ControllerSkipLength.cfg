SPECIFICATION Spec
CONSTANTS
    t1 = t1
    t2 = t2
    AllThreads = AllThreads
    Indefinite = Indefinite
    NoWait = NoWait
    Threads = {t1, t2}
    Alarm <- SkipLength
    Repeat <- Twice
    WaitFor <- NoneWaits
    Blocks <- Blocks12
    DefaultStart = TRUE
    LogOn = TRUE
    WordMod = 16
    MaxIcount = 7
INVARIANT OneStagePerThread
INVARIANT FiresOnlyIfArmed
INVARIANT EventsInChainOrder
INVARIANT RegionWithinBlock
INVARIANT TracingOnlyInsideARegion
CHECK_DEADLOCK FALSE
SYMMETRY Sym
