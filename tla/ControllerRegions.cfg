SPECIFICATION RegionsSpec
CONSTANTS
    t1 = t1
    t2 = t2
    AllThreads = AllThreads
    Indefinite = Indefinite
    NoWait = NoWait
    Threads = {t1, t2}
    Alarm <- LengthThenMark
    Repeat <- OnceEach
    WaitFor <- SecondWaits
    Blocks <- BlocksMarked
    DefaultStart = TRUE
    LogOn = TRUE
    WordMod = 16
    MaxIcount = 5
    Warmup = 1
    Prolog = 0
    Epilog = 1
    RegionFiles <- OneThreadsRegions
    ICOUNT_MAX = 100
INVARIANT TypeOK
INVARIANT WaitsForCompletion
INVARIANT DefaultStartFirst
INVARIANT EventsFiredOnTime
INVARIANT RegionsAsPictured
CHECK_DEADLOCK FALSE
SYMMETRY Sym
