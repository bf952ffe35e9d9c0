SPECIFICATION FairSpec
CONSTANTS
    t1 = t1
    t2 = t2
    AllThreads = AllThreads
    Indefinite = Indefinite
    NoWait = NoWait
    Threads = {t1, t2}
    Alarm <- BcastAndUniform
    Repeat <- ForEverAndOnce
    WaitFor <- NeitherWaits
    Blocks <- Blocks12
    DefaultStart = TRUE
    LogOn = FALSE
    WordMod = 3
    MaxIcount = 0
INVARIANTS BcastKeepsAllArmed UniformCycles
PROPERTIES TracingStops UniformCompletes
