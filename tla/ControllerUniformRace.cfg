SPECIFICATION Spec
CONSTANTS
    t1 = t1
    t2 = t2
    AllThreads = AllThreads
    Indefinite = Indefinite
    NoWait = NoWait
    Threads = {t1, t2}
    Alarm <- Uniform
    Repeat <- Once
    WaitFor <- NoneWaits
    Blocks <- Blocks12
    DefaultStart = TRUE
    LogOn = FALSE
    WordMod = 16
    MaxIcount = 0
INVARIANT UniformCountNeverWraps
