SPECIFICATION Spec
CONSTANTS
    DL2 = TRUE
    Sets <- TwoSets
    Assoc <- TwoWays
    LineSize <- FourBytes
    SectorLen = 2
    WordLen = 2
    Track <- Kinds
    Refs <- Aligned
    AddrMod = 64
    MaxCalls = 4
INVARIANTS TypeOK DL2ServesDL1Misses AccessedLinesResident EveryMissFills ReportAgrees
CHECK_DEADLOCK FALSE
