SPECIFICATION Spec
CONSTANTS
    DL2 = TRUE
    Sets <- TwoSets
    Assoc <- TwoWays
    LineSize <- FourBytes
    SectorLen = 2
    WordLen = 2
    Track <- Kinds
    Refs <- OneLine
    AddrMod = 64
    MaxCalls = 5
INVARIANTS ResidentLineTouched
CHECK_DEADLOCK FALSE
