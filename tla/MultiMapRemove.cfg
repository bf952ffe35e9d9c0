SPECIFICATION Spec
CONSTANTS
    t1 = t1
    t2 = t2
    Threads = {t1, t2}
    Key = {a}
    Capacity = 2
    Available = Available
    Reserved = Reserved
INVARIANT RemoveMeetsWhatStays
