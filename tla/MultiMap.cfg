SPECIFICATION Spec
CONSTANTS
    t1 = t1
    t2 = t2
    Threads = {t1, t2}
    Key = {a, b}
    Capacity = 2
    Available = Available
    Reserved = Reserved
INVARIANTS TypeOK OneHolder AddedBelowMark ScansMeetWhatStays
PROPERTY NonBlocking
