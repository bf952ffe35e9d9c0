SPECIFICATION Spec
CONSTANTS
    Threads = {t1, t2}
    Assoc = 3
    Lines = {w, x, y, z}
    NoLine = none
INVARIANTS TypeOK CopiesBounded
PROPERTIES IsFifo
