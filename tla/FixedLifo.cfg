SPECIFICATION Spec
CONSTANTS
    t1 = t1
    t2 = t2
    t3 = t3
    x = x
    y = y
    Threads = {t1, t2, t3}
    Object = {x, y}
    Capacity = 2
    CounterMod = 4
INVARIANTS TypeOK QueuesLinked OnePlace NoElementLost
PROPERTY IsBoundedStack
SYMMETRY Sym
