-------------------------------- MODULE MCCache --------------------------------
(* Small instances of Cache for TLC. *)
EXTENDS Cache, TLC

TwoSets == [l \in {"il1", "dl1", "dl2"} |-> IF l = "dl2" THEN 4 ELSE 2]
TwoWays == [l \in {"il1", "dl1", "dl2"} |-> IF l = "il1" THEN 1 ELSE 2]
FourBytes == [l \in {"il1", "dl1", "dl2"} |-> 4]

\* Addresses 4..7, 8..11 and so on are lines; accesses of up to two bytes are
\* made by the routines for a single line.
Access(k, a, n) == [kind |-> k, addr |-> a, size |-> n]
Aligned == {Access("inst", 4, 1), Access("inst", 7, 3), Access("load", 4, 2),
            Access("load", 11, 3), Access("store", 20, 2)}
OneLine == {Access("load", 4, 1), Access("load", 12, 2), Access("store", 14, 2)}
=============================================================================
