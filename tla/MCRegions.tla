------------------------------ MODULE MCRegions ------------------------------
(* A small instance of Regions for TLC. *)
EXTENDS MCController, Regions

Region(a, b) == [start |-> a, end |-> b]

\* Regions that are apart and out of order, that overlap, one inside of another,
\* at the start of the program, and none.
RecordLists == { << >>,
                 <<Region(2, 3), Region(2, 4)>>,
                 <<Region(4, 5), Region(0, 1), Region(3, 4)>>,
                 <<Region(1, 6), Region(3, 4)>> }
\* One thread has regions, it does not matter which.
OneThreadsRegions == {f \in [Threads -> RecordLists] : \E t \in Threads : \A u \in Threads \ {t} : f[u] = << >>}
BlocksMarked == {[size |-> 1, marks |-> {}], [size |-> 2, marks |-> {"m"}]}
=============================================================================
