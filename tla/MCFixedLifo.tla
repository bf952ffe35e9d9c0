----------------------------- MODULE MCFixedLifo -----------------------------
(* A small instance of FixedLifo for TLC: threads are interchangeable, and so *)
(* are objects. *)
EXTENDS FixedLifo, TLC

CONSTANTS t1, t2, t3, x, y

Sym == {f @@ g : f \in Permutations({t1, t2, t3}), g \in Permutations({x, y})}
=============================================================================
