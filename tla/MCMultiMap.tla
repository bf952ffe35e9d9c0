----------------------------- MODULE MCMultiMap -----------------------------
(* Small instances of MultiMap for TLC. *)
EXTENDS MultiMap

CONSTANTS t1, t2
=============================================================================
