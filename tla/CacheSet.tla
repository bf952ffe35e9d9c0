------------------------------- MODULE CacheSet -------------------------------
(***************************************************************************)
(* One set of the data cache with round robin replacement, as the analysis *)
(* routines of several application threads use it: no lock is taken, so    *)
(* the scan of Find and the writes of Replace of different threads         *)
(* interleave.                                                             *)
(***************************************************************************)
EXTENDS Integers, FiniteSets

CONSTANTS
    Threads,   \* application threads
    Assoc,     \* the associativity
    Lines,     \* tags of the lines the application uses
    NoLine     \* CACHE_TAG(0), the initial content of a way

ASSUME CacheSetAssumption == Assoc \in Nat \ {0} /\ NoLine \notin Lines

VARIABLES
    tags,      \* ROUND_ROBIN::_tags
    next,      \* ROUND_ROBIN::_nextReplaceIndex
    pc,        \* where a thread is in its access
    tag,       \* the line it accesses
    way,       \* index of Find, and of Replace
    hit,       \* what Find returned last
    last,      \* history: the thread whose access began last
    overlapped \* history: an access began while another was under way

history == <<last, overlapped>>
vars == <<tags, next, pc, tag, way, hit, history>>

Ways == 0..(Assoc - 1)
LastWay == Assoc - 1

\* The way to replace after way w.
PredUnchecked(w) == w - 1
PredUnwrapped(w) == IF w = 0 THEN 0 ELSE w - 1
Pred(w) == IF w = 0 THEN LastWay ELSE w - 1

Init ==
    /\ tags = [w \in Ways |-> NoLine]
    /\ next = LastWay
    /\ pc = [t \in Threads |-> "idle"]
    /\ tag \in [Threads -> Lines]
    /\ way = [t \in Threads |-> LastWay]
    /\ hit = [t \in Threads |-> FALSE]
    /\ last \in Threads
    /\ overlapped = FALSE
-----------------------------------------------------------------------------
Goto(t, from, to) == pc[t] = from /\ pc' = [pc EXCEPT ![t] = to]

\* The set is asked for line x.
Lookup(t, x) ==
    /\ Goto(t, "idle", "find")
    /\ tag' = [tag EXCEPT ![t] = x]
    /\ way' = [way EXCEPT ![t] = LastWay]
    /\ last' = t
    /\ overlapped' = (overlapped \/ \E u \in Threads : pc[u] # "idle")
    /\ UNCHANGED <<tags, next, hit>>

\* One iteration of Find, from the last way down to way 0.
FindHit(t) ==
    /\ tags[way[t]] = tag[t]
    /\ Goto(t, "find", "idle")
    /\ hit' = [hit EXCEPT ![t] = TRUE]
    /\ UNCHANGED <<tags, next, tag, way, history>>
FindNext(t) ==
    /\ pc[t] = "find" /\ tags[way[t]] # tag[t] /\ way[t] > 0
    /\ way' = [way EXCEPT ![t] = @ - 1]
    /\ UNCHANGED <<tags, next, pc, tag, hit, history>>
FindMissEarly(t) ==
    /\ Goto(t, "find", "replace") /\ tags[way[t]] # tag[t] /\ way[t] <= 1
    /\ hit' = [hit EXCEPT ![t] = FALSE]
    /\ UNCHANGED <<tags, next, tag, way, history>>
FindMiss(t) ==
    /\ Goto(t, "find", "replace") /\ tags[way[t]] # tag[t] /\ way[t] = 0
    /\ hit' = [hit EXCEPT ![t] = FALSE]
    /\ UNCHANGED <<tags, next, tag, way, history>>

\* Replace: the index is read, the tag is written there, the index moves on.
ReplaceIndex(t) ==
    /\ Goto(t, "replace", "fill")
    /\ way' = [way EXCEPT ![t] = next]
    /\ UNCHANGED <<tags, next, tag, hit, history>>
ReplaceTag(t) ==
    /\ Goto(t, "fill", "advance")
    /\ tags' = [tags EXCEPT ![way[t]] = tag[t]]
    /\ UNCHANGED <<next, tag, way, hit, history>>
ReplaceNext(t) ==
    /\ Goto(t, "advance", "idle")
    /\ next' = Pred(way[t])
    /\ UNCHANGED <<tags, tag, way, hit, history>>

Next == \E t \in Threads :
    \/ \E x \in Lines : Lookup(t, x)
    \/ FindHit(t) \/ FindNext(t) \/ FindMiss(t)
    \/ ReplaceIndex(t) \/ ReplaceTag(t) \/ ReplaceNext(t)

Spec == Init /\ [][Next]_vars
-----------------------------------------------------------------------------
\* Type invariant; the ways in range are what cache.H:441 asserts.
TypeOK ==
    /\ tags \in [Ways -> Lines \cup {NoLine}]
    /\ next \in Ways
    /\ pc \in [Threads -> {"idle", "find", "replace", "fill", "advance"}]
    /\ tag \in [Threads -> Lines]
    /\ way \in [Threads -> Ways]
    /\ hit \in [Threads -> BOOLEAN]
    /\ last \in Threads
    /\ overlapped \in BOOLEAN

\* Threads that miss the same line at the same time each bring it in, but a line
\* is never in more ways than there are threads: a later access finds a copy.
CopiesBounded ==
    \A x \in Lines : Cardinality({w \in Ways : tags[w] = x}) <= Cardinality(Threads)

\* No line is in two ways of its set as long as no two accesses have overlapped.
NoDuplicates ==
    ~overlapped => \A v, w \in Ways : tags[v] = tags[w] /\ tags[v] # NoLine => v = w

\* Until two accesses overlap, the set is a FIFO of the lines of the last misses,
\* whichever threads make them. Between the writes of Replace the index still
\* points at the way just filled.
Oldest == IF pc[last] = "advance" THEN Pred(next) ELSE next
Slot(i) == IF Oldest >= i - 1 THEN Oldest - (i - 1) ELSE Oldest - (i - 1) + Assoc
Phase == CASE pc[last] \in {"idle", "advance"} -> "idle"
           [] pc[last] = "find" -> "asked"
           [] OTHER -> "missed"
Fifo == INSTANCE FifoSet WITH
    queue <- [i \in 1..Assoc |-> tags[Slot(i)]], phase <- Phase,
    asked <- tag[last], found <- hit[last]

IsFifo == Fifo!Init /\ [][overlapped' \/ Fifo!Next]_(Fifo!fifoVars)
=============================================================================
