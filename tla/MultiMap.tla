------------------------------- MODULE MultiMap -------------------------------
(***************************************************************************)
(* FIXED_MULTIMAP: a lock-free map from keys to objects in preallocated    *)
(* slots, and FIXED_MULTISET, which is the map with empty objects.  A slot *)
(* is available, reserved by the thread that fills or empties it, or holds *)
(* a key.  Scans go up to a high water mark, which the thread that fills a *)
(* slot raises and the thread that empties the last one lowers; a hint     *)
(* tells where to look for an available slot.  Every access to a shared    *)
(* word is a step of its own.  A load of a slot that is followed by a      *)
(* compare-and-swap which does nothing more when it fails is one step.     *)
(***************************************************************************)
EXTENDS Naturals

CONSTANTS
    Threads,
    Key,       \* the keys clients use
    Capacity,  \* number of slots
    Available, Reserved  \* InvalidKey1 and InvalidKey2

ASSUME CapacityAssumption == Capacity \in Nat \ {0}
ASSUME KeyAssumption == Available \notin Key /\ Reserved \notin Key /\ Available # Reserved

Slots == 0..(Capacity - 1)
Marks == 0..Capacity

VARIABLES
    map,        \* _map: the key of each slot
    highWater,  \* _highWaterMark
    freeHint,   \* _freeLocationHint
    pc,         \* where a thread is in its call
    op,         \* its call
    key,        \* the key it adds, or loaded from the slot it empties
    wanted,     \* the keys it scans for
    pos,        \* the slot its scan is at
    limit,      \* where its scan ends
    index,      \* AddAt, RemoveAt: the slot it fills or empties
    mark,       \* AddAt, RemoveAt: the high water mark it loaded
    fresh,      \* history: the threads whose element is in its slot, but not yet added
    added,      \* history: the slots with an element that was added and not removed
    must        \* history: the slots with an element that a scan must meet

shared == <<map, highWater, freeHint>>
scanning == <<op, wanted, pos, limit>>
locals == <<scanning, key, index, mark>>
history == <<fresh, added, must>>
vars == <<shared, pc, locals, history>>

Init ==
    /\ map = [i \in Slots |-> Available]
    /\ highWater = 0
    /\ freeHint = 0
    /\ pc = [t \in Threads |-> "idle"]
    /\ op = [t \in Threads |-> "add"]
    /\ key = [t \in Threads |-> Available]
    /\ wanted = [t \in Threads |-> {}]
    /\ pos = [t \in Threads |-> 0]
    /\ limit = [t \in Threads |-> 0]
    /\ index = [t \in Threads |-> 0]
    /\ mark = [t \in Threads |-> 0]
    /\ fresh = {}
    /\ added = {}
    /\ must = [t \in Threads |-> {}]
-----------------------------------------------------------------------------
Goto(t, from, to) == pc[t] = from /\ pc' = [pc EXCEPT ![t] = to]

\* The call returns; its locals are gone.
Return(t) ==
    /\ pc' = [pc EXCEPT ![t] = "idle"]
    /\ op' = [op EXCEPT ![t] = "add"]
    /\ key' = [key EXCEPT ![t] = Available]
    /\ wanted' = [wanted EXCEPT ![t] = {}]
    /\ pos' = [pos EXCEPT ![t] = 0]
    /\ limit' = [limit EXCEPT ![t] = 0]
    /\ index' = [index EXCEPT ![t] = 0]
    /\ mark' = [mark EXCEPT ![t] = 0]
    /\ must' = [must EXCEPT ![t] = {}]

\* Add loads the high water mark, then the hint.
CallAdd(t, k) ==
    /\ Goto(t, "idle", "loadhint")
    /\ key' = [key EXCEPT ![t] = k]
    /\ limit' = [limit EXCEPT ![t] = highWater]
    /\ UNCHANGED <<shared, op, wanted, pos, index, mark, history>>

LoadHint(t) ==
    /\ Goto(t, "loadhint", "near")
    /\ pos' = [pos EXCEPT ![t] = freeHint]
    /\ UNCHANGED <<shared, op, wanted, limit, key, index, mark, history>>

Trying(t) == pc[t] \in {"near", "far"} /\ pos[t] < limit[t]

\* AddAt: the slot is available and is reserved. The object is stored in it.
AddAt(t) ==
    /\ Trying(t) /\ map[pos[t]] = Available
    /\ pc' = [pc EXCEPT ![t] = "store"]
    /\ map' = [map EXCEPT ![pos[t]] = Reserved]
    /\ index' = [index EXCEPT ![t] = pos[t]]
    /\ pos' = [pos EXCEPT ![t] = 0]
    /\ limit' = [limit EXCEPT ![t] = 0]
    /\ UNCHANGED <<highWater, freeHint, op, wanted, key, mark, history>>

HoldsKey(i) == map[i] \in Key
InUse(i) == map[i] # Available

\* The slot is not available; the next one is tried.
AddNext(t) ==
    /\ Trying(t) /\ InUse(pos[t])
    /\ pos' = [pos EXCEPT ![t] = @ + 1]
    /\ UNCHANGED <<shared, pc, op, wanted, limit, key, index, mark, history>>

\* No slot from the hint to the mark: all slots are tried.
AddAll(t) ==
    /\ pos[t] >= limit[t]
    /\ Goto(t, "near", "far")
    /\ pos' = [pos EXCEPT ![t] = 0]
    /\ limit' = [limit EXCEPT ![t] = Capacity]
    /\ UNCHANGED <<shared, op, wanted, key, index, mark, history>>

\* Add returns 0.
AddFails(t) ==
    /\ pc[t] = "far" /\ pos[t] >= limit[t]
    /\ Return(t)
    /\ UNCHANGED <<shared, fresh, added>>

Store(t) ==
    /\ Goto(t, "store", "mark")
    /\ map' = [map EXCEPT ![index[t]] = key[t]]
    /\ fresh' = fresh \cup {t}
    /\ UNCHANGED <<highWater, freeHint, locals, added, must>>

\* The slot is below the mark: its element is added, unless it was removed
\* already.
NoteAdded(t) ==
    /\ added' = IF t \in fresh THEN added \cup {index[t]} ELSE added
    /\ fresh' = fresh \ {t}

LoadMark(t) ==
    /\ pc[t] = "mark"
    /\ IF index[t] < highWater
       THEN pc' = [pc EXCEPT ![t] = "bump"] /\ NoteAdded(t) /\ UNCHANGED mark
       ELSE pc' = [pc EXCEPT ![t] = "raise"] /\ UNCHANGED <<fresh, added>>
            /\ mark' = [mark EXCEPT ![t] = highWater]
    /\ UNCHANGED <<shared, scanning, key, index, must>>

\* CompareAndDidSwap of the mark succeeds.
PlainStore(t) == TRUE
MarkStays(t) == highWater = mark[t]

NoOneAbove(t) == index[t]
NewMark(t) == index[t] + 1

RaiseMark(t) ==
    /\ MarkStays(t)
    /\ Goto(t, "raise", "bump")
    /\ highWater' = NewMark(t)
    /\ mark' = [mark EXCEPT ![t] = 0]
    /\ NoteAdded(t)
    /\ UNCHANGED <<map, freeHint, scanning, key, index, must>>
RaiseAgain(t) ==
    /\ ~MarkStays(t)
    /\ Goto(t, "raise", "mark")
    /\ mark' = [mark EXCEPT ![t] = 0]
    /\ UNCHANGED <<shared, scanning, key, index, history>>

BumpAlways(t) == freeHint + 1
NextHint(t) == IF freeHint = index[t] THEN index[t] + 1 ELSE freeHint

\* Add returns the element.
BumpHint(t) ==
    /\ pc[t] = "bump"
    /\ freeHint' = NextHint(t)
    /\ Return(t)
    /\ UNCHANGED <<map, highWater, fresh, added>>
-----------------------------------------------------------------------------
\* Find and FindIf, Remove, RemoveIf and ForEach scan for the keys of ks.
CallScan(t, o, ks) ==
    /\ Goto(t, "idle", "scan")
    /\ op' = [op EXCEPT ![t] = o]
    /\ wanted' = [wanted EXCEPT ![t] = ks]
    /\ limit' = [limit EXCEPT ![t] = highWater]
    /\ must' = [must EXCEPT ![t] = {i \in added : map[i] \in ks}]
    /\ UNCHANGED <<shared, pos, key, index, mark, fresh, added>>

Scanning(t) == pc[t] = "scan" /\ pos[t] < limit[t]

ScanNext(t) ==
    /\ Scanning(t) /\ map[pos[t]] \notin wanted[t]
    /\ pos' = [pos EXCEPT ![t] = @ + 1]
    /\ UNCHANGED <<shared, pc, op, wanted, limit, key, index, mark, history>>

\* The scan is over; Find has found nothing.
ScanEnd(t) ==
    /\ pos[t] >= limit[t]
    /\ Goto(t, "scan", "end")
    /\ UNCHANGED <<shared, locals, history>>
End(t) ==
    /\ pc[t] = "end"
    /\ Return(t)
    /\ UNCHANGED <<shared, fresh, added>>

\* Find returns the object.
Found(t) ==
    /\ Scanning(t) /\ map[pos[t]] \in wanted[t] /\ op[t] = "find"
    /\ Return(t)
    /\ UNCHANGED <<shared, fresh, added>>

\* ForEach calls its function.
Visit(t) ==
    /\ Scanning(t) /\ map[pos[t]] \in wanted[t] /\ op[t] = "foreach"
    /\ pos' = [pos EXCEPT ![t] = @ + 1]
    /\ must' = [must EXCEPT ![t] = @ \ {pos[t]}]
    /\ UNCHANGED <<shared, pc, op, wanted, limit, key, index, mark, fresh, added>>

\* Remove and RemoveIf call RemoveAt.
Match(t) ==
    /\ Scanning(t) /\ map[pos[t]] \in wanted[t] /\ op[t] \in {"remove", "removeif"}
    /\ pc' = [pc EXCEPT ![t] = "take"]
    /\ key' = [key EXCEPT ![t] = map[pos[t]]]
    /\ index' = [index EXCEPT ![t] = pos[t]]
    /\ UNCHANGED <<shared, scanning, mark, history>>

AnyKey(t) == TRUE
SameKey(t) == map[index[t]] = key[t]

Take(t) ==
    /\ SameKey(t)
    /\ Goto(t, "take", "hint")
    /\ map' = [map EXCEPT ![index[t]] = Reserved]
    /\ fresh' = {u \in fresh : index[u] # index[t]}
    /\ added' = added \ {index[t]}
    /\ must' = [u \in Threads |-> must[u] \ {index[t]}]
    /\ UNCHANGED <<highWater, freeHint, locals>>

\* RemoveAt returns: Remove returns too, RemoveIf goes on with its scan.
Removed(t) ==
    IF op[t] = "remove" THEN Return(t)
    ELSE /\ pc' = [pc EXCEPT ![t] = "scan"]
         /\ pos' = [pos EXCEPT ![t] = @ + 1]
         /\ key' = [key EXCEPT ![t] = Available]
         /\ index' = [index EXCEPT ![t] = 0]
         /\ mark' = [mark EXCEPT ![t] = 0]
         /\ UNCHANGED <<op, wanted, limit, must>>

\* Another thread has removed the element.
TakeFails(t) ==
    /\ ~SameKey(t)
    /\ pc[t] = "take"
    /\ IF op[t] = "remove" THEN Goto(t, "take", "end") /\ UNCHANGED <<locals, must>>
                           ELSE Removed(t)
    /\ UNCHANGED <<shared, fresh, added>>

StoreHint(t) ==
    /\ Goto(t, "hint", "last")
    /\ freeHint' = index[t]
    /\ UNCHANGED <<map, highWater, locals, history>>

LoadLast(t) ==
    /\ IF index[t] + 1 = highWater
       THEN Goto(t, "last", "lower") /\ mark' = [mark EXCEPT ![t] = highWater]
       ELSE Goto(t, "last", "free") /\ UNCHANGED mark
    /\ UNCHANGED <<shared, scanning, key, index, history>>

LowerMark(t) ==
    /\ MarkStays(t)
    /\ Goto(t, "lower", "freelast")
    /\ highWater' = index[t]
    /\ mark' = [mark EXCEPT ![t] = 0]
    /\ UNCHANGED <<map, freeHint, scanning, key, index, history>>
LowerFails(t) ==
    /\ ~MarkStays(t)
    /\ Goto(t, "lower", "free")
    /\ mark' = [mark EXCEPT ![t] = 0]
    /\ UNCHANGED <<shared, scanning, key, index, history>>

\* The slot is available. If the mark was lowered to it, the slot below is next.
Free(t) ==
    /\ pc[t] = "free" \/ (pc[t] = "freelast" /\ index[t] = 0)
    /\ map' = [map EXCEPT ![index[t]] = Available]
    /\ Removed(t)
    /\ UNCHANGED <<highWater, freeHint, fresh, added>>
FreeLast(t) ==
    /\ index[t] > 0
    /\ Goto(t, "freelast", "below")
    /\ map' = [map EXCEPT ![index[t]] = Available]
    /\ index' = [index EXCEPT ![t] = @ - 1]
    /\ UNCHANGED <<highWater, freeHint, scanning, key, mark, history>>

TakeBelow(t) ==
    /\ ~InUse(index[t])
    /\ Goto(t, "below", "hint")
    /\ map' = [map EXCEPT ![index[t]] = Reserved]
    /\ UNCHANGED <<highWater, freeHint, locals, history>>
BelowInUse(t) ==
    /\ pc[t] = "below" /\ InUse(index[t])
    /\ Removed(t)
    /\ UNCHANGED <<shared, fresh, added>>

Call(t) ==
    \/ \E k \in Key : CallAdd(t, k)
    \/ \E k \in Key : CallScan(t, "remove", {k})
    \/ \E o \in {"find", "removeif", "foreach"}, ks \in SUBSET Key \ {{}} : CallScan(t, o, ks)

Step(t) ==
    \/ LoadHint(t) \/ AddAt(t) \/ AddNext(t) \/ AddAll(t) \/ AddFails(t)
    \/ Store(t) \/ LoadMark(t) \/ RaiseMark(t) \/ RaiseAgain(t) \/ BumpHint(t)
    \/ ScanNext(t) \/ ScanEnd(t) \/ End(t) \/ Found(t) \/ Visit(t) \/ Match(t)
    \/ Take(t) \/ TakeFails(t) \/ StoreHint(t) \/ LoadLast(t) \/ LowerMark(t)
    \/ LowerFails(t) \/ Free(t) \/ FreeLast(t) \/ TakeBelow(t) \/ BelowInUse(t)

Next == \E t \in Threads : Call(t) \/ Step(t)

Spec == Init /\ [][Next]_vars
-----------------------------------------------------------------------------
\* Type invariant.
Holding == {"store", "hint", "last", "lower", "free", "freelast"}
Stages == Holding \cup {"idle", "loadhint", "near", "far", "mark", "raise", "bump",
                        "scan", "end", "take", "below"}
LocalsTyped ==
    /\ pc \in [Threads -> Stages]
    /\ op \in [Threads -> {"add", "find", "remove", "removeif", "foreach"}]
    /\ key \in [Threads -> Key \cup {Available}]
    /\ wanted \in [Threads -> SUBSET Key]
    /\ pos \in [Threads -> Marks]
    /\ limit \in [Threads -> Marks]
    /\ index \in [Threads -> Slots]
    /\ mark \in [Threads -> Marks]
    /\ must \in [Threads -> SUBSET Slots]
TypeOK ==
    /\ map \in [Slots -> Key \cup {Available, Reserved}]
    /\ highWater \in Marks
    /\ freeHint \in Marks
    /\ fresh \subseteq Threads
    /\ added \subseteq Slots
    /\ LocalsTyped

\* A reserved slot has one thread that fills or empties it, and such a thread
\* has its slot for itself ("without anyone else using it",
\* fixed-multimap.hpp:321), so that no slot stays reserved for ever and none is used by two threads.
OneHolder ==
    /\ \A t \in Threads : pc[t] \in Holding => map[index[t]] = Reserved
    /\ \A i \in Slots : map[i] = Reserved =>
           \E t \in Threads : pc[t] \in Holding /\ index[t] = i
    /\ \A t, u \in Threads :
           pc[t] \in Holding /\ pc[u] \in Holding /\ index[t] = index[u] => t = u

\* An element whose Add is complete stays below the high water mark until it is
\* removed, whoever lowers the mark meanwhile: "all entries at this location and
\* above are invalid" (fixed-multimap.hpp:410).
AddedBelowMark == \A i \in added : map[i] \in Key /\ i < highWater

\* A scan that ends has met every element that was in the map when it began and
\* that nobody has removed since: Find returns 0 only if there is no such
\* element, RemoveIf removes and ForEach visits them all (fixed-multimap.hpp:159).
ScansMeetWhatStays ==
    \A t \in Threads : pc[t] = "end" /\ op[t] # "remove" => must[t] = {}

\* No thread waits for another: whatever the others have left undone, a call
\* returns unless they go on for ever (fixed-multimap.hpp:48).
OtherStep(t) == \E u \in Threads \ {t} : Call(u) \/ Step(u)
NonBlocking ==
    \A t \in Threads : WF_vars(Step(t)) =>
        []<><<OtherStep(t)>>_vars \/ (pc[t] # "idle" ~> pc[t] = "idle")

\* What the same words promise of Remove (fixed-multimap.hpp:226): if there was
\* a match when it began which nobody has removed since, it has removed one.
RemoveMeetsWhatStays ==
    \A t \in Threads : pc[t] = "end" /\ op[t] = "remove" => must[t] = {}
=============================================================================
