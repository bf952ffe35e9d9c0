--------------------------- MODULE MultiMapProofs ---------------------------
(***************************************************************************)
(* Proofs about MultiMap, for any number of threads, keys and slots.       *)
(***************************************************************************)
EXTENDS MultiMap, TLAPS

Scans == {"find", "remove", "removeif", "foreach"}
Emptying == {"hint", "last", "lower", "free", "freelast", "below"}

\* What a thread has loaded.
Working ==
    \A t \in Threads :
        /\ pc[t] = "lower" => mark[t] = index[t] + 1
        /\ pc[t] = "raise" => mark[t] <= index[t]
        /\ pc[t] \in {"loadhint", "near", "far", "store", "take"} => key[t] \in Key

\* An element that is not yet added is in the slot of its thread alone.
Fresh ==
    \A t \in fresh :
        /\ pc[t] \in {"mark", "raise"} /\ map[index[t]] \in Key /\ index[t] \notin added
        /\ \A u \in fresh : index[u] = index[t] => u = t

\* Where the elements are that a scan must still meet.
Ahead(t, i) == \A j \in must[t] : i <= j /\ j < limit[t]
ScanOK(t) ==
    /\ \A j \in must[t] : j \in added /\ map[j] \in wanted[t]
    /\ pc[t] = "idle" => pos[t] = 0
    /\ pc[t] \in {"scan", "take"} => Ahead(t, pos[t])
    /\ pc[t] \in Emptying \cup {"take"} =>
           op[t] \in {"remove", "removeif"} /\ pos[t] < limit[t]
    /\ pc[t] = "take" => index[t] = pos[t] /\ (pos[t] \in must[t] => map[pos[t]] = key[t])
    /\ pc[t] \in Emptying /\ op[t] = "removeif" => Ahead(t, pos[t] + 1)
    /\ pc[t] = "end" /\ op[t] # "remove" => must[t] = {}
ScanInv == \A t \in Threads : ScanOK(t)

IInv == TypeOK /\ OneHolder /\ AddedBelowMark /\ Working /\ Fresh /\ ScanInv

LEMMA InitIInv == Init => IInv
BY CapacityAssumption, KeyAssumption
DEF Init, IInv, TypeOK, LocalsTyped, OneHolder, AddedBelowMark, Working, Fresh, ScanInv, ScanOK, Ahead,
    Emptying, Holding, Stages,    Slots, Marks

\* What a step of t leaves alone.
SameLocals(u) ==
    /\ pc'[u] = pc[u] /\ op'[u] = op[u] /\ key'[u] = key[u] /\ wanted'[u] = wanted[u]
    /\ pos'[u] = pos[u] /\ limit'[u] = limit[u] /\ index'[u] = index[u] /\ mark'[u] = mark[u]
    /\ must'[u] = must[u]

LEMMA Zeros == 0 \in Slots /\ 0 \in Marks /\ \A i \in Slots : i \in Marks /\ i + 1 \in Marks
BY CapacityAssumption DEF Slots, Marks

LEMMA ReturnEffect ==
    ASSUME TypeOK, NEW t \in Threads, Return(t)
    PROVE  /\ LocalsTyped'
           /\ pc'[t] = "idle" /\ pos'[t] = 0 /\ must'[t] = {}
           /\ \A u \in Threads \ {t} : SameLocals(u)
BY Zeros DEF Return, TypeOK, LocalsTyped, Stages, SameLocals

LEMMA RemovedEffect ==
    ASSUME TypeOK, NEW t \in Threads, op[t] = "remove" \/ pos[t] < limit[t], Removed(t)
    PROVE  /\ LocalsTyped'
           /\ \/ pc'[t] = "idle" /\ pos'[t] = 0 /\ must'[t] = {}
              \/ /\ op[t] # "remove" /\ pc'[t] = "scan" /\ pos'[t] = pos[t] + 1
                 /\ op'[t] = op[t] /\ wanted'[t] = wanted[t] /\ limit'[t] = limit[t]
                 /\ must'[t] = must[t]
           /\ \A u \in Threads \ {t} : SameLocals(u)
<1>1. CASE op[t] = "remove"
  BY <1>1, ReturnEffect DEF Removed
<1>2. CASE op[t] # "remove"
  <2>1. pos[t] + 1 \in Marks
    <3>1. pos[t] \in Nat /\ limit[t] \in Nat /\ limit[t] <= Capacity /\ pos[t] < limit[t]
      BY <1>2, CapacityAssumption DEF TypeOK, LocalsTyped, Marks
    <3> QED BY <3>1, CapacityAssumption DEF Marks
  <2> QED BY <1>2, <2>1, Zeros DEF Removed, TypeOK, LocalsTyped, Stages, SameLocals
<1> QED BY <1>1, <1>2

\* The steps that end a call, or a call of RemoveAt.
Ends(t) ==
    \/ AddFails(t) \/ BumpHint(t) \/ End(t) \/ Found(t)
    \/ TakeFails(t) \/ Free(t) \/ BelowInUse(t)
Quiet(t) ==
    /\ LocalsTyped'
    /\ highWater' = highWater /\ freeHint' \in Marks /\ fresh' = fresh /\ added' = added
    /\ \/ map' = map /\ pc[t] \notin Holding
       \/ pc[t] \in Holding /\ map' = [map EXCEPT ![index[t]] = Available]
    /\ pc[t] \notin {"mark", "raise"} /\ pc'[t] \in {"idle", "scan", "end"}
    /\ \A u \in Threads \ {t} : SameLocals(u)

LEMMA EndsQuietly ==
    ASSUME IInv, NEW t \in Threads, Ends(t)
    PROVE  Quiet(t)
<1> USE DEF Goto, shared, locals, scanning
<1>0. TypeOK /\ ScanOK(t) /\ index[t] \in Slots /\ freeHint \in Marks
  BY DEF IInv, ScanInv, TypeOK, LocalsTyped
<1>1. CASE AddFails(t)
  BY <1>0, <1>1, ReturnEffect DEF AddFails, Quiet, Holding
<1>2. CASE BumpHint(t)
  BY <1>0, <1>2, ReturnEffect, Zeros DEF BumpHint, NextHint, Quiet, Holding
<1>3. CASE End(t)
  BY <1>0, <1>3, ReturnEffect DEF End, Quiet, Holding
<1>4. CASE Found(t)
  BY <1>0, <1>4, ReturnEffect DEF Found, Scanning, Quiet, Holding
<1>5. CASE TakeFails(t) /\ op[t] = "remove"
  <2>1. LocalsTyped'
    BY <1>0, <1>5 DEF TakeFails, TypeOK, LocalsTyped, Stages
  <2> QED BY <1>0, <1>5, <2>1 DEF TakeFails, Quiet, Holding, SameLocals, TypeOK, LocalsTyped
<1>6. CASE TakeFails(t) /\ op[t] # "remove"
  <2>1. Removed(t) /\ pos[t] < limit[t] /\ pc[t] = "take"
    BY <1>0, <1>6 DEF TakeFails, ScanOK
  <2> QED BY <1>0, <1>6, <2>1, RemovedEffect DEF TakeFails, Quiet, Holding
<1>7. CASE Free(t)
  <2>1. pc[t] \in {"free", "freelast"} /\ Removed(t) /\ pos[t] < limit[t]
    BY <1>0, <1>7 DEF Free, ScanOK, Emptying
  <2> QED BY <1>0, <1>7, <2>1, RemovedEffect DEF Free, Quiet, Holding
<1>8. CASE BelowInUse(t)
  <2>1. pc[t] = "below" /\ Removed(t) /\ pos[t] < limit[t]
    BY <1>0, <1>8 DEF BelowInUse, ScanOK, Emptying
  <2> QED BY <1>0, <1>8, <2>1, RemovedEffect DEF BelowInUse, Quiet, Holding
<1> QED BY <1>1, <1>2, <1>3, <1>4, <1>5, <1>6, <1>7, <1>8 DEF Ends

\* A reserved slot has no added element.
LEMMA AddedStays ==
    ASSUME IInv, NEW t \in Threads, Quiet(t)
    PROVE  \A i \in added : i \in added' /\ map'[i] = map[i]
BY KeyAssumption DEF IInv, Quiet, OneHolder, AddedBelowMark, TypeOK

LEMMA EndsScan ==
    ASSUME IInv, NEW t \in Threads, Ends(t)
    PROVE  ScanOK(t)'
<1> USE DEF Goto, shared, locals, scanning
<1>1. TypeOK /\ ScanOK(t)
  BY DEF IInv, ScanInv
<1>2. ASSUME Return(t) PROVE ScanOK(t)'
  BY <1>1, <1>2, ReturnEffect DEF ScanOK, Emptying
<1>3. ASSUME Removed(t), op[t] # "remove", op[t] = "removeif", pos[t] < limit[t], Ahead(t, pos[t] + 1)
      PROVE  ScanOK(t)'
  <2>1. \A i \in added : i \in added' /\ map'[i] = map[i]
    BY EndsQuietly, AddedStays
  <2>2. \/ pc'[t] = "idle" /\ pos'[t] = 0 /\ must'[t] = {}
        \/ /\ pc'[t] = "scan" /\ pos'[t] = pos[t] + 1 /\ wanted'[t] = wanted[t]
           /\ limit'[t] = limit[t] /\ must'[t] = must[t]
    BY <1>1, <1>3, RemovedEffect
  <2> QED BY <1>1, <1>3, <2>1, <2>2 DEF ScanOK, Ahead, Emptying
<1>4. CASE TakeFails(t) /\ op[t] = "remove"
  <2>1. pc'[t] = "end" /\ op' = op /\ must' = must /\ wanted' = wanted /\ map' = map /\ added' = added
    BY <1>1, <1>4 DEF TakeFails, TypeOK, LocalsTyped
  <2> QED BY <1>1, <1>4, <2>1 DEF ScanOK, Emptying
<1>5. CASE TakeFails(t) /\ op[t] # "remove"
  <2>1. pc[t] = "take" /\ op[t] = "removeif" /\ pos[t] < limit[t] /\ pos[t] \notin must[t]
    BY <1>1, <1>5 DEF TakeFails, SameKey, ScanOK
  <2>2. pos[t] \in Nat /\ must[t] \subseteq Nat
    BY <1>1, CapacityAssumption DEF TypeOK, LocalsTyped, Slots, Marks
  <2>3. Ahead(t, pos[t] + 1)
    BY <1>1, <2>1, <2>2 DEF ScanOK, Ahead
  <2> QED BY <1>3, <1>5, <2>1, <2>3 DEF TakeFails
<1>6. CASE Free(t) \/ BelowInUse(t)
  <2>1. pc[t] \in Emptying /\ Removed(t)
    BY <1>6 DEF Free, BelowInUse, Emptying
  <2>2. op[t] = "remove" \/ (op[t] = "removeif" /\ pos[t] < limit[t] /\ Ahead(t, pos[t] + 1))
    BY <1>1, <2>1 DEF ScanOK
  <2>3. CASE op[t] = "remove"
    BY <1>2, <2>1, <2>3 DEF Removed
  <2> QED BY <1>3, <2>1, <2>2, <2>3
<1> QED
  BY <1>2, <1>4, <1>5, <1>6 DEF Ends, AddFails, BumpHint, End, Found

\* Other threads' scans are as before when the added elements stay.
LEMMA ScanFrame ==
    ASSUME ScanInv, NEW t \in Threads, \A u \in Threads \ {t} : SameLocals(u),
           \A i \in added : i \in added' /\ map'[i] = map[i],
           ScanOK(t)'
    PROVE  ScanInv'
<1> SUFFICES ASSUME NEW u \in Threads, u # t PROVE ScanOK(u)'
  BY DEF ScanInv
<1>1. SameLocals(u) /\ ScanOK(u)
  BY DEF ScanInv
<1>2. \A i \in added : i \in added' /\ map'[i] = map[i]
  OBVIOUS
<1> QED BY <1>1, <1>2 DEF ScanOK, SameLocals, Ahead

LEMMA StepType == IInv /\ [Next]_vars => TypeOK'
<1> SUFFICES ASSUME IInv, [Next]_vars PROVE TypeOK'
  OBVIOUS
<1>0. IInv /\ TypeOK /\ OneHolder /\ AddedBelowMark /\ Working /\ Fresh /\ ScanInv
  BY DEF IInv
<1> USE CapacityAssumption, KeyAssumption
<1> USE DEF Goto, shared, locals, scanning, history
<1>1. CASE UNCHANGED vars
  BY <1>0, <1>1 DEF vars, TypeOK, LocalsTyped, Stages, Holding, Slots, Marks
<1>2. ASSUME NEW t \in Threads, NEW k \in Key, CallAdd(t, k) PROVE TypeOK'
  BY <1>0, <1>2 DEF CallAdd, TypeOK, LocalsTyped, Stages, Holding, Slots, Marks
<1>3. ASSUME NEW t \in Threads, NEW o \in Scans, NEW ks \in SUBSET Key, CallScan(t, o, ks) PROVE TypeOK'
  BY <1>0, <1>3 DEF CallScan, Scans, TypeOK, LocalsTyped, Stages, Holding, Slots, Marks
<1>4. ASSUME NEW t \in Threads, LoadHint(t) PROVE TypeOK'
  BY <1>0, <1>4 DEF LoadHint, TypeOK, LocalsTyped, Stages, Holding, Slots, Marks
<1>5. ASSUME NEW t \in Threads, AddAt(t) PROVE TypeOK'
  BY <1>0, <1>5 DEF AddAt, Trying, TypeOK, LocalsTyped, Stages, Holding, Slots, Marks
<1>6. ASSUME NEW t \in Threads, AddNext(t) PROVE TypeOK'
  BY <1>0, <1>6 DEF AddNext, Trying, InUse, TypeOK, LocalsTyped, Stages, Holding, Slots, Marks
<1>7. ASSUME NEW t \in Threads, AddAll(t) PROVE TypeOK'
  BY <1>0, <1>7 DEF AddAll, TypeOK, LocalsTyped, Stages, Holding, Slots, Marks
<1>8. ASSUME NEW t \in Threads, Store(t) PROVE TypeOK'
  BY <1>0, <1>8 DEF Store, TypeOK, LocalsTyped, Stages, Holding, Slots, Marks
<1>9. ASSUME NEW t \in Threads, LoadMark(t) PROVE TypeOK'
  <2>1. added' \subseteq Slots /\ fresh' \subseteq Threads
    BY <1>0, <1>9 DEF LoadMark, NoteAdded, TypeOK, LocalsTyped
  <2> QED BY <1>0, <1>9, <2>1, Zeros DEF LoadMark, TypeOK, LocalsTyped, Stages, Holding
<1>10. ASSUME NEW t \in Threads, RaiseMark(t) PROVE TypeOK'
  <2>1. added' \subseteq Slots /\ fresh' \subseteq Threads
    BY <1>0, <1>10 DEF RaiseMark, NoteAdded, TypeOK, LocalsTyped
  <2> QED BY <1>0, <1>10, <2>1, Zeros DEF RaiseMark, NewMark, TypeOK, LocalsTyped, Stages, Holding
<1>11. ASSUME NEW t \in Threads, RaiseAgain(t) PROVE TypeOK'
  BY <1>0, <1>11 DEF RaiseAgain, MarkStays, TypeOK, LocalsTyped, Stages, Holding, Slots, Marks
<1>12. ASSUME NEW t \in Threads, ScanNext(t) PROVE TypeOK'
  BY <1>0, <1>12 DEF ScanNext, Scanning, TypeOK, LocalsTyped, Stages, Holding, Slots, Marks
<1>13. ASSUME NEW t \in Threads, ScanEnd(t) PROVE TypeOK'
  BY <1>0, <1>13 DEF ScanEnd, TypeOK, LocalsTyped, Stages, Holding, Slots, Marks
<1>14. ASSUME NEW t \in Threads, Visit(t) PROVE TypeOK'
  BY <1>0, <1>14 DEF Visit, Scanning, TypeOK, LocalsTyped, Stages, Holding, Slots, Marks
<1>15. ASSUME NEW t \in Threads, Match(t) PROVE TypeOK'
  BY <1>0, <1>15 DEF Match, Scanning, TypeOK, LocalsTyped, Stages, Holding, Slots, Marks
<1>16. ASSUME NEW t \in Threads, Take(t) PROVE TypeOK'
  BY <1>0, <1>16 DEF Take, SameKey, TypeOK, LocalsTyped, Stages, Holding, Slots, Marks
<1>17. ASSUME NEW t \in Threads, StoreHint(t) PROVE TypeOK'
  BY <1>0, <1>17 DEF StoreHint, TypeOK, LocalsTyped, Stages, Holding, Slots, Marks
<1>18. ASSUME NEW t \in Threads, LoadLast(t) PROVE TypeOK'
  <2>1. CASE index[t] + 1 = highWater
    BY <1>0, <1>18, <2>1 DEF LoadLast, TypeOK, LocalsTyped, Stages, Holding
  <2>2. CASE index[t] + 1 # highWater
    BY <1>0, <1>18, <2>2 DEF LoadLast, TypeOK, LocalsTyped, Stages, Holding
  <2> QED BY <2>1, <2>2
<1>19. ASSUME NEW t \in Threads, LowerMark(t) PROVE TypeOK'
  BY <1>0, <1>19 DEF LowerMark, MarkStays, TypeOK, LocalsTyped, Stages, Holding, Slots, Marks
<1>20. ASSUME NEW t \in Threads, LowerFails(t) PROVE TypeOK'
  BY <1>0, <1>20 DEF LowerFails, MarkStays, TypeOK, LocalsTyped, Stages, Holding, Slots, Marks
<1>21. ASSUME NEW t \in Threads, FreeLast(t) PROVE TypeOK'
  BY <1>0, <1>21 DEF FreeLast, TypeOK, LocalsTyped, Stages, Holding, Slots, Marks
<1>22. ASSUME NEW t \in Threads, TakeBelow(t) PROVE TypeOK'
  BY <1>0, <1>22 DEF TakeBelow, InUse, TypeOK, LocalsTyped, Stages, Holding, Slots, Marks
<1>23. ASSUME NEW t \in Threads, Ends(t) PROVE TypeOK'
  BY <1>0, <1>23, EndsQuietly, Zeros DEF Quiet, TypeOK, LocalsTyped
<1> QED
  BY <1>1, <1>2, <1>3, <1>4, <1>5, <1>6, <1>7, <1>8, <1>9, <1>10, <1>11, <1>12, <1>13, <1>14, <1>15,
     <1>16, <1>17, <1>18, <1>19, <1>20, <1>21, <1>22, <1>23
  DEF Next, Call, Step, Scans, Ends

LEMMA StepHolder == IInv /\ [Next]_vars => OneHolder'
<1> SUFFICES ASSUME IInv, [Next]_vars PROVE OneHolder'
  OBVIOUS
<1>0. IInv /\ TypeOK /\ OneHolder /\ AddedBelowMark /\ Working /\ Fresh /\ ScanInv
  BY DEF IInv
<1> USE CapacityAssumption, KeyAssumption
<1> USE DEF Goto, shared, locals, scanning, history
<1>1. CASE UNCHANGED vars
  BY <1>0, <1>1 DEF vars, OneHolder, Holding, TypeOK, LocalsTyped
<1>2. ASSUME NEW t \in Threads, NEW k \in Key, CallAdd(t, k) PROVE OneHolder'
  BY <1>0, <1>2 DEF CallAdd, OneHolder, Holding, TypeOK, LocalsTyped
<1>3. ASSUME NEW t \in Threads, NEW o \in Scans, NEW ks \in SUBSET Key, CallScan(t, o, ks) PROVE OneHolder'
  BY <1>0, <1>3 DEF CallScan, Scans, OneHolder, Holding, TypeOK, LocalsTyped
<1>4. ASSUME NEW t \in Threads, LoadHint(t) PROVE OneHolder'
  BY <1>0, <1>4 DEF LoadHint, OneHolder, Holding, TypeOK, LocalsTyped
<1>5. ASSUME NEW t \in Threads, AddAt(t) PROVE OneHolder'
  <2>1. pos[t] \in Slots
    BY <1>0, <1>5 DEF AddAt, Trying, TypeOK, LocalsTyped, Slots, Marks
  <2>2. /\ pc'[t] = "store" /\ pc[t] \notin Holding /\ index'[t] = pos[t]
        /\ \A u \in Threads \ {t} : pc'[u] = pc[u] /\ index'[u] = index[u]
    BY <1>0, <1>5 DEF AddAt, Trying, Holding, TypeOK, LocalsTyped
  <2>3. map[pos[t]] = Available /\ map' = [map EXCEPT ![pos[t]] = Reserved]
    BY <1>5 DEF AddAt
  <2>4. map'[pos[t]] = Reserved /\ \A i \in Slots \ {pos[t]} : map'[i] = map[i]
    BY <1>0, <2>1, <2>3 DEF TypeOK
  <2>5. \A u \in Threads : pc[u] \in Holding => index[u] \in Slots \ {pos[t]} /\ u # t
    BY <1>0, <2>2, <2>3 DEF OneHolder, TypeOK, LocalsTyped
  <2> QED BY <1>0, <2>1, <2>2, <2>4, <2>5 DEF OneHolder, Holding
<1>6. ASSUME NEW t \in Threads, AddNext(t) PROVE OneHolder'
  BY <1>0, <1>6 DEF AddNext, Trying, InUse, OneHolder, Holding, TypeOK, LocalsTyped
<1>7. ASSUME NEW t \in Threads, AddAll(t) PROVE OneHolder'
  BY <1>0, <1>7 DEF AddAll, OneHolder, Holding, TypeOK, LocalsTyped
<1>8. ASSUME NEW t \in Threads, Store(t) PROVE OneHolder'
  BY <1>0, <1>8 DEF Store, OneHolder, Holding, TypeOK, LocalsTyped
<1>9. ASSUME NEW t \in Threads, LoadMark(t) PROVE OneHolder'
  BY <1>0, <1>9 DEF LoadMark, NoteAdded, OneHolder, Holding, TypeOK, LocalsTyped
<1>10. ASSUME NEW t \in Threads, RaiseMark(t) PROVE OneHolder'
  BY <1>0, <1>10 DEF RaiseMark, MarkStays, NewMark, NoteAdded, OneHolder, Holding, TypeOK, LocalsTyped
<1>11. ASSUME NEW t \in Threads, RaiseAgain(t) PROVE OneHolder'
  BY <1>0, <1>11 DEF RaiseAgain, MarkStays, OneHolder, Holding, TypeOK, LocalsTyped
<1>12. ASSUME NEW t \in Threads, ScanNext(t) PROVE OneHolder'
  BY <1>0, <1>12 DEF ScanNext, Scanning, OneHolder, Holding, TypeOK, LocalsTyped
<1>13. ASSUME NEW t \in Threads, ScanEnd(t) PROVE OneHolder'
  BY <1>0, <1>13 DEF ScanEnd, OneHolder, Holding, TypeOK, LocalsTyped
<1>14. ASSUME NEW t \in Threads, Visit(t) PROVE OneHolder'
  BY <1>0, <1>14 DEF Visit, Scanning, OneHolder, Holding, TypeOK, LocalsTyped
<1>15. ASSUME NEW t \in Threads, Match(t) PROVE OneHolder'
  BY <1>0, <1>15 DEF Match, Scanning, OneHolder, Holding, TypeOK, LocalsTyped
<1>16. ASSUME NEW t \in Threads, Take(t) PROVE OneHolder'
  BY <1>0, <1>16 DEF Take, SameKey, OneHolder, Holding, TypeOK, LocalsTyped
<1>17. ASSUME NEW t \in Threads, StoreHint(t) PROVE OneHolder'
  BY <1>0, <1>17 DEF StoreHint, OneHolder, Holding, TypeOK, LocalsTyped
<1>18. ASSUME NEW t \in Threads, LoadLast(t) PROVE OneHolder'
  BY <1>0, <1>18 DEF LoadLast, OneHolder, Holding, TypeOK, LocalsTyped
<1>19. ASSUME NEW t \in Threads, LowerMark(t) PROVE OneHolder'
  BY <1>0, <1>19 DEF LowerMark, MarkStays, OneHolder, Holding, TypeOK, LocalsTyped
<1>20. ASSUME NEW t \in Threads, LowerFails(t) PROVE OneHolder'
  BY <1>0, <1>20 DEF LowerFails, MarkStays, OneHolder, Holding, TypeOK, LocalsTyped
<1>21. ASSUME NEW t \in Threads, FreeLast(t) PROVE OneHolder'
  BY <1>0, <1>21 DEF FreeLast, OneHolder, Holding, TypeOK, LocalsTyped
<1>22. ASSUME NEW t \in Threads, TakeBelow(t) PROVE OneHolder'
  BY <1>0, <1>22 DEF TakeBelow, InUse, OneHolder, Holding, TypeOK, LocalsTyped
<1>23. ASSUME NEW t \in Threads, Ends(t) PROVE OneHolder'
  BY <1>0, <1>23, EndsQuietly DEF Quiet, SameLocals, OneHolder, Holding, TypeOK, LocalsTyped
<1> QED
  BY <1>1, <1>2, <1>3, <1>4, <1>5, <1>6, <1>7, <1>8, <1>9, <1>10, <1>11, <1>12, <1>13, <1>14, <1>15,
     <1>16, <1>17, <1>18, <1>19, <1>20, <1>21, <1>22, <1>23
  DEF Next, Call, Step, Scans, Ends

LEMMA StepAdded == IInv /\ [Next]_vars => AddedBelowMark'
<1> SUFFICES ASSUME IInv, [Next]_vars PROVE AddedBelowMark'
  OBVIOUS
<1>0. IInv /\ TypeOK /\ OneHolder /\ AddedBelowMark /\ Working /\ Fresh /\ ScanInv
  BY DEF IInv
<1> USE CapacityAssumption, KeyAssumption
<1> USE DEF Goto, shared, locals, scanning, history
<1>1. CASE UNCHANGED vars
  BY <1>0, <1>1 DEF vars, AddedBelowMark, OneHolder, Working, Fresh, Holding, TypeOK, LocalsTyped, Slots, Marks
<1>2. ASSUME NEW t \in Threads, NEW k \in Key, CallAdd(t, k) PROVE AddedBelowMark'
  BY <1>0, <1>2 DEF CallAdd, AddedBelowMark, OneHolder, Working, Fresh, Holding, TypeOK, LocalsTyped, Slots, Marks
<1>3. ASSUME NEW t \in Threads, NEW o \in Scans, NEW ks \in SUBSET Key, CallScan(t, o, ks) PROVE AddedBelowMark'
  BY <1>0, <1>3 DEF CallScan, Scans, AddedBelowMark, OneHolder, Working, Fresh, Holding, TypeOK, LocalsTyped, Slots, Marks
<1>4. ASSUME NEW t \in Threads, LoadHint(t) PROVE AddedBelowMark'
  BY <1>0, <1>4 DEF LoadHint, AddedBelowMark, OneHolder, Working, Fresh, Holding, TypeOK, LocalsTyped, Slots, Marks
<1>5. ASSUME NEW t \in Threads, AddAt(t) PROVE AddedBelowMark'
  BY <1>0, <1>5 DEF AddAt, Trying, AddedBelowMark, OneHolder, Working, Fresh, Holding, TypeOK, LocalsTyped, Slots, Marks
<1>6. ASSUME NEW t \in Threads, AddNext(t) PROVE AddedBelowMark'
  BY <1>0, <1>6 DEF AddNext, Trying, InUse, AddedBelowMark, OneHolder, Working, Fresh, Holding, TypeOK, LocalsTyped, Slots, Marks
<1>7. ASSUME NEW t \in Threads, AddAll(t) PROVE AddedBelowMark'
  BY <1>0, <1>7 DEF AddAll, AddedBelowMark, OneHolder, Working, Fresh, Holding, TypeOK, LocalsTyped, Slots, Marks
<1>8. ASSUME NEW t \in Threads, Store(t) PROVE AddedBelowMark'
  BY <1>0, <1>8 DEF Store, AddedBelowMark, OneHolder, Working, Fresh, Holding, TypeOK, LocalsTyped, Slots, Marks
<1>9. ASSUME NEW t \in Threads, LoadMark(t) PROVE AddedBelowMark'
  <2>1. \A i \in added' : i \in added \/ (i = index[t] /\ t \in fresh)
    BY <1>0, <1>9 DEF LoadMark, NoteAdded
  <2>2. t \in fresh => map[index[t]] \in Key
    BY <1>0 DEF Fresh
  <2>3. (\A i \in added' : i \in added) \/ index[t] < highWater'
    BY <1>0, <1>9 DEF LoadMark, NewMark, TypeOK, LocalsTyped, Slots
  <2>4. map' = map /\ highWater <= highWater'
    BY <1>0, <1>9 DEF LoadMark, NewMark, MarkStays, Working, TypeOK, LocalsTyped, Slots, Marks
  <2> SUFFICES ASSUME NEW i \in added' PROVE map'[i] \in Key /\ i < highWater'
    BY DEF AddedBelowMark
  <2>5. highWater \in Nat /\ highWater' \in Nat
    BY <1>0, StepType DEF TypeOK, Marks
  <2>6. CASE i \in added
    <3>1. i \in Nat /\ map[i] \in Key /\ i < highWater
      BY <1>0, <2>6 DEF AddedBelowMark, TypeOK, Slots
    <3> QED BY <2>4, <2>5, <3>1
  <2>7. CASE i \notin added
    BY <2>1, <2>2, <2>3, <2>4, <2>7
  <2> QED BY <2>6, <2>7
<1>10. ASSUME NEW t \in Threads, RaiseMark(t) PROVE AddedBelowMark'
  <2>1. \A i \in added' : i \in added \/ (i = index[t] /\ t \in fresh)
    BY <1>0, <1>10 DEF RaiseMark, NoteAdded
  <2>2. t \in fresh => map[index[t]] \in Key
    BY <1>0 DEF Fresh
  <2>3. (\A i \in added' : i \in added) \/ index[t] < highWater'
    BY <1>0, <1>10 DEF RaiseMark, NewMark, TypeOK, LocalsTyped, Slots
  <2>4. map' = map /\ highWater <= highWater'
    BY <1>0, <1>10 DEF RaiseMark, NewMark, MarkStays, Working, TypeOK, LocalsTyped, Slots, Marks
  <2> SUFFICES ASSUME NEW i \in added' PROVE map'[i] \in Key /\ i < highWater'
    BY DEF AddedBelowMark
  <2>5. highWater \in Nat /\ highWater' \in Nat
    BY <1>0, StepType DEF TypeOK, Marks
  <2>6. CASE i \in added
    <3>1. i \in Nat /\ map[i] \in Key /\ i < highWater
      BY <1>0, <2>6 DEF AddedBelowMark, TypeOK, Slots
    <3> QED BY <2>4, <2>5, <3>1
  <2>7. CASE i \notin added
    BY <2>1, <2>2, <2>3, <2>4, <2>7
  <2> QED BY <2>6, <2>7
<1>11. ASSUME NEW t \in Threads, RaiseAgain(t) PROVE AddedBelowMark'
  BY <1>0, <1>11 DEF RaiseAgain, MarkStays, AddedBelowMark, OneHolder, Working, Fresh, Holding, TypeOK, LocalsTyped, Slots, Marks
<1>12. ASSUME NEW t \in Threads, ScanNext(t) PROVE AddedBelowMark'
  BY <1>0, <1>12 DEF ScanNext, Scanning, AddedBelowMark, OneHolder, Working, Fresh, Holding, TypeOK, LocalsTyped, Slots, Marks
<1>13. ASSUME NEW t \in Threads, ScanEnd(t) PROVE AddedBelowMark'
  BY <1>0, <1>13 DEF ScanEnd, AddedBelowMark, OneHolder, Working, Fresh, Holding, TypeOK, LocalsTyped, Slots, Marks
<1>14. ASSUME NEW t \in Threads, Visit(t) PROVE AddedBelowMark'
  BY <1>0, <1>14 DEF Visit, Scanning, AddedBelowMark, OneHolder, Working, Fresh, Holding, TypeOK, LocalsTyped, Slots, Marks
<1>15. ASSUME NEW t \in Threads, Match(t) PROVE AddedBelowMark'
  BY <1>0, <1>15 DEF Match, Scanning, AddedBelowMark, OneHolder, Working, Fresh, Holding, TypeOK, LocalsTyped, Slots, Marks
<1>16. ASSUME NEW t \in Threads, Take(t) PROVE AddedBelowMark'
  BY <1>0, <1>16 DEF Take, SameKey, AddedBelowMark, OneHolder, Working, Fresh, Holding, TypeOK, LocalsTyped, Slots, Marks
<1>17. ASSUME NEW t \in Threads, StoreHint(t) PROVE AddedBelowMark'
  BY <1>0, <1>17 DEF StoreHint, AddedBelowMark, OneHolder, Working, Fresh, Holding, TypeOK, LocalsTyped, Slots, Marks
<1>18. ASSUME NEW t \in Threads, LoadLast(t) PROVE AddedBelowMark'
  BY <1>0, <1>18 DEF LoadLast, AddedBelowMark, OneHolder, Working, Fresh, Holding, TypeOK, LocalsTyped, Slots, Marks
<1>19. ASSUME NEW t \in Threads, LowerMark(t) PROVE AddedBelowMark'
  BY <1>0, <1>19 DEF LowerMark, MarkStays, AddedBelowMark, OneHolder, Working, Fresh, Holding, TypeOK, LocalsTyped, Slots, Marks
<1>20. ASSUME NEW t \in Threads, LowerFails(t) PROVE AddedBelowMark'
  BY <1>0, <1>20 DEF LowerFails, MarkStays, AddedBelowMark, OneHolder, Working, Fresh, Holding, TypeOK, LocalsTyped, Slots, Marks
<1>21. ASSUME NEW t \in Threads, FreeLast(t) PROVE AddedBelowMark'
  BY <1>0, <1>21 DEF FreeLast, AddedBelowMark, OneHolder, Working, Fresh, Holding, TypeOK, LocalsTyped, Slots, Marks
<1>22. ASSUME NEW t \in Threads, TakeBelow(t) PROVE AddedBelowMark'
  BY <1>0, <1>22 DEF TakeBelow, InUse, AddedBelowMark, OneHolder, Working, Fresh, Holding, TypeOK, LocalsTyped, Slots, Marks
<1>23. ASSUME NEW t \in Threads, Ends(t) PROVE AddedBelowMark'
  BY <1>0, <1>23, EndsQuietly, AddedStays DEF Quiet, AddedBelowMark
<1> QED
  BY <1>1, <1>2, <1>3, <1>4, <1>5, <1>6, <1>7, <1>8, <1>9, <1>10, <1>11, <1>12, <1>13, <1>14, <1>15,
     <1>16, <1>17, <1>18, <1>19, <1>20, <1>21, <1>22, <1>23
  DEF Next, Call, Step, Scans, Ends

LEMMA StepWorking == IInv /\ [Next]_vars => Working'
<1> SUFFICES ASSUME IInv, [Next]_vars PROVE Working'
  OBVIOUS
<1>0. IInv /\ TypeOK /\ OneHolder /\ AddedBelowMark /\ Working /\ Fresh /\ ScanInv
  BY DEF IInv
<1> USE CapacityAssumption, KeyAssumption
<1> USE DEF Goto, shared, locals, scanning, history
<1>1. CASE UNCHANGED vars
  BY <1>0, <1>1 DEF vars, Working, TypeOK, LocalsTyped, Slots, Marks
<1>2. ASSUME NEW t \in Threads, NEW k \in Key, CallAdd(t, k) PROVE Working'
  BY <1>0, <1>2 DEF CallAdd, Working, TypeOK, LocalsTyped, Slots, Marks
<1>3. ASSUME NEW t \in Threads, NEW o \in Scans, NEW ks \in SUBSET Key, CallScan(t, o, ks) PROVE Working'
  BY <1>0, <1>3 DEF CallScan, Scans, Working, TypeOK, LocalsTyped, Slots, Marks
<1>4. ASSUME NEW t \in Threads, LoadHint(t) PROVE Working'
  BY <1>0, <1>4 DEF LoadHint, Working, TypeOK, LocalsTyped, Slots, Marks
<1>5. ASSUME NEW t \in Threads, AddAt(t) PROVE Working'
  BY <1>0, <1>5 DEF AddAt, Trying, Working, TypeOK, LocalsTyped, Slots, Marks
<1>6. ASSUME NEW t \in Threads, AddNext(t) PROVE Working'
  BY <1>0, <1>6 DEF AddNext, Trying, InUse, Working, TypeOK, LocalsTyped, Slots, Marks
<1>7. ASSUME NEW t \in Threads, AddAll(t) PROVE Working'
  BY <1>0, <1>7 DEF AddAll, Working, TypeOK, LocalsTyped, Slots, Marks
<1>8. ASSUME NEW t \in Threads, Store(t) PROVE Working'
  BY <1>0, <1>8 DEF Store, Working, TypeOK, LocalsTyped, Slots, Marks
<1>9. ASSUME NEW t \in Threads, LoadMark(t) PROVE Working'
  BY <1>0, <1>9 DEF LoadMark, NoteAdded, Working, TypeOK, LocalsTyped, Slots, Marks
<1>10. ASSUME NEW t \in Threads, RaiseMark(t) PROVE Working'
  BY <1>0, <1>10 DEF RaiseMark, MarkStays, NewMark, NoteAdded, Working, TypeOK, LocalsTyped, Slots, Marks
<1>11. ASSUME NEW t \in Threads, RaiseAgain(t) PROVE Working'
  BY <1>0, <1>11 DEF RaiseAgain, MarkStays, Working, TypeOK, LocalsTyped, Slots, Marks
<1>12. ASSUME NEW t \in Threads, ScanNext(t) PROVE Working'
  BY <1>0, <1>12 DEF ScanNext, Scanning, Working, TypeOK, LocalsTyped, Slots, Marks
<1>13. ASSUME NEW t \in Threads, ScanEnd(t) PROVE Working'
  BY <1>0, <1>13 DEF ScanEnd, Working, TypeOK, LocalsTyped, Slots, Marks
<1>14. ASSUME NEW t \in Threads, Visit(t) PROVE Working'
  BY <1>0, <1>14 DEF Visit, Scanning, Working, TypeOK, LocalsTyped, Slots, Marks
<1>15. ASSUME NEW t \in Threads, Match(t) PROVE Working'
  BY <1>0, <1>15 DEF Match, Scanning, Working, TypeOK, LocalsTyped, Slots, Marks
<1>16. ASSUME NEW t \in Threads, Take(t) PROVE Working'
  BY <1>0, <1>16 DEF Take, SameKey, Working, TypeOK, LocalsTyped, Slots, Marks
<1>17. ASSUME NEW t \in Threads, StoreHint(t) PROVE Working'
  BY <1>0, <1>17 DEF StoreHint, Working, TypeOK, LocalsTyped, Slots, Marks
<1>18. ASSUME NEW t \in Threads, LoadLast(t) PROVE Working'
  BY <1>0, <1>18 DEF LoadLast, Working, TypeOK, LocalsTyped, Slots, Marks
<1>19. ASSUME NEW t \in Threads, LowerMark(t) PROVE Working'
  BY <1>0, <1>19 DEF LowerMark, MarkStays, Working, TypeOK, LocalsTyped, Slots, Marks
<1>20. ASSUME NEW t \in Threads, LowerFails(t) PROVE Working'
  BY <1>0, <1>20 DEF LowerFails, MarkStays, Working, TypeOK, LocalsTyped, Slots, Marks
<1>21. ASSUME NEW t \in Threads, FreeLast(t) PROVE Working'
  BY <1>0, <1>21 DEF FreeLast, Working, TypeOK, LocalsTyped, Slots, Marks
<1>22. ASSUME NEW t \in Threads, TakeBelow(t) PROVE Working'
  BY <1>0, <1>22 DEF TakeBelow, InUse, Working, TypeOK, LocalsTyped, Slots, Marks
<1>23. ASSUME NEW t \in Threads, Ends(t) PROVE Working'
  BY <1>0, <1>23, EndsQuietly DEF Quiet, SameLocals, Working
<1> QED
  BY <1>1, <1>2, <1>3, <1>4, <1>5, <1>6, <1>7, <1>8, <1>9, <1>10, <1>11, <1>12, <1>13, <1>14, <1>15,
     <1>16, <1>17, <1>18, <1>19, <1>20, <1>21, <1>22, <1>23
  DEF Next, Call, Step, Scans, Ends

LEMMA StepFresh == IInv /\ [Next]_vars => Fresh'
<1> SUFFICES ASSUME IInv, [Next]_vars PROVE Fresh'
  OBVIOUS
<1>0. IInv /\ TypeOK /\ OneHolder /\ AddedBelowMark /\ Working /\ Fresh /\ ScanInv
  BY DEF IInv
<1> USE CapacityAssumption, KeyAssumption
<1> USE DEF Goto, shared, locals, scanning, history
<1>1. CASE UNCHANGED vars
  BY <1>0, <1>1 DEF vars, Fresh, OneHolder, AddedBelowMark, Working, Holding, TypeOK, LocalsTyped
<1>2. ASSUME NEW t \in Threads, NEW k \in Key, CallAdd(t, k) PROVE Fresh'
  BY <1>0, <1>2 DEF CallAdd, Fresh, OneHolder, AddedBelowMark, Working, Holding, TypeOK, LocalsTyped
<1>3. ASSUME NEW t \in Threads, NEW o \in Scans, NEW ks \in SUBSET Key, CallScan(t, o, ks) PROVE Fresh'
  BY <1>0, <1>3 DEF CallScan, Scans, Fresh, OneHolder, AddedBelowMark, Working, Holding, TypeOK, LocalsTyped
<1>4. ASSUME NEW t \in Threads, LoadHint(t) PROVE Fresh'
  BY <1>0, <1>4 DEF LoadHint, Fresh, OneHolder, AddedBelowMark, Working, Holding, TypeOK, LocalsTyped
<1>5. ASSUME NEW t \in Threads, AddAt(t) PROVE Fresh'
  BY <1>0, <1>5 DEF AddAt, Trying, Fresh, OneHolder, AddedBelowMark, Working, Holding, TypeOK, LocalsTyped
<1>6. ASSUME NEW t \in Threads, AddNext(t) PROVE Fresh'
  BY <1>0, <1>6 DEF AddNext, Trying, InUse, Fresh, OneHolder, AddedBelowMark, Working, Holding, TypeOK, LocalsTyped
<1>7. ASSUME NEW t \in Threads, AddAll(t) PROVE Fresh'
  BY <1>0, <1>7 DEF AddAll, Fresh, OneHolder, AddedBelowMark, Working, Holding, TypeOK, LocalsTyped
<1>8. ASSUME NEW t \in Threads, Store(t) PROVE Fresh'
  BY <1>0, <1>8 DEF Store, Fresh, OneHolder, AddedBelowMark, Working, Holding, TypeOK, LocalsTyped
<1>9. ASSUME NEW t \in Threads, LoadMark(t) PROVE Fresh'
  BY <1>0, <1>9 DEF LoadMark, NoteAdded, Fresh, OneHolder, AddedBelowMark, Working, Holding, TypeOK, LocalsTyped
<1>10. ASSUME NEW t \in Threads, RaiseMark(t) PROVE Fresh'
  BY <1>0, <1>10 DEF RaiseMark, MarkStays, NewMark, NoteAdded, Fresh, OneHolder, AddedBelowMark, Working, Holding, TypeOK, LocalsTyped
<1>11. ASSUME NEW t \in Threads, RaiseAgain(t) PROVE Fresh'
  BY <1>0, <1>11 DEF RaiseAgain, MarkStays, Fresh, OneHolder, AddedBelowMark, Working, Holding, TypeOK, LocalsTyped
<1>12. ASSUME NEW t \in Threads, ScanNext(t) PROVE Fresh'
  BY <1>0, <1>12 DEF ScanNext, Scanning, Fresh, OneHolder, AddedBelowMark, Working, Holding, TypeOK, LocalsTyped
<1>13. ASSUME NEW t \in Threads, ScanEnd(t) PROVE Fresh'
  BY <1>0, <1>13 DEF ScanEnd, Fresh, OneHolder, AddedBelowMark, Working, Holding, TypeOK, LocalsTyped
<1>14. ASSUME NEW t \in Threads, Visit(t) PROVE Fresh'
  BY <1>0, <1>14 DEF Visit, Scanning, Fresh, OneHolder, AddedBelowMark, Working, Holding, TypeOK, LocalsTyped
<1>15. ASSUME NEW t \in Threads, Match(t) PROVE Fresh'
  BY <1>0, <1>15 DEF Match, Scanning, Fresh, OneHolder, AddedBelowMark, Working, Holding, TypeOK, LocalsTyped
<1>16. ASSUME NEW t \in Threads, Take(t) PROVE Fresh'
  BY <1>0, <1>16 DEF Take, SameKey, Fresh, OneHolder, AddedBelowMark, Working, Holding, TypeOK, LocalsTyped
<1>17. ASSUME NEW t \in Threads, StoreHint(t) PROVE Fresh'
  BY <1>0, <1>17 DEF StoreHint, Fresh, OneHolder, AddedBelowMark, Working, Holding, TypeOK, LocalsTyped
<1>18. ASSUME NEW t \in Threads, LoadLast(t) PROVE Fresh'
  BY <1>0, <1>18 DEF LoadLast, Fresh, OneHolder, AddedBelowMark, Working, Holding, TypeOK, LocalsTyped
<1>19. ASSUME NEW t \in Threads, LowerMark(t) PROVE Fresh'
  BY <1>0, <1>19 DEF LowerMark, MarkStays, Fresh, OneHolder, AddedBelowMark, Working, Holding, TypeOK, LocalsTyped
<1>20. ASSUME NEW t \in Threads, LowerFails(t) PROVE Fresh'
  BY <1>0, <1>20 DEF LowerFails, MarkStays, Fresh, OneHolder, AddedBelowMark, Working, Holding, TypeOK, LocalsTyped
<1>21. ASSUME NEW t \in Threads, FreeLast(t) PROVE Fresh'
  BY <1>0, <1>21 DEF FreeLast, Fresh, OneHolder, AddedBelowMark, Working, Holding, TypeOK, LocalsTyped
<1>22. ASSUME NEW t \in Threads, TakeBelow(t) PROVE Fresh'
  BY <1>0, <1>22 DEF TakeBelow, InUse, Fresh, OneHolder, AddedBelowMark, Working, Holding, TypeOK, LocalsTyped
<1>23. ASSUME NEW t \in Threads, Ends(t) PROVE Fresh'
  BY <1>0, <1>23, EndsQuietly DEF Quiet, SameLocals, Fresh, OneHolder, Holding, TypeOK, LocalsTyped
<1> QED
  BY <1>1, <1>2, <1>3, <1>4, <1>5, <1>6, <1>7, <1>8, <1>9, <1>10, <1>11, <1>12, <1>13, <1>14, <1>15,
     <1>16, <1>17, <1>18, <1>19, <1>20, <1>21, <1>22, <1>23
  DEF Next, Call, Step, Scans, Ends

LEMMA StepScan == IInv /\ [Next]_vars => ScanInv'
<1> SUFFICES ASSUME IInv, [Next]_vars PROVE ScanInv'
  OBVIOUS
<1>0. IInv /\ TypeOK /\ OneHolder /\ AddedBelowMark /\ Working /\ Fresh /\ ScanInv
  BY DEF IInv
<1> USE CapacityAssumption, KeyAssumption
<1> USE DEF Goto, shared, locals, scanning, history
<1>1. CASE UNCHANGED vars
  BY <1>0, <1>1 DEF vars, ScanInv, ScanOK, Ahead, Emptying, AddedBelowMark, TypeOK, LocalsTyped, Slots, Marks
<1>2. ASSUME NEW t \in Threads, NEW k \in Key, CallAdd(t, k) PROVE ScanInv'
  BY <1>0, <1>2 DEF CallAdd, ScanInv, ScanOK, Ahead, Emptying, AddedBelowMark, TypeOK, LocalsTyped, Slots, Marks
<1>3. ASSUME NEW t \in Threads, NEW o \in Scans, NEW ks \in SUBSET Key, CallScan(t, o, ks) PROVE ScanInv'
  BY <1>0, <1>3 DEF CallScan, Scans, ScanInv, ScanOK, Ahead, Emptying, AddedBelowMark, TypeOK, LocalsTyped, Slots, Marks
<1>4. ASSUME NEW t \in Threads, LoadHint(t) PROVE ScanInv'
  BY <1>0, <1>4 DEF LoadHint, ScanInv, ScanOK, Ahead, Emptying, AddedBelowMark, TypeOK, LocalsTyped, Slots, Marks
<1>5. ASSUME NEW t \in Threads, AddAt(t) PROVE ScanInv'
  <2>1. \A i \in added : i \in added' /\ map'[i] = map[i]
    BY <1>0, <1>5 DEF AddAt, OneHolder, Holding, AddedBelowMark, TypeOK, LocalsTyped
  <2> QED BY <1>0, <1>5, <2>1 DEF AddAt, ScanInv, ScanOK, Ahead, Emptying, TypeOK, LocalsTyped, Slots, Marks
<1>6. ASSUME NEW t \in Threads, AddNext(t) PROVE ScanInv'
  BY <1>0, <1>6 DEF AddNext, Trying, InUse, ScanInv, ScanOK, Ahead, Emptying, AddedBelowMark, TypeOK, LocalsTyped, Slots, Marks
<1>7. ASSUME NEW t \in Threads, AddAll(t) PROVE ScanInv'
  BY <1>0, <1>7 DEF AddAll, ScanInv, ScanOK, Ahead, Emptying, AddedBelowMark, TypeOK, LocalsTyped, Slots, Marks
<1>8. ASSUME NEW t \in Threads, Store(t) PROVE ScanInv'
  <2>1. \A i \in added : i \in added' /\ map'[i] = map[i]
    BY <1>0, <1>8 DEF Store, OneHolder, Holding, AddedBelowMark, TypeOK, LocalsTyped
  <2> QED BY <1>0, <1>8, <2>1 DEF Store, ScanInv, ScanOK, Ahead, Emptying, TypeOK, LocalsTyped, Slots, Marks
<1>9. ASSUME NEW t \in Threads, LoadMark(t) PROVE ScanInv'
  <2>1. \A i \in added : i \in added' /\ map'[i] = map[i]
    BY <1>0, <1>9 DEF LoadMark, NoteAdded
  <2>2. \A u \in Threads \ {t} : SameLocals(u)
    BY <1>0, <1>9 DEF LoadMark, SameLocals, TypeOK, LocalsTyped
  <2>3. ScanOK(t) /\ pc[t] = "mark" /\ pc'[t] \in {"bump", "raise"} /\ must' = must /\ wanted' = wanted
    BY <1>0, <1>9 DEF LoadMark, ScanInv, TypeOK, LocalsTyped
  <2>4. ScanOK(t)'
    BY <2>1, <2>3 DEF ScanOK, Emptying
  <2> QED BY <1>0, <2>1, <2>2, <2>4, ScanFrame
<1>10. ASSUME NEW t \in Threads, RaiseMark(t) PROVE ScanInv'
  <2>1. \A i \in added : i \in added' /\ map'[i] = map[i]
    BY <1>0, <1>10 DEF RaiseMark, NoteAdded, OneHolder, Holding, AddedBelowMark, TypeOK, LocalsTyped
  <2> QED BY <1>0, <1>10, <2>1 DEF RaiseMark, ScanInv, ScanOK, Ahead, Emptying, TypeOK, LocalsTyped, Slots, Marks
<1>11. ASSUME NEW t \in Threads, RaiseAgain(t) PROVE ScanInv'
  BY <1>0, <1>11 DEF RaiseAgain, MarkStays, ScanInv, ScanOK, Ahead, Emptying, AddedBelowMark, TypeOK, LocalsTyped, Slots, Marks
<1>12. ASSUME NEW t \in Threads, ScanNext(t) PROVE ScanInv'
  BY <1>0, <1>12 DEF ScanNext, Scanning, ScanInv, ScanOK, Ahead, Emptying, AddedBelowMark, TypeOK, LocalsTyped, Slots, Marks
<1>13. ASSUME NEW t \in Threads, ScanEnd(t) PROVE ScanInv'
  BY <1>0, <1>13 DEF ScanEnd, ScanInv, ScanOK, Ahead, Emptying, AddedBelowMark, TypeOK, LocalsTyped, Slots, Marks
<1>14. ASSUME NEW t \in Threads, Visit(t) PROVE ScanInv'
  BY <1>0, <1>14 DEF Visit, Scanning, ScanInv, ScanOK, Ahead, Emptying, AddedBelowMark, TypeOK, LocalsTyped, Slots, Marks
<1>15. ASSUME NEW t \in Threads, Match(t) PROVE ScanInv'
  BY <1>0, <1>15 DEF Match, Scanning, ScanInv, ScanOK, Ahead, Emptying, AddedBelowMark, TypeOK, LocalsTyped, Slots, Marks
<1>16. ASSUME NEW t \in Threads, Take(t) PROVE ScanInv'
  BY <1>0, <1>16 DEF Take, SameKey, ScanInv, ScanOK, Ahead, Emptying, AddedBelowMark, TypeOK, LocalsTyped, Slots, Marks
<1>17. ASSUME NEW t \in Threads, StoreHint(t) PROVE ScanInv'
  BY <1>0, <1>17 DEF StoreHint, ScanInv, ScanOK, Ahead, Emptying, AddedBelowMark, TypeOK, LocalsTyped, Slots, Marks
<1>18. ASSUME NEW t \in Threads, LoadLast(t) PROVE ScanInv'
  <2>1. CASE index[t] + 1 = highWater
    BY <1>0, <1>18, <2>1 DEF LoadLast, ScanInv, ScanOK, Ahead, Emptying, TypeOK, LocalsTyped
  <2>2. CASE index[t] + 1 # highWater
    BY <1>0, <1>18, <2>2 DEF LoadLast, ScanInv, ScanOK, Ahead, Emptying, TypeOK, LocalsTyped
  <2> QED BY <2>1, <2>2
<1>19. ASSUME NEW t \in Threads, LowerMark(t) PROVE ScanInv'
  BY <1>0, <1>19 DEF LowerMark, MarkStays, ScanInv, ScanOK, Ahead, Emptying, AddedBelowMark, TypeOK, LocalsTyped, Slots, Marks
<1>20. ASSUME NEW t \in Threads, LowerFails(t) PROVE ScanInv'
  BY <1>0, <1>20 DEF LowerFails, MarkStays, ScanInv, ScanOK, Ahead, Emptying, AddedBelowMark, TypeOK, LocalsTyped, Slots, Marks
<1>21. ASSUME NEW t \in Threads, FreeLast(t) PROVE ScanInv'
  <2>1. \A i \in added : i \in added' /\ map'[i] = map[i]
    BY <1>0, <1>21 DEF FreeLast, OneHolder, Holding, AddedBelowMark, TypeOK, LocalsTyped
  <2> QED BY <1>0, <1>21, <2>1 DEF FreeLast, ScanInv, ScanOK, Ahead, Emptying, TypeOK, LocalsTyped, Slots, Marks
<1>22. ASSUME NEW t \in Threads, TakeBelow(t) PROVE ScanInv'
  <2>1. \A i \in added : i \in added' /\ map'[i] = map[i]
    BY <1>0, <1>22 DEF TakeBelow, InUse, OneHolder, Holding, AddedBelowMark, TypeOK, LocalsTyped
  <2> QED BY <1>0, <1>22, <2>1 DEF TakeBelow, ScanInv, ScanOK, Ahead, Emptying, TypeOK, LocalsTyped, Slots, Marks
<1>23. ASSUME NEW t \in Threads, Ends(t) PROVE ScanInv'
  BY <1>0, <1>23, EndsQuietly, AddedStays, EndsScan, ScanFrame DEF Quiet
<1> QED
  BY <1>1, <1>2, <1>3, <1>4, <1>5, <1>6, <1>7, <1>8, <1>9, <1>10, <1>11, <1>12, <1>13, <1>14, <1>15,
     <1>16, <1>17, <1>18, <1>19, <1>20, <1>21, <1>22, <1>23
  DEF Next, Call, Step, Scans, Ends

LEMMA Invariant == Spec => []IInv
<1>1. IInv /\ [Next]_vars => IInv'
  BY StepType, StepHolder, StepAdded, StepWorking, StepFresh, StepScan DEF IInv
<1> QED BY InitIInv, <1>1, PTL DEF Spec

-----------------------------------------------------------------------------
\* The state of the map and of every call is always well formed: no index, mark
\* or hint leaves the preallocated slots.
THEOREM TypeCorrect == Spec => []TypeOK
BY Invariant, PTL DEF IInv

\* A reserved slot has exactly one thread that fills or empties it (AddAt and
\* RemoveAt), however their compare-and-swaps interleave.
THEOREM SlotsHeldOnce == Spec => []OneHolder
BY Invariant, PTL DEF IInv

\* Lowering the high water mark in RemoveAt never hides an element that AddAt
\* has added.
THEOREM MarkAboveAdded == Spec => []AddedBelowMark
BY Invariant, PTL DEF IInv

\* Find, RemoveIf and ForEach miss no element that is in the map throughout.
THEOREM ScansComplete == Spec => []ScansMeetWhatStays
<1>1. IInv => ScansMeetWhatStays
  BY DEF IInv, ScanInv, ScanOK, ScansMeetWhatStays
<1> QED BY Invariant, <1>1, PTL
=============================================================================
