---------------------------- MODULE CacheSetProofs ----------------------------
(***************************************************************************)
(* Proofs about CacheSet, for any number of threads: types, the copies a   *)
(* line can have, and, until two accesses overlap, that no line is in a    *)
(* set twice and that the set is a FIFO.                                   *)
(***************************************************************************)
EXTENDS CacheSet, FiniteSetTheorems, TLAPS

LEMMA PredInWays == \A w \in Ways : Pred(w) \in Ways
BY CacheSetAssumption DEF Ways, Pred, LastWay

LEMMA InitType == Init => TypeOK
<1> SUFFICES ASSUME Init PROVE TypeOK
  OBVIOUS
<1>1. LastWay \in Ways
  BY CacheSetAssumption DEF Ways, LastWay
<1>2. hit \in [Threads -> BOOLEAN] /\ overlapped \in BOOLEAN
  BY Zenon DEF Init
<1> QED BY <1>1, <1>2 DEF Init, TypeOK

(* Every variable keeps its type; way indices stay below the associativity,   *)
(* as cache.H asserts after Find and Replace, however the threads interleave. *)
THEOREM TypeCorrect == Spec => []TypeOK
<1>1. Init => TypeOK
  BY InitType
<1>2. TypeOK /\ [Next]_vars => TypeOK'
  <2> SUFFICES ASSUME TypeOK, [Next]_vars PROVE TypeOK'
    OBVIOUS
  <2> USE DEF TypeOK, Goto, history
  <2>1. CASE UNCHANGED vars
    BY <2>1 DEF vars
  <2>2. ASSUME NEW t \in Threads, NEW x \in Lines, Lookup(t, x) PROVE TypeOK'
    BY <2>2, CacheSetAssumption DEF Lookup, Ways, LastWay
  <2>3. ASSUME NEW t \in Threads, FindHit(t) PROVE TypeOK'
    BY <2>3 DEF FindHit
  <2>4. ASSUME NEW t \in Threads, FindNext(t) PROVE TypeOK'
    BY <2>4, CacheSetAssumption DEF FindNext, Ways
  <2>5. ASSUME NEW t \in Threads, FindMiss(t) PROVE TypeOK'
    BY <2>5 DEF FindMiss
  <2>6. ASSUME NEW t \in Threads, ReplaceIndex(t) PROVE TypeOK'
    BY <2>6 DEF ReplaceIndex
  <2>7. ASSUME NEW t \in Threads, ReplaceTag(t) PROVE TypeOK'
    BY <2>7 DEF ReplaceTag
  <2>8. ASSUME NEW t \in Threads, ReplaceNext(t) PROVE TypeOK'
    BY <2>8, PredInWays DEF ReplaceNext
  <2> QED BY <2>1, <2>2, <2>3, <2>4, <2>5, <2>6, <2>7, <2>8 DEF Next
<1> QED BY <1>1, <1>2, PTL DEF Spec
-----------------------------------------------------------------------------
(***************************************************************************)
(* Copies of a line. Charge each copy to the thread that brought it in: no *)
(* thread brings in a line while a copy charged to it is in the set, since *)
(* the copy does not move and the scan would meet it.                      *)
(***************************************************************************)
Charged(owner) ==
    /\ \A v, w \in Ways : v # w /\ tags[v] = tags[w] /\ tags[v] \in Lines => owner[v] # owner[w]
    /\ \A t \in Threads, w \in Ways :
           pc[t] = "find" /\ w > way[t] /\ tags[w] = tag[t] => owner[w] # t
    /\ \A t \in Threads, w \in Ways :
           pc[t] \in {"replace", "fill"} /\ tags[w] = tag[t] => owner[w] # t
ChargedInv == Threads = {} \/ \E owner \in [Ways -> Threads] : Charged(owner)

LEMMA InitCharged == Init => ChargedInv
<1> SUFFICES ASSUME Init, NEW t \in Threads PROVE ChargedInv
  BY DEF ChargedInv
<1> DEFINE owner == [w \in Ways |-> t]
<1>1. owner \in [Ways -> Threads] /\ Charged(owner)
  BY CacheSetAssumption DEF Init, Charged
<1> QED BY <1>1 DEF ChargedInv

LEMMA StepCharged == TypeOK /\ ChargedInv /\ [Next]_vars => ChargedInv'
<1> SUFFICES ASSUME TypeOK, ChargedInv, [Next]_vars, Threads # {} PROVE ChargedInv'
  BY DEF ChargedInv
<1>1. PICK owner \in [Ways -> Threads] : Charged(owner)
  BY DEF ChargedInv
<1>2. SUFFICES \E o \in [Ways -> Threads] : Charged(o)'
  BY DEF ChargedInv, Charged
<1> USE DEF TypeOK, Goto
<1>3. CASE UNCHANGED vars
  BY <1>1, <1>3 DEF vars, Charged
<1>4. ASSUME NEW t \in Threads, NEW x \in Lines, Lookup(t, x) PROVE Charged(owner)'
  <2>1. /\ pc'[t] = "find" /\ way'[t] = LastWay /\ UNCHANGED tags
        /\ \A u \in Threads : u # t => pc'[u] = pc[u] /\ way'[u] = way[u] /\ tag'[u] = tag[u]
    BY <1>4 DEF Lookup
  <2>2. \A w \in Ways : ~(w > LastWay)
    BY CacheSetAssumption DEF Ways, LastWay
  <2> QED BY <1>1, <2>1, <2>2 DEF Charged
<1>5. ASSUME NEW t \in Threads, FindHit(t) PROVE Charged(owner)'
  BY <1>1, <1>5 DEF FindHit, Charged
<1>6. ASSUME NEW t \in Threads, FindNext(t) PROVE Charged(owner)'
  BY <1>1, <1>6 DEF FindNext, Charged, Ways
<1>7. ASSUME NEW t \in Threads, FindMiss(t) PROVE Charged(owner)'
  BY <1>1, <1>7 DEF FindMiss, Charged, Ways
<1>8. ASSUME NEW t \in Threads, ReplaceIndex(t) PROVE Charged(owner)'
  BY <1>1, <1>8 DEF ReplaceIndex, Charged
<1>9. ASSUME NEW t \in Threads, ReplaceTag(t)
      PROVE  Charged([owner EXCEPT ![way[t]] = t])'
  <2> DEFINE o == [owner EXCEPT ![way[t]] = t]
  <2>1. /\ way[t] \in Ways /\ pc[t] = "fill" /\ pc'[t] = "advance"
        /\ UNCHANGED <<tag, way>>
        /\ \A u \in Threads : u # t => pc'[u] = pc[u]
        /\ \A w \in Ways : IF w = way[t] THEN tags'[w] = tag[t] /\ o[w] = t
                                         ELSE tags'[w] = tags[w] /\ o[w] = owner[w]
    BY <1>1, <1>9 DEF ReplaceTag
  <2> HIDE DEF o
  <2> QED BY <1>1, <2>1 DEF Charged
<1>10. ASSUME NEW t \in Threads, ReplaceNext(t) PROVE Charged(owner)'
  BY <1>1, <1>10 DEF ReplaceNext, Charged
<1> QED BY <1>1, <1>3, <1>4, <1>5, <1>6, <1>7, <1>8, <1>9, <1>10 DEF Next

LEMMA ChargedBounds ==
    ASSUME IsFiniteSet(Threads), Threads # {}, ChargedInv PROVE CopiesBounded
<1> SUFFICES ASSUME NEW x \in Lines
             PROVE  Cardinality({w \in Ways : tags[w] = x}) <= Cardinality(Threads)
  BY DEF CopiesBounded
<1> DEFINE S == {w \in Ways : tags[w] = x}
<1>1. PICK owner \in [Ways -> Threads] : Charged(owner)
  BY DEF ChargedInv
<1> DEFINE f == [w \in S |-> owner[w]]
<1>2. f \in [S -> Threads] /\ \A v, w \in S : f[v] = f[w] => v = w
  BY <1>1 DEF Charged
<1>3. f \in Injection(S, Threads)
  BY <1>2 DEF Injection, IsInjective
<1> QED BY <1>3, FS_Injection

(* A line is in at most as many ways of a set as there are threads.           *)
THEOREM CopiesPerThread ==
    ASSUME IsFiniteSet(Threads), Threads # {} PROVE Spec => []CopiesBounded
<1>1. Init => ChargedInv
  BY InitCharged
<1>2. TypeOK /\ ChargedInv /\ [Next]_vars => ChargedInv'
  BY StepCharged
<1>3. ChargedInv => CopiesBounded
  BY ChargedBounds
<1> QED BY <1>1, <1>2, <1>3, TypeCorrect, PTL DEF Spec
-----------------------------------------------------------------------------
\* The one thread whose access may be under way, what the scan of Find has
\* established, and where Replace writes.
Alone ==
    /\ \A t \in Threads : t # last => pc[t] = "idle"
    /\ \A v, w \in Ways : tags[v] = tags[w] /\ tags[v] # NoLine => v = w
    /\ pc[last] = "find" => \A w \in Ways : w > way[last] => tags[w] # tag[last]
    /\ pc[last] \in {"replace", "fill"} => \A w \in Ways : tags[w] # tag[last]
    /\ pc[last] \in {"fill", "advance"} => way[last] = next
Inv == TypeOK /\ (~overlapped => Alone)

LEMMA InitInv == Init => Inv
<1> SUFFICES ASSUME Init PROVE Inv
  OBVIOUS
<1>1. TypeOK
  BY InitType
<1>2. pc[last] = "idle"
  BY DEF Init
<1> QED BY <1>1, <1>2 DEF Inv, Alone, Init

\* While no accesses have overlapped, the thread that takes a step is the last one.
LEMMA StepInv == ASSUME TypeOK', Inv, [Next]_vars PROVE Inv'
<1> SUFFICES ASSUME ~overlapped' PROVE Alone'
  BY DEF Inv
<1>1. TypeOK /\ ~overlapped /\ Alone
  BY DEF Inv, TypeOK, Next, vars, history, Lookup, FindHit, FindNext, FindMiss, ReplaceIndex,
         ReplaceTag, ReplaceNext
<1> USE DEF Goto, TypeOK, history
<1>2. CASE UNCHANGED vars
  BY <1>1, <1>2 DEF vars, Alone
<1>3. ASSUME NEW t \in Threads, NEW x \in Lines, Lookup(t, x) PROVE Alone'
  <2>1. \A u \in Threads : pc[u] = "idle"
    BY <1>3 DEF Lookup
  <2>2. \A w \in Ways : ~(w > LastWay)
    BY CacheSetAssumption DEF Ways, LastWay
  <2> QED BY <1>1, <1>3, <2>1, <2>2 DEF Lookup, Alone
<1>4. ASSUME NEW t \in Threads, FindHit(t) PROVE Alone'
  BY <1>1, <1>4 DEF FindHit, Alone
<1>5. ASSUME NEW t \in Threads, FindNext(t) PROVE Alone'
  BY <1>1, <1>5 DEF FindNext, Alone, Ways
<1>6. ASSUME NEW t \in Threads, FindMiss(t) PROVE Alone'
  BY <1>1, <1>6 DEF FindMiss, Alone, Ways
<1>7. ASSUME NEW t \in Threads, ReplaceIndex(t) PROVE Alone'
  BY <1>1, <1>7 DEF ReplaceIndex, Alone
<1>8. ASSUME NEW t \in Threads, ReplaceTag(t) PROVE Alone'
  BY <1>1, <1>8 DEF ReplaceTag, Alone
<1>9. ASSUME NEW t \in Threads, ReplaceNext(t) PROVE Alone'
  BY <1>1, <1>9 DEF ReplaceNext, Alone
<1> QED BY <1>2, <1>3, <1>4, <1>5, <1>6, <1>7, <1>8, <1>9 DEF Next

(* Until two accesses overlap, no line is in two ways of a set.               *)
THEOREM NoLineTwice == Spec => []NoDuplicates
<1>1. Inv => NoDuplicates
  BY DEF Inv, Alone, NoDuplicates
<1>2. Init => Inv
  BY InitInv
<1>3. Inv /\ TypeOK' /\ [Next]_vars => Inv'
  BY StepInv
<1> QED BY <1>1, <1>2, <1>3, TypeCorrect, PTL DEF Spec
-----------------------------------------------------------------------------
\* The slots of the queue and the ways correspond one to one.
LEMMA SlotFacts ==
    ASSUME TypeOK
    PROVE  /\ Oldest \in Ways
           /\ \A i \in 1..Assoc : Slot(i) \in Ways
           /\ \A w \in Ways : \E i \in 1..Assoc : Slot(i) = w
<1>1. Oldest \in Ways
  BY PredInWays DEF TypeOK, Oldest
<1>2. \A i \in 1..Assoc : Slot(i) \in Ways
  BY <1>1, CacheSetAssumption DEF Slot, Ways
<1>3. ASSUME NEW w \in Ways PROVE \E i \in 1..Assoc : Slot(i) = w
  <2>1. CASE Oldest >= w
    <3>1. Oldest - w + 1 \in 1..Assoc /\ Slot(Oldest - w + 1) = w
      BY <1>1, <2>1, CacheSetAssumption DEF Slot, Ways
    <3> QED BY <3>1
  <2>2. CASE ~(Oldest >= w)
    <3>1. Oldest - w + 1 + Assoc \in 1..Assoc /\ Slot(Oldest - w + 1 + Assoc) = w
      BY <1>1, <2>2, CacheSetAssumption DEF Slot, Ways
    <3> QED BY <3>1
  <2> QED BY <2>1, <2>2
<1> QED BY <1>1, <1>2, <1>3

LEMMA HoldsTag ==
    ASSUME TypeOK, NEW x
    PROVE  Fifo!Holds(x) <=> \E w \in Ways : tags[w] = x
BY SlotFacts DEF Fifo!Holds, Fifo!Slots

LEMMA InitRefines == Init => Fifo!Init
<1> SUFFICES ASSUME Init PROVE Fifo!Init
  OBVIOUS
<1>1. TypeOK
  BY InitInv DEF Inv
<1>2. \A i \in 1..Assoc : tags[Slot(i)] = NoLine
  BY <1>1, SlotFacts DEF Init
<1>3. Phase = "idle"
  BY <1>1 DEF Init, Phase
<1> QED BY <1>1, <1>2, <1>3 DEF Fifo!Init, Fifo!Slots, TypeOK

LEMMA StepRefines ==
    ASSUME Inv, [Next]_vars
    PROVE  [overlapped' \/ Fifo!Next]_(Fifo!fifoVars)
<1> SUFFICES ASSUME ~overlapped' PROVE [Fifo!Next]_(Fifo!fifoVars)
  OBVIOUS
<1>1. TypeOK /\ ~overlapped /\ Alone
  BY DEF Inv, TypeOK, Next, vars, history, Lookup, FindHit, FindNext, FindMiss, ReplaceIndex,
         ReplaceTag, ReplaceNext
<1> DEFINE Q == [i \in 1..Assoc |-> tags[Slot(i)]]
<1>2. ASSUME UNCHANGED <<tags, next>>, pc[last] # "advance", pc'[last] # "advance",
             last' = last
      PROVE  Q' = Q
  BY <1>2 DEF Slot, Oldest
<1> USE DEF Goto, Phase, TypeOK, history
<1>3. CASE UNCHANGED vars
  BY <1>3 DEF vars, Fifo!fifoVars, Slot, Oldest
<1>4. ASSUME NEW t \in Threads, NEW x \in Lines, Lookup(t, x) PROVE Fifo!Ask
  <2>0. pc[last] = "idle" /\ pc'[last'] = "find" /\ last' = t
    BY <1>1, <1>4 DEF Lookup
  <2>1. Q' = Q
    BY <1>4, <2>0 DEF Lookup, Slot, Oldest
  <2> QED BY <1>1, <1>4, <2>0, <2>1 DEF Lookup, Fifo!Ask
<1>5. CASE FindHit(last)
  <2>1. Q' = Q
    BY <1>1, <1>2, <1>5 DEF FindHit
  <2>2. Fifo!Holds(tag[last])
    BY <1>1, <1>5, HoldsTag DEF FindHit
  <2> QED BY <1>1, <1>5, <2>1, <2>2 DEF FindHit, Fifo!Hit, Fifo!Next
<1>6. CASE FindNext(last)
  <2>1. Q' = Q
    BY <1>1, <1>2, <1>6 DEF FindNext
  <2> QED BY <1>1, <1>6, <2>1 DEF FindNext, Fifo!fifoVars
<1>7. CASE FindMiss(last)
  <2>1. Q' = Q
    BY <1>1, <1>2, <1>7 DEF FindMiss
  <2>2. \A w \in Ways : tags[w] # tag[last]
    BY <1>1, <1>7 DEF FindMiss, Alone, Ways
  <2>3. ~Fifo!Holds(tag[last])
    BY <1>1, <2>2, HoldsTag
  <2> QED BY <1>1, <1>7, <2>1, <2>3 DEF FindMiss, Fifo!Miss, Fifo!Next
<1>8. CASE ReplaceIndex(last)
  <2>1. Q' = Q
    BY <1>1, <1>2, <1>8 DEF ReplaceIndex
  <2> QED BY <1>1, <1>8, <2>1 DEF ReplaceIndex, Fifo!fifoVars
\* The oldest slot takes the new line; the others move up by one.
<1>9. CASE ReplaceTag(last)
  <2>1. /\ tags' = [tags EXCEPT ![next] = tag[last]]
        /\ pc[last] = "fill" /\ pc'[last] = "advance" /\ next' = next
        /\ next \in Ways /\ Oldest = next /\ Oldest' = Pred(next)
    BY <1>1, <1>9 DEF ReplaceTag, Alone, Oldest
  <2>2. \A i \in 1..Assoc : IF i = Assoc THEN Slot(i)' = next
                                         ELSE Slot(i)' = Slot(i + 1) /\ Slot(i + 1) # next
                                              /\ Slot(i + 1) \in Ways
    BY <2>1, CacheSetAssumption DEF Slot, Pred, LastWay, Ways
  <2>3. \A i \in 1..Assoc : tags'[Slot(i)'] = IF i = Assoc THEN tag[last] ELSE tags[Slot(i + 1)]
    BY <1>1, <2>1, <2>2
  <2>4. Q' = [i \in 1..Assoc |-> IF i = Assoc THEN tag[last] ELSE Q[i + 1]]
    BY <2>3, CacheSetAssumption
  <2> QED BY <1>1, <1>9, <2>1, <2>4 DEF ReplaceTag, Fifo!Fill, Fifo!Pushed, Fifo!Slots, Fifo!Next
<1>10. CASE ReplaceNext(last)
  <2>1. Oldest' = Oldest /\ UNCHANGED tags
    BY <1>1, <1>10 DEF ReplaceNext, Alone, Oldest
  <2>2. Q' = Q
    BY <2>1 DEF Slot
  <2> QED BY <1>1, <1>10, <2>2 DEF ReplaceNext, Fifo!fifoVars
<1>11. \A t \in Threads : pc[t] # "idle" => t = last
  BY <1>1 DEF Alone
<1> QED
  BY <1>3, <1>4, <1>5, <1>6, <1>7, <1>8, <1>9, <1>10, <1>11
  DEF Next, Fifo!Next, FindHit, FindNext, FindMiss, ReplaceIndex, ReplaceTag, ReplaceNext

(* Until two accesses overlap, the round robin set is a FIFO of the lines of  *)
(* the last misses, whatever its associativity.                               *)
THEOREM RoundRobinIsFifo == Spec => IsFifo
<1>1. Init => Fifo!Init
  BY InitRefines
<1>2. Init => Inv
  BY InitInv
<1>3. Inv /\ TypeOK' /\ [Next]_vars => Inv'
  BY StepInv
<1>4. Inv /\ [Next]_vars => [overlapped' \/ Fifo!Next]_(Fifo!fifoVars)
  BY StepRefines
<1> QED BY <1>1, <1>2, <1>3, <1>4, TypeCorrect, PTL DEF Spec, IsFifo
=============================================================================
