--------------------------- MODULE BufferPoolProofs ---------------------------
(***************************************************************************)
(* Proofs about BufferPool, for any finite numbers of application threads, *)
(* pool threads and buffers, and without a bound on the buffers filled.    *)
(***************************************************************************)
EXTENDS BufferPool, SequenceTheorems, FiniteSetTheorems, TLAPS

Elems(s) == {s[i] : i \in 1..Len(s)}
Once(s) == \A i, j \in 1..Len(s) : s[i] = s[j] => i = j
Own(a) == {a} \X (1..NumBuffers)

\* What is known of a thread from where it is.
AppStages == {"start", "run", "notify", "await", "full", "push", "signal", "allocate",
              "get", "pop", "fini", "reclaim", "dead"}
PoolStages == {"start", "wait", "take", "process", "return", "release", "exited"}
Busy(p) == pc[p] \in {"process", "return"}
Handed(a) == pc[a] \in {"signal", "allocate", "get", "pop"}
Let(a) == pc[a] \in {"pop", "reclaim"}
Shape ==
    /\ \A a \in AppThreads :
           /\ pc[a] \in AppStages
           /\ rep[a] <=> pc[a] \notin {"start", "dead"}
           /\ pc[a] # "dead" => current[a] \in Own(a)
           /\ pc[a] \in {"start", "dead"} => numAllocated[a] = 0
           /\ pc[a] = "reclaim" => numAllocated[a] > 0
    /\ \A p \in PoolThreads :
           /\ pc[p] \in PoolStages
           /\ hand[p] \in Buffers <=> (Busy(p) \/ pc[p] = "release")

\* A buffer is at one place.
Apart ==
    /\ Once(fullList)
    /\ \A a \in AppThreads :
           /\ Elems(freeList[a]) \subseteq Own(a) \ Elems(fullList)
           /\ Once(freeList[a])
           /\ Filling(a) => current[a] \notin Elems(freeList[a]) \cup Elems(fullList)
           /\ \A p \in PoolThreads : Busy(p) =>
                  /\ hand[p] \notin Elems(freeList[a])
                  /\ Filling(a) => hand[p] # current[a]
    /\ \A p \in PoolThreads : Busy(p) =>
           /\ hand[p] \notin Elems(fullList)
           /\ \A q \in PoolThreads : Busy(q) /\ hand[q] = hand[p] => q = p

\* The buffers of a thread that are not with it are as many as it allocated, and
\* one more when it has given away the one it filled.
InHands == {hand[p] : p \in {q \in PoolThreads : Busy(q)}}
Out(a) == Elems(freeList[a]) \cup (Own(a) \cap (Elems(fullList) \cup InHands))
Given(a) == IF Handed(a) THEN 1 ELSE 0
Balance == \A a \in AppThreads : Cardinality(Out(a)) = numAllocated[a] + Given(a)

\* Before a thread has allocated buffers, it has the one of Pin.
Virgin == \A a \in AppThreads :
    numAllocated[a] = 0 /\ pc[a] \notin {"fini", "reclaim", "dead"} =>
        Out(a) \cup {current[a]} = {<<a, 1>>}

\* The length of a list is the value of its semaphore, those who were let through
\* and have not yet taken, and those who have put and not yet released.
Takers == {p \in PoolThreads : pc[p] = "take"}
Signalling == {a \in AppThreads : pc[a] = "signal"}
Releasing(a) == {p \in PoolThreads : pc[p] = "release" /\ Owner(hand[p]) = a}
Taking(a) == IF Let(a) THEN 1 ELSE 0
FullCounted == Len(fullList) = fullSem + Cardinality(Takers) + Cardinality(Signalling)
FreeCounted == \A a \in AppThreads :
    Len(freeList[a]) = freeSem[a] + Taking(a) + Cardinality(Releasing(a))

\* Where the buffers with references to process are.
Recorded == \A b \in unprocessed :
    \/ \E a \in AppThreads : pc[a] \in {"full", "push"} /\ b = current[a]
    \/ b \in Elems(fullList)
    \/ \E p \in PoolThreads : pc[p] = "process" /\ b = hand[p]

IInv == TypeOK /\ Shape /\ Apart /\ Balance /\ Virgin /\ FullCounted /\ FreeCounted /\ Recorded
-----------------------------------------------------------------------------
LEMMA ElemsFacts ==
    ASSUME NEW S, NEW s \in Seq(S)
    PROVE  /\ Len(s) \in Nat /\ DOMAIN s = 1..Len(s)
           /\ Elems(s) \subseteq S
           /\ s # << >> <=> Len(s) > 0
           /\ Elems(s) = {} <=> Len(s) = 0
<1>1. Len(s) \in Nat /\ DOMAIN s = 1..Len(s) /\ \A i \in 1..Len(s) : s[i] \in S
  BY LenProperties, ElementOfSeq
<1>2. s # << >> <=> Len(s) > 0
  BY <1>1, EmptySeq
<1>3. Len(s) > 0 => s[1] \in Elems(s)
  BY <1>1 DEF Elems
<1> QED BY <1>1, <1>2, <1>3 DEF Elems

LEMMA AppendFacts ==
    ASSUME NEW S, NEW s \in Seq(S), NEW x \in S
    PROVE  /\ Append(s, x) \in Seq(S)
           /\ Len(Append(s, x)) = Len(s) + 1
           /\ Elems(Append(s, x)) = Elems(s) \cup {x}
           /\ Once(s) /\ x \notin Elems(s) => Once(Append(s, x))
<1> DEFINE r == Append(s, x)
<1>1. /\ r \in Seq(S) /\ Len(r) = Len(s) + 1 /\ Len(s) \in Nat
      /\ \A i \in 1..Len(s) : r[i] = s[i]
      /\ r[Len(s) + 1] = x
  BY AppendProperties, LenProperties
<1> HIDE DEF r
<1>2. Elems(r) = Elems(s) \cup {x}
  <2>1. ASSUME NEW y \in Elems(r) PROVE y \in Elems(s) \cup {x}
    <3>1. PICK i \in 1..Len(r) : y = r[i]
      BY DEF Elems
    <3>2. CASE i = Len(s) + 1
      BY <3>1, <3>2, <1>1
    <3>3. CASE i # Len(s) + 1
      <4>1. i \in 1..Len(s)
        BY <3>3, <1>1
      <4> QED BY <4>1, <3>1, <1>1 DEF Elems
    <3> QED BY <3>2, <3>3
  <2>2. ASSUME NEW y \in Elems(s) PROVE y \in Elems(r)
    <3>1. PICK i \in 1..Len(s) : y = s[i]
      BY DEF Elems
    <3>2. i \in 1..Len(r) /\ r[i] = y
      BY <3>1, <1>1
    <3> QED BY <3>2 DEF Elems
  <2>3. x \in Elems(r)
    <3>1. Len(s) + 1 \in 1..Len(r)
      BY <1>1
    <3> QED BY <3>1, <1>1 DEF Elems
  <2> QED BY <2>1, <2>2, <2>3
<1>3. Once(s) /\ x \notin Elems(s) => Once(r)
  BY <1>1 DEF Once, Elems
<1> QED BY <1>1, <1>2, <1>3 DEF r

LEMMA TailFacts ==
    ASSUME NEW S, NEW s \in Seq(S), s # << >>, Once(s)
    PROVE  /\ Tail(s) \in Seq(S)
           /\ Len(Tail(s)) = Len(s) - 1
           /\ Head(s) \in S /\ Head(s) \in Elems(s)
           /\ Elems(Tail(s)) = Elems(s) \ {Head(s)}
           /\ Once(Tail(s))
<1> DEFINE r == Tail(s)
<1>1. /\ r \in Seq(S) /\ Len(r) = Len(s) - 1 /\ Len(s) \in Nat /\ Len(s) > 0
      /\ \A i \in 1..Len(r) : r[i] = s[i + 1]
      /\ Head(s) \in S
  BY HeadTailProperties, LenProperties, ElemsFacts
<1>2. Head(s) = s[1]
  OBVIOUS
<1> HIDE DEF r
<1>3. Head(s) \in Elems(s)
  BY <1>1, <1>2 DEF Elems
<1>4. ASSUME NEW y \in Elems(r) PROVE y \in Elems(s) \ {Head(s)}
  <2>1. PICK i \in 1..Len(r) : y = r[i]
    BY DEF Elems
  <2>2. i + 1 \in 1..Len(s) /\ y = s[i + 1] /\ 1 \in 1..Len(s) /\ i + 1 # 1
    BY <2>1, <1>1
  <2> QED BY <2>2, <1>2 DEF Elems, Once
<1>5. ASSUME NEW y \in Elems(s), y # Head(s) PROVE y \in Elems(r)
  <2>1. PICK i \in 1..Len(s) : y = s[i]
    BY DEF Elems
  <2>2. i # 1
    BY <2>1, <1>2, <1>5
  <2>3. i - 1 \in 1..Len(r) /\ r[i - 1] = s[i - 1 + 1] /\ i - 1 + 1 = i
    BY <2>2, <1>1
  <2> QED BY <2>1, <2>3 DEF Elems
<1>6. Once(r)
  BY <1>1 DEF Once
<1> QED BY <1>1, <1>3, <1>4, <1>5, <1>6 DEF r

LEMMA ConcatFacts ==
    ASSUME NEW S, NEW s \in Seq(S), NEW r \in Seq(S)
    PROVE  /\ s \o r \in Seq(S)
           /\ Len(s \o r) = Len(s) + Len(r)
           /\ Elems(s \o r) = Elems(s) \cup Elems(r)
           /\ Once(s) /\ Once(r) /\ Elems(s) \cap Elems(r) = {} => Once(s \o r)
<1> DEFINE c == s \o r
<1>1. /\ c \in Seq(S) /\ Len(c) = Len(s) + Len(r) /\ Len(s) \in Nat /\ Len(r) \in Nat
      /\ \A i \in 1..(Len(s) + Len(r)) : c[i] = IF i <= Len(s) THEN s[i] ELSE r[i - Len(s)]
  BY ConcatProperties, LenProperties
<1> HIDE DEF c
<1>2. ASSUME NEW y \in Elems(c) PROVE y \in Elems(s) \cup Elems(r)
  <2>1. PICK i \in 1..Len(c) : y = c[i]
    BY DEF Elems
  <2>2. CASE i <= Len(s)
    BY <2>1, <2>2, <1>1 DEF Elems
  <2>3. CASE ~(i <= Len(s))
    <3>1. i - Len(s) \in 1..Len(r) /\ y = r[i - Len(s)]
      BY <2>1, <2>3, <1>1
    <3> QED BY <3>1 DEF Elems
  <2> QED BY <2>2, <2>3
<1>3. ASSUME NEW y \in Elems(s) PROVE y \in Elems(c)
  <2>1. PICK i \in 1..Len(s) : y = s[i]
    BY DEF Elems
  <2>2. i \in 1..Len(c) /\ c[i] = y
    BY <2>1, <1>1
  <2> QED BY <2>2 DEF Elems
<1>4. ASSUME NEW y \in Elems(r) PROVE y \in Elems(c)
  <2>1. PICK i \in 1..Len(r) : y = r[i]
    BY DEF Elems
  <2>2. i + Len(s) \in 1..Len(c) /\ ~(i + Len(s) <= Len(s)) /\ i + Len(s) - Len(s) = i
    BY <2>1, <1>1
  <2>3. c[i + Len(s)] = y
    BY <2>1, <2>2, <1>1
  <2> QED BY <2>2, <2>3 DEF Elems
<1>5. ASSUME Once(s), Once(r), Elems(s) \cap Elems(r) = {} PROVE Once(c)
  <2> SUFFICES ASSUME NEW i \in 1..Len(c), NEW j \in 1..Len(c), c[i] = c[j] PROVE i = j
    BY DEF Once
  <2>1. ASSUME NEW k \in 1..Len(c)
        PROVE  \/ k \in 1..Len(s) /\ c[k] = s[k] /\ c[k] \in Elems(s)
               \/ k - Len(s) \in 1..Len(r) /\ c[k] = r[k - Len(s)] /\ c[k] \in Elems(r)
    <3>1. CASE k <= Len(s)
      BY <3>1, <1>1 DEF Elems
    <3>2. CASE ~(k <= Len(s))
      <4>1. k - Len(s) \in 1..Len(r) /\ c[k] = r[k - Len(s)]
        BY <3>2, <1>1
      <4> QED BY <4>1 DEF Elems
    <3> QED BY <3>1, <3>2
  <2>2. CASE i \in 1..Len(s) /\ c[i] = s[i] /\ c[i] \in Elems(s)
    BY <2>1, <2>2, <1>5 DEF Once
  <2>3. CASE i - Len(s) \in 1..Len(r) /\ c[i] = r[i - Len(s)] /\ c[i] \in Elems(r)
    <3>1. j - Len(s) \in 1..Len(r) /\ c[j] = r[j - Len(s)]
      BY <2>1, <2>3, <1>5
    <3>2. i - Len(s) = j - Len(s)
      BY <3>1, <2>3, <1>5 DEF Once
    <3> QED BY <3>2, <1>1
  <2> QED BY <2>1, <2>2, <2>3
<1> QED BY <1>1, <1>2, <1>3, <1>4, <1>5 DEF c

LEMMA OwnFacts ==
    /\ NoBuffer \notin Buffers
    /\ \A a \in AppThreads : IsFiniteSet(Own(a)) /\ Own(a) \subseteq Buffers
    /\ \A a \in AppThreads : \A b \in Own(a) : Owner(b) = a
    /\ \A b \in Buffers : Owner(b) \in AppThreads /\ b \in Own(Owner(b))
<1>1. ASSUME NEW a \in AppThreads PROVE IsFiniteSet(Own(a))
  <2>1. IsFiniteSet({a}) /\ IsFiniteSet(1..NumBuffers)
    <3>1. 1 \in Int /\ NumBuffers \in Int
      BY PoolAssumption
    <3> QED BY <3>1, FS_Singleton, FS_Interval
  <2> QED BY <2>1, FS_Product DEF Own
<1>2. \A a \in AppThreads : Own(a) \subseteq Buffers /\ \A b \in Own(a) : Owner(b) = a
  BY DEF Own, Buffers, Owner
<1>3. \A b \in Buffers : Owner(b) \in AppThreads /\ b \in Own(Owner(b))
  BY DEF Own, Buffers, Owner
<1>4. NoBuffer \notin Buffers
  BY DEF NoBuffer, Buffers
<1> QED BY <1>1, <1>2, <1>3, <1>4

LEMMA PoolFinite == \A P \in SUBSET PoolThreads : IsFiniteSet(P) /\ Cardinality(P) \in Nat
BY FS_Subset, FS_CardinalityType, FiniteAssumption

LEMMA AppFinite == \A A \in SUBSET AppThreads : IsFiniteSet(A) /\ Cardinality(A) \in Nat
BY FS_Subset, FS_CardinalityType, FiniteAssumption

LEMMA OwnFinite == \A a \in AppThreads : \A B \in SUBSET Own(a) : IsFiniteSet(B) /\ Cardinality(B) \in Nat
BY FS_Subset, FS_CardinalityType, OwnFacts

\* A thread gets in line, or leaves it.
LEMMA OneMore ==
    ASSUME NEW S, NEW T, NEW x, IsFiniteSet(S), x \notin S, T = S \cup {x}
    PROVE  Cardinality(T) = Cardinality(S) + 1
BY FS_AddElement

LEMMA OneLess ==
    ASSUME NEW S, NEW T, NEW x, IsFiniteSet(S), x \in S, T = S \ {x}
    PROVE  Cardinality(T) = Cardinality(S) - 1 /\ Cardinality(S) > 0
<1>1. Cardinality(T) = Cardinality(S) - 1 /\ IsFiniteSet(T)
  BY FS_RemoveElement
<1>2. Cardinality(S) \in Nat /\ Cardinality(T) \in Nat
  BY <1>1, FS_CardinalityType
<1> QED BY <1>1, <1>2

\* The threads have their buffers where they had them.
HomeStages == {"start", "run", "notify", "await", "full", "push", "fini", "reclaim"}
Stay ==
    /\ UNCHANGED <<fullList, freeList>>
    /\ \A p \in PoolThreads : /\ pc'[p] \in {"process", "return"} <=> Busy(p)
                              /\ Busy(p) => hand'[p] = hand[p]
    /\ \A a \in AppThreads : pc'[a] \in HomeStages => Filling(a) /\ current'[a] = current[a]

LEMMA StayApart ==
    ASSUME IInv, Stay
    PROVE  Apart' /\ \A a \in AppThreads : Out(a)' = Out(a)
<1>1. \A p \in PoolThreads : /\ Busy(p)' <=> Busy(p)
                             /\ Busy(p) => hand'[p] = hand[p]
  BY DEF Stay, Busy
<1>2. \A a \in AppThreads : /\ freeList'[a] = freeList[a]
                            /\ Filling(a)' => Filling(a) /\ current'[a] = current[a]
  BY DEF Stay, Filling, HomeStages
<1>3. fullList' = fullList
  BY DEF Stay
<1>4. Apart
  BY DEF IInv
<1>5. InHands' = InHands
  BY <1>1 DEF InHands
<1>6. Apart'
  BY <1>1, <1>2, <1>3, <1>4 DEF Apart
<1> QED BY <1>2, <1>3, <1>5, <1>6 DEF Out

\* Besides, nobody waits, is let through, puts or releases.
Quiet ==
    /\ Stay
    /\ UNCHANGED <<fullSem, freeSem, numAllocated>>
    /\ \A p \in PoolThreads : /\ pc'[p] = "take" <=> pc[p] = "take"
                              /\ pc'[p] = "release" <=> pc[p] = "release"
                              /\ hand'[p] = hand[p]
    /\ \A a \in AppThreads : /\ pc'[a] = "signal" <=> pc[a] = "signal"
                             /\ pc'[a] \in {"pop", "reclaim"} <=> Let(a)
                             /\ pc'[a] \in {"signal", "allocate", "get", "pop"} <=> Handed(a)

LEMMA QuietStep ==
    ASSUME IInv, Quiet
    PROVE  Apart' /\ Balance' /\ FullCounted' /\ FreeCounted'
<1>1. Apart' /\ \A a \in AppThreads : Out(a)' = Out(a)
  BY StayApart DEF Quiet
<1>2. \A a \in AppThreads : Given(a)' = Given(a) /\ Taking(a)' = Taking(a)
  BY DEF Quiet, Given, Taking, Handed, Let
<1>3. Takers' = Takers /\ Signalling' = Signalling
  BY DEF Quiet, Takers, Signalling
<1>4. \A a \in AppThreads : Releasing(a)' = Releasing(a)
  BY DEF Quiet, Releasing
<1>5. UNCHANGED <<fullSem, freeSem, numAllocated, fullList, freeList>>
  BY DEF Quiet, Stay
<1>6. Balance'
  BY <1>1, <1>2, <1>5 DEF Balance, IInv
<1>7. FullCounted' /\ FreeCounted'
  BY <1>2, <1>3, <1>4, <1>5 DEF FullCounted, FreeCounted, IInv
<1> QED BY <1>1, <1>6, <1>7
-----------------------------------------------------------------------------

\* A thread starts with the buffer of Pin.
LEMMA StepThreadStart ==
    ASSUME IInv, NEW a \in AppThreads, ThreadStart(a)
    PROVE  IInv'
<1> USE DEF ThreadStart, Goto, exitVars, listVars, appVars
<1>1. TypeOK /\ Shape /\ Recorded /\ Virgin /\ a \in Threads
  BY DEF IInv, Threads
<1>2. AppThreads \cap PoolThreads = {}
  BY PoolAssumption
<1>3. TypeOK'
  BY <1>1, OwnFacts DEF TypeOK, Shape, Threads
<1>4. Shape'
  BY <1>1, <1>2 DEF TypeOK, Shape, Threads, Busy, AppStages, PoolStages
<1>5. Quiet
  <2>1. Stay
    BY <1>1, <1>2 DEF TypeOK, Shape, Threads, Busy, Stay, Filling, HomeStages, AppStages
  <2> QED BY <1>1, <1>2, <2>1 DEF TypeOK, Threads, Busy, Quiet, Let, Handed
<1>6. Apart' /\ Balance' /\ FullCounted' /\ FreeCounted'
  BY <1>5, QuietStep
<1>7. Virgin'
  <2>1. \A x \in AppThreads : Out(x)' = Out(x)
    BY <1>5, StayApart DEF Quiet
  <2> QED BY <1>1, <1>2, <2>1 DEF Virgin, TypeOK, Shape, Threads, AppStages
<1>8. Recorded'
  BY <1>1, <1>2 DEF Recorded, TypeOK, Threads
<1> QED BY <1>3, <1>4, <1>6, <1>7, <1>8 DEF IInv

\* A thread has filled its buffer.
LEMMA StepFill ==
    ASSUME IInv, NEW a \in AppThreads, Fill(a)
    PROVE  IInv'
<1> USE DEF Fill, BufferFull, Goto, exitVars, listVars, appVars
<1>1. TypeOK /\ Shape /\ Recorded /\ Virgin /\ a \in Threads
  BY DEF IInv, Threads
<1>2. AppThreads \cap PoolThreads = {}
  BY PoolAssumption
<1>3. TypeOK'
  BY <1>1, OwnFacts, PoolAssumption DEF TypeOK, Shape, Threads
<1>4. Shape'
  BY <1>1, <1>2 DEF TypeOK, Shape, Threads, Busy, AppStages, PoolStages
<1>5. Quiet
  <2>1. Stay
    BY <1>1, <1>2 DEF TypeOK, Shape, Threads, Busy, Stay, Filling, HomeStages, AppStages
  <2> QED BY <1>1, <1>2, <2>1 DEF TypeOK, Threads, Busy, Quiet, Let, Handed
<1>6. Apart' /\ Balance' /\ FullCounted' /\ FreeCounted'
  BY <1>5, QuietStep
<1>7. Virgin'
  <2>1. \A x \in AppThreads : Out(x)' = Out(x)
    BY <1>5, StayApart DEF Quiet
  <2> QED BY <1>1, <1>2, <2>1 DEF Virgin, TypeOK, Shape, Threads, AppStages
<1>8. Recorded'
  BY <1>1, <1>2 DEF Recorded, TypeOK, Threads
<1> QED BY <1>3, <1>4, <1>6, <1>7, <1>8 DEF IInv

\* A thread leaves with what it has filled.
LEMMA StepLeaveThread ==
    ASSUME IInv, NEW a \in AppThreads, LeaveThread(a)
    PROVE  IInv'
<1> USE DEF LeaveThread, BufferFull, Goto, exitVars, listVars, appVars
<1>1. TypeOK /\ Shape /\ Recorded /\ Virgin /\ a \in Threads
  BY DEF IInv, Threads
<1>2. AppThreads \cap PoolThreads = {}
  BY PoolAssumption
<1>3. TypeOK'
  BY <1>1, OwnFacts DEF TypeOK, Shape, Threads
<1>4. Shape'
  BY <1>1, <1>2 DEF TypeOK, Shape, Threads, Busy, AppStages, PoolStages
<1>5. Quiet
  <2>1. Stay
    BY <1>1, <1>2 DEF TypeOK, Shape, Threads, Busy, Stay, Filling, HomeStages, AppStages
  <2> QED BY <1>1, <1>2, <2>1 DEF TypeOK, Threads, Busy, Quiet, Let, Handed
<1>6. Apart' /\ Balance' /\ FullCounted' /\ FreeCounted'
  BY <1>5, QuietStep
<1>7. Virgin'
  <2>1. \A x \in AppThreads : Out(x)' = Out(x)
    BY <1>5, StayApart DEF Quiet
  <2> QED BY <1>1, <1>2, <2>1 DEF Virgin, TypeOK, Shape, Threads, AppStages
<1>8. Recorded'
  BY <1>1, <1>2 DEF Recorded, TypeOK, Threads
<1> QED BY <1>3, <1>4, <1>6, <1>7, <1>8 DEF IInv

\* A thread begins to end the process.
LEMMA StepPrepareForFini ==
    ASSUME IInv, NEW a \in AppThreads, PrepareForFini(a)
    PROVE  IInv'
<1> USE DEF PrepareForFini, Goto, exitVars, listVars, appVars
<1>1. TypeOK /\ Shape /\ Recorded /\ Virgin /\ a \in Threads
  BY DEF IInv, Threads
<1>2. AppThreads \cap PoolThreads = {}
  BY PoolAssumption
<1>3. TypeOK'
  BY <1>1, OwnFacts DEF TypeOK, Shape, Threads
<1>4. Shape'
  BY <1>1, <1>2 DEF TypeOK, Shape, Threads, Busy, AppStages, PoolStages
<1>5. Quiet
  <2>1. Stay
    BY <1>1, <1>2 DEF TypeOK, Shape, Threads, Busy, Stay, Filling, HomeStages, AppStages
  <2> QED BY <1>1, <1>2, <2>1 DEF TypeOK, Threads, Busy, Quiet, Let, Handed
<1>6. Apart' /\ Balance' /\ FullCounted' /\ FreeCounted'
  BY <1>5, QuietStep
<1>7. Virgin'
  <2>1. \A x \in AppThreads : Out(x)' = Out(x)
    BY <1>5, StayApart DEF Quiet
  <2> QED BY <1>1, <1>2, <2>1 DEF Virgin, TypeOK, Shape, Threads, AppStages
<1>8. Recorded'
  BY <1>1, <1>2 DEF Recorded, TypeOK, Threads
<1> QED BY <1>3, <1>4, <1>6, <1>7, <1>8 DEF IInv

\* The exit event is signalled.
LEMMA StepNotifyExit ==
    ASSUME IInv, NEW a \in AppThreads, NotifyExit(a)
    PROVE  IInv'
<1> USE DEF NotifyExit, Goto, exitVars, listVars, appVars
<1>1. TypeOK /\ Shape /\ Recorded /\ Virgin /\ a \in Threads
  BY DEF IInv, Threads
<1>2. AppThreads \cap PoolThreads = {}
  BY PoolAssumption
<1>3. TypeOK'
  BY <1>1, OwnFacts DEF TypeOK, Shape, Threads
<1>4. Shape'
  BY <1>1, <1>2 DEF TypeOK, Shape, Threads, Busy, AppStages, PoolStages
<1>5. Quiet
  <2>1. Stay
    BY <1>1, <1>2 DEF TypeOK, Shape, Threads, Busy, Stay, Filling, HomeStages, AppStages
  <2> QED BY <1>1, <1>2, <2>1 DEF TypeOK, Threads, Busy, Quiet, Let, Handed
<1>6. Apart' /\ Balance' /\ FullCounted' /\ FreeCounted'
  BY <1>5, QuietStep
<1>7. Virgin'
  <2>1. \A x \in AppThreads : Out(x)' = Out(x)
    BY <1>5, StayApart DEF Quiet
  <2> QED BY <1>1, <1>2, <2>1 DEF Virgin, TypeOK, Shape, Threads, AppStages
<1>8. Recorded'
  BY <1>1, <1>2 DEF Recorded, TypeOK, Threads
<1> QED BY <1>3, <1>4, <1>6, <1>7, <1>8 DEF IInv

\* The pool threads have ended.
LEMMA StepPoolEnded ==
    ASSUME IInv, NEW a \in AppThreads, PoolEnded(a)
    PROVE  IInv'
<1> USE DEF PoolEnded, Goto, exitVars, listVars, appVars
<1>1. TypeOK /\ Shape /\ Recorded /\ Virgin /\ a \in Threads
  BY DEF IInv, Threads
<1>2. AppThreads \cap PoolThreads = {}
  BY PoolAssumption
<1>3. TypeOK'
  BY <1>1, OwnFacts DEF TypeOK, Shape, Threads
<1>4. Shape'
  BY <1>1, <1>2 DEF TypeOK, Shape, Threads, Busy, AppStages, PoolStages
<1>5. Quiet
  <2>1. Stay
    BY <1>1, <1>2 DEF TypeOK, Shape, Threads, Busy, Stay, Filling, HomeStages, AppStages
  <2> QED BY <1>1, <1>2, <2>1 DEF TypeOK, Threads, Busy, Quiet, Let, Handed
<1>6. Apart' /\ Balance' /\ FullCounted' /\ FreeCounted'
  BY <1>5, QuietStep
<1>7. Virgin'
  <2>1. \A x \in AppThreads : Out(x)' = Out(x)
    BY <1>5, StayApart DEF Quiet
  <2> QED BY <1>1, <1>2, <2>1 DEF Virgin, TypeOK, Shape, Threads, AppStages
<1>8. Recorded'
  BY <1>1, <1>2 DEF Recorded, TypeOK, Threads
<1> QED BY <1>3, <1>4, <1>6, <1>7, <1>8 DEF IInv

\* A thread processes its buffer itself.
LEMMA StepProcessInAppThread ==
    ASSUME IInv, NEW a \in AppThreads, ProcessInAppThread(a)
    PROVE  IInv'
<1> USE DEF ProcessInAppThread, Resume, Goto, exitVars, listVars, appVars
<1>1. TypeOK /\ Shape /\ Recorded /\ Virgin /\ a \in Threads
  BY DEF IInv, Threads
<1>2. AppThreads \cap PoolThreads = {}
  BY PoolAssumption
<1>3. TypeOK'
  BY <1>1, OwnFacts DEF TypeOK, Shape, Threads
<1>4. Shape'
  BY <1>1, <1>2 DEF TypeOK, Shape, Threads, Busy, AppStages, PoolStages
<1>5. Quiet
  <2>1. Stay
    BY <1>1, <1>2 DEF TypeOK, Shape, Threads, Busy, Stay, Filling, HomeStages, AppStages
  <2> QED BY <1>1, <1>2, <2>1 DEF TypeOK, Threads, Busy, Quiet, Let, Handed
<1>6. Apart' /\ Balance' /\ FullCounted' /\ FreeCounted'
  BY <1>5, QuietStep
<1>7. Virgin'
  <2>1. \A x \in AppThreads : Out(x)' = Out(x)
    BY <1>5, StayApart DEF Quiet
  <2> QED BY <1>1, <1>2, <2>1 DEF Virgin, TypeOK, Shape, Threads, AppStages
<1>8. Recorded'
  BY <1>1, <1>2 DEF Recorded, TypeOK, Threads
<1> QED BY <1>3, <1>4, <1>6, <1>7, <1>8 DEF IInv

\* A thread is about to put its buffer on the full list.
LEMMA StepExitNotSignalled ==
    ASSUME IInv, NEW a \in AppThreads, ExitNotSignalled(a)
    PROVE  IInv'
<1> USE DEF ExitNotSignalled, Goto, exitVars, listVars, appVars
<1>1. TypeOK /\ Shape /\ Recorded /\ Virgin /\ a \in Threads
  BY DEF IInv, Threads
<1>2. AppThreads \cap PoolThreads = {}
  BY PoolAssumption
<1>3. TypeOK'
  BY <1>1, OwnFacts DEF TypeOK, Shape, Threads
<1>4. Shape'
  BY <1>1, <1>2 DEF TypeOK, Shape, Threads, Busy, AppStages, PoolStages
<1>5. Quiet
  <2>1. Stay
    BY <1>1, <1>2 DEF TypeOK, Shape, Threads, Busy, Stay, Filling, HomeStages, AppStages
  <2> QED BY <1>1, <1>2, <2>1 DEF TypeOK, Threads, Busy, Quiet, Let, Handed
<1>6. Apart' /\ Balance' /\ FullCounted' /\ FreeCounted'
  BY <1>5, QuietStep
<1>7. Virgin'
  <2>1. \A x \in AppThreads : Out(x)' = Out(x)
    BY <1>5, StayApart DEF Quiet
  <2> QED BY <1>1, <1>2, <2>1 DEF Virgin, TypeOK, Shape, Threads, AppStages
<1>8. Recorded'
  BY <1>1, <1>2 DEF Recorded, TypeOK, Threads
<1> QED BY <1>3, <1>4, <1>6, <1>7, <1>8 DEF IInv

\* A thread that has all its buffers back ends.
LEMMA StepThreadFini ==
    ASSUME IInv, NEW a \in AppThreads, ThreadFini(a)
    PROVE  IInv'
<1> USE DEF ThreadFini, LeftToReclaim, Goto, exitVars, listVars, appVars
<1>1. TypeOK /\ Shape /\ Recorded /\ Virgin /\ a \in Threads
  BY DEF IInv, Threads
<1>2. AppThreads \cap PoolThreads = {}
  BY PoolAssumption
<1>3. TypeOK'
  BY <1>1, OwnFacts DEF TypeOK, Shape, Threads
<1>4. Shape'
  BY <1>1, <1>2 DEF TypeOK, Shape, Threads, Busy, AppStages, PoolStages
<1>5. Quiet
  <2>1. Stay
    BY <1>1, <1>2 DEF TypeOK, Shape, Threads, Busy, Stay, Filling, HomeStages, AppStages
  <2> QED BY <1>1, <1>2, <2>1 DEF TypeOK, Threads, Busy, Quiet, Let, Handed
<1>6. Apart' /\ Balance' /\ FullCounted' /\ FreeCounted'
  BY <1>5, QuietStep
<1>7. Virgin'
  <2>1. \A x \in AppThreads : Out(x)' = Out(x)
    BY <1>5, StayApart DEF Quiet
  <2> QED BY <1>1, <1>2, <2>1 DEF Virgin, TypeOK, Shape, Threads, AppStages
<1>8. Recorded'
  BY <1>1, <1>2 DEF Recorded, TypeOK, Threads
<1> QED BY <1>3, <1>4, <1>6, <1>7, <1>8 DEF IInv

\* A pool thread starts.
LEMMA StepPoolStart ==
    ASSUME IInv, NEW p \in PoolThreads, PoolStart(p)
    PROVE  IInv'
<1> USE DEF PoolStart, Goto, exitVars, listVars, appVars
<1>1. TypeOK /\ Shape /\ Recorded /\ Virgin /\ p \in Threads
  BY DEF IInv, Threads
<1>2. AppThreads \cap PoolThreads = {}
  BY PoolAssumption
<1>3. TypeOK'
  BY <1>1, OwnFacts DEF TypeOK, Shape, Threads
<1>4. Shape'
  BY <1>1, <1>2 DEF TypeOK, Shape, Threads, Busy, AppStages, PoolStages
<1>5. Quiet
  <2>1. Stay
    BY <1>1, <1>2 DEF TypeOK, Shape, Threads, Busy, Stay, Filling, HomeStages, AppStages
  <2> QED BY <1>1, <1>2, <2>1 DEF TypeOK, Threads, Busy, Quiet, Let, Handed
<1>6. Apart' /\ Balance' /\ FullCounted' /\ FreeCounted'
  BY <1>5, QuietStep
<1>7. Virgin'
  <2>1. \A x \in AppThreads : Out(x)' = Out(x)
    BY <1>5, StayApart DEF Quiet
  <2> QED BY <1>1, <1>2, <2>1 DEF Virgin, TypeOK, Shape, Threads, AppStages
<1>8. Recorded'
  BY <1>1, <1>2 DEF Recorded, TypeOK, Threads
<1> QED BY <1>3, <1>4, <1>6, <1>7, <1>8 DEF IInv

\* A pool thread ends.
LEMMA StepExit ==
    ASSUME IInv, NEW p \in PoolThreads, Exit(p)
    PROVE  IInv'
<1> USE DEF Exit, Goto, exitVars, listVars, appVars
<1>1. TypeOK /\ Shape /\ Recorded /\ Virgin /\ p \in Threads
  BY DEF IInv, Threads
<1>2. AppThreads \cap PoolThreads = {}
  BY PoolAssumption
<1>3. TypeOK'
  BY <1>1, OwnFacts DEF TypeOK, Shape, Threads
<1>4. Shape'
  BY <1>1, <1>2 DEF TypeOK, Shape, Threads, Busy, AppStages, PoolStages
<1>5. Quiet
  <2>1. Stay
    BY <1>1, <1>2 DEF TypeOK, Shape, Threads, Busy, Stay, Filling, HomeStages, AppStages
  <2> QED BY <1>1, <1>2, <2>1 DEF TypeOK, Threads, Busy, Quiet, Let, Handed
<1>6. Apart' /\ Balance' /\ FullCounted' /\ FreeCounted'
  BY <1>5, QuietStep
<1>7. Virgin'
  <2>1. \A x \in AppThreads : Out(x)' = Out(x)
    BY <1>5, StayApart DEF Quiet
  <2> QED BY <1>1, <1>2, <2>1 DEF Virgin, TypeOK, Shape, Threads, AppStages
<1>8. Recorded'
  BY <1>1, <1>2 DEF Recorded, TypeOK, Threads
<1> QED BY <1>3, <1>4, <1>6, <1>7, <1>8 DEF IInv

\* A pool thread processes the buffer it took.
LEMMA StepProcessBuffer ==
    ASSUME IInv, NEW p \in PoolThreads, ProcessBuffer(p)
    PROVE  IInv'
<1> USE DEF ProcessBuffer, Goto, exitVars, listVars, appVars
<1>1. TypeOK /\ Shape /\ Recorded /\ Virgin /\ p \in Threads
  BY DEF IInv, Threads
<1>2. AppThreads \cap PoolThreads = {}
  BY PoolAssumption
<1>3. TypeOK'
  BY <1>1, OwnFacts DEF TypeOK, Shape, Threads
<1>4. Shape'
  BY <1>1, <1>2 DEF TypeOK, Shape, Threads, Busy, AppStages, PoolStages
<1>5. Quiet
  <2>1. Stay
    BY <1>1, <1>2 DEF TypeOK, Shape, Threads, Busy, Stay, Filling, HomeStages, AppStages
  <2> QED BY <1>1, <1>2, <2>1 DEF TypeOK, Threads, Busy, Quiet, Let, Handed
<1>6. Apart' /\ Balance' /\ FullCounted' /\ FreeCounted'
  BY <1>5, QuietStep
<1>7. Virgin'
  <2>1. \A x \in AppThreads : Out(x)' = Out(x)
    BY <1>5, StayApart DEF Quiet
  <2> QED BY <1>1, <1>2, <2>1 DEF Virgin, TypeOK, Shape, Threads, AppStages
<1>8. Recorded'
  BY <1>1, <1>2 DEF Recorded, TypeOK, Threads
<1> QED BY <1>3, <1>4, <1>6, <1>7, <1>8 DEF IInv

\* The semaphore of the full list is released for the buffer put there.
LEMMA StepSignalFull ==
    ASSUME IInv, NEW a \in AppThreads, SignalFull(a)
    PROVE  IInv'
<1> USE DEF SignalFull, Goto, exitVars, listVars, appVars
<1>1. TypeOK /\ Shape /\ Recorded /\ Virgin /\ Balance /\ FullCounted /\ FreeCounted /\ a \in Threads
  BY DEF IInv, Threads
<1>2. AppThreads \cap PoolThreads = {}
  BY PoolAssumption
<1>3. TypeOK'
  BY <1>1, OwnFacts DEF TypeOK, Shape, Threads
<1>4. Shape'
  BY <1>1, <1>2, OwnFacts DEF TypeOK, Shape, Threads, Busy, AppStages, PoolStages
<1>5. Stay
  BY <1>1, <1>2 DEF TypeOK, Shape, Threads, Busy, Stay, Filling, HomeStages, AppStages
<1>6. Apart' /\ \A x \in AppThreads : Out(x)' = Out(x)
  BY <1>5, StayApart
<1>7. Balance'
  BY <1>1, <1>2, <1>6 DEF Balance, TypeOK, Threads, Given, Handed
<1>8. Virgin'
  BY <1>1, <1>2, <1>6 DEF Virgin, TypeOK, Shape, Threads, AppStages
<1>9. FullCounted'
  <2>1. Takers' = Takers /\ Signalling' = Signalling \ {a} /\ a \in Signalling
    BY <1>1, <1>2 DEF Takers, Signalling, TypeOK, Threads
  <2>2. Cardinality(Signalling') = Cardinality(Signalling) - 1 /\ Cardinality(Signalling) \in Nat
    BY <2>1, OneLess, AppFinite DEF Signalling
  <2>3. Cardinality(Takers) \in Nat /\ fullSem \in Nat
    BY <1>1, PoolFinite DEF Takers, TypeOK
  <2> QED BY <1>1, <2>1, <2>2, <2>3 DEF FullCounted
<1>10. FreeCounted'
  <2>1. \A x \in AppThreads : Releasing(x)' = Releasing(x) /\ Taking(x)' = Taking(x)
    BY <1>1, <1>2 DEF Releasing, Taking, Let, TypeOK, Threads
  <2> QED BY <1>1, <2>1 DEF FreeCounted
<1>11. Recorded'
  BY <1>1, <1>2 DEF Recorded, TypeOK, Threads
<1> QED BY <1>3, <1>4, <1>6, <1>7, <1>8, <1>9, <1>10, <1>11 DEF IInv

\* A thread that needs a buffer to fill is let through.
LEMMA StepWaitToFill ==
    ASSUME IInv, NEW a \in AppThreads, WaitFree(a, "get", "pop")
    PROVE  IInv'
<1> USE DEF WaitFree, Goto, exitVars, listVars, appVars
<1>1. TypeOK /\ Shape /\ Recorded /\ Virgin /\ Balance /\ FullCounted /\ FreeCounted /\ a \in Threads
  BY DEF IInv, Threads
<1>2. AppThreads \cap PoolThreads = {}
  BY PoolAssumption
<1>3. TypeOK'
  BY <1>1, OwnFacts DEF TypeOK, Shape, Threads
<1>4. Shape'
  BY <1>1, <1>2, OwnFacts DEF TypeOK, Shape, Threads, Busy, AppStages, PoolStages
<1>5. Stay
  BY <1>1, <1>2 DEF TypeOK, Shape, Threads, Busy, Stay, Filling, HomeStages, AppStages
<1>6. Apart' /\ \A x \in AppThreads : Out(x)' = Out(x)
  BY <1>5, StayApart
<1>7. Balance'
  BY <1>1, <1>2, <1>6 DEF Balance, TypeOK, Threads, Given, Handed
<1>8. Virgin'
  BY <1>1, <1>2, <1>6 DEF Virgin, TypeOK, Shape, Threads, AppStages
<1>9. FullCounted'
  <2>1. Takers' = Takers /\ Signalling' = Signalling
    BY <1>1, <1>2 DEF Takers, Signalling, TypeOK, Threads
  <2> QED BY <1>1, <2>1 DEF FullCounted
<1>10. FreeCounted'
  <2>1. \A x \in AppThreads : Releasing(x)' = Releasing(x) /\ (x # a => Taking(x)' = Taking(x))
    BY <1>1, <1>2 DEF Releasing, Taking, Let, TypeOK, Threads
  <2>2. Taking(a) = 0 /\ Taking(a)' = 1
    BY <1>1, <1>2 DEF Taking, Let, TypeOK, Threads
  <2>3. /\ freeSem'[a] = freeSem[a] - 1 /\ freeSem[a] \in Nat
        /\ \A x \in AppThreads : x # a => freeSem'[x] = freeSem[x]
        /\ \A x \in AppThreads : Cardinality(Releasing(x)) \in Nat
    BY <1>1, PoolFinite DEF TypeOK, Releasing
  <2>4. Len(freeList'[a]) = freeSem'[a] + Taking(a)' + Cardinality(Releasing(a)')
    <3>1. Len(freeList[a]) = freeSem[a] + Taking(a) + Cardinality(Releasing(a)) /\ freeList' = freeList
      BY <1>1 DEF FreeCounted
    <3> HIDE DEF WaitFree
    <3> QED BY <3>1, <2>1, <2>2, <2>3
  <2>5. \A x \in AppThreads : x # a =>
            Len(freeList'[x]) = freeSem'[x] + Taking(x)' + Cardinality(Releasing(x)')
    BY <1>1, <2>1, <2>3 DEF FreeCounted
  <2> QED BY <2>4, <2>5 DEF FreeCounted
<1>11. Recorded'
  BY <1>1, <1>2 DEF Recorded, TypeOK, Threads
<1> QED BY <1>3, <1>4, <1>6, <1>7, <1>8, <1>9, <1>10, <1>11 DEF IInv

\* A thread that leaves is let through for a buffer it allocated.
LEMMA StepWaitToReclaim ==
    ASSUME IInv, NEW a \in AppThreads, numAllocated[a] > 0, WaitFree(a, "fini", "reclaim")
    PROVE  IInv'
<1> USE DEF WaitFree, Goto, exitVars, listVars, appVars
<1>1. TypeOK /\ Shape /\ Recorded /\ Virgin /\ Balance /\ FullCounted /\ FreeCounted /\ a \in Threads
  BY DEF IInv, Threads
<1>2. AppThreads \cap PoolThreads = {}
  BY PoolAssumption
<1>3. TypeOK'
  BY <1>1, OwnFacts DEF TypeOK, Shape, Threads
<1>4. Shape'
  BY <1>1, <1>2, OwnFacts DEF TypeOK, Shape, Threads, Busy, AppStages, PoolStages
<1>5. Stay
  BY <1>1, <1>2 DEF TypeOK, Shape, Threads, Busy, Stay, Filling, HomeStages, AppStages
<1>6. Apart' /\ \A x \in AppThreads : Out(x)' = Out(x)
  BY <1>5, StayApart
<1>7. Balance'
  BY <1>1, <1>2, <1>6 DEF Balance, TypeOK, Threads, Given, Handed
<1>8. Virgin'
  BY <1>1, <1>2, <1>6 DEF Virgin, TypeOK, Shape, Threads, AppStages
<1>9. FullCounted'
  <2>1. Takers' = Takers /\ Signalling' = Signalling
    BY <1>1, <1>2 DEF Takers, Signalling, TypeOK, Threads
  <2> QED BY <1>1, <2>1 DEF FullCounted
<1>10. FreeCounted'
  <2>1. \A x \in AppThreads : Releasing(x)' = Releasing(x) /\ (x # a => Taking(x)' = Taking(x))
    BY <1>1, <1>2 DEF Releasing, Taking, Let, TypeOK, Threads
  <2>2. Taking(a) = 0 /\ Taking(a)' = 1
    BY <1>1, <1>2 DEF Taking, Let, TypeOK, Threads
  <2>3. /\ freeSem'[a] = freeSem[a] - 1 /\ freeSem[a] \in Nat
        /\ \A x \in AppThreads : x # a => freeSem'[x] = freeSem[x]
        /\ \A x \in AppThreads : Cardinality(Releasing(x)) \in Nat
    BY <1>1, PoolFinite DEF TypeOK, Releasing
  <2>4. Len(freeList'[a]) = freeSem'[a] + Taking(a)' + Cardinality(Releasing(a)')
    <3>1. Len(freeList[a]) = freeSem[a] + Taking(a) + Cardinality(Releasing(a)) /\ freeList' = freeList
      BY <1>1 DEF FreeCounted
    <3> HIDE DEF WaitFree
    <3> QED BY <3>1, <2>1, <2>2, <2>3
  <2>5. \A x \in AppThreads : x # a =>
            Len(freeList'[x]) = freeSem'[x] + Taking(x)' + Cardinality(Releasing(x)')
    BY <1>1, <2>1, <2>3 DEF FreeCounted
  <2> QED BY <2>4, <2>5 DEF FreeCounted
<1>11. Recorded'
  BY <1>1, <1>2 DEF Recorded, TypeOK, Threads
<1> QED BY <1>3, <1>4, <1>6, <1>7, <1>8, <1>9, <1>10, <1>11 DEF IInv

\* A pool thread is let through for a full buffer.
LEMMA StepWaitFull ==
    ASSUME IInv, NEW p \in PoolThreads, WaitFull(p)
    PROVE  IInv'
<1> USE DEF WaitFull, Goto, exitVars, listVars, appVars
<1>1. TypeOK /\ Shape /\ Recorded /\ Virgin /\ Balance /\ FullCounted /\ FreeCounted /\ p \in Threads
  BY DEF IInv, Threads
<1>2. AppThreads \cap PoolThreads = {}
  BY PoolAssumption
<1>3. TypeOK'
  BY <1>1, OwnFacts DEF TypeOK, Shape, Threads
<1>4. Shape'
  BY <1>1, <1>2, OwnFacts DEF TypeOK, Shape, Threads, Busy, AppStages, PoolStages
<1>5. Stay
  BY <1>1, <1>2 DEF TypeOK, Shape, Threads, Busy, Stay, Filling, HomeStages, AppStages
<1>6. Apart' /\ \A x \in AppThreads : Out(x)' = Out(x)
  BY <1>5, StayApart
<1>7. Balance'
  BY <1>1, <1>2, <1>6 DEF Balance, TypeOK, Threads, Given, Handed
<1>8. Virgin'
  BY <1>1, <1>2, <1>6 DEF Virgin, TypeOK, Shape, Threads, AppStages
<1>9. FullCounted'
  <2>1. Takers' = Takers \cup {p} /\ Signalling' = Signalling /\ p \notin Takers
    BY <1>1, <1>2 DEF Takers, Signalling, TypeOK, Threads
  <2>2. Cardinality(Takers') = Cardinality(Takers) + 1 /\ Cardinality(Takers) \in Nat
    BY <2>1, OneMore, PoolFinite DEF Takers
  <2>3. Cardinality(Signalling) \in Nat /\ fullSem \in Nat
    BY <1>1, AppFinite DEF Signalling, TypeOK
  <2> QED BY <1>1, <2>1, <2>2, <2>3 DEF FullCounted
<1>10. FreeCounted'
  <2>1. \A x \in AppThreads : Releasing(x)' = Releasing(x) /\ Taking(x)' = Taking(x)
    BY <1>1, <1>2 DEF Releasing, Taking, Let, TypeOK, Threads
  <2> QED BY <1>1, <2>1 DEF FreeCounted
<1>11. Recorded'
  BY <1>1, <1>2 DEF Recorded, TypeOK, Threads
<1> QED BY <1>3, <1>4, <1>6, <1>7, <1>8, <1>9, <1>10, <1>11 DEF IInv

\* The semaphore of a free list is released for the buffer put there.
LEMMA StepReleaseFree ==
    ASSUME IInv, NEW p \in PoolThreads, ReleaseFree(p)
    PROVE  IInv'
<1> USE DEF ReleaseFree, Goto, exitVars, listVars, appVars
<1>1. TypeOK /\ Shape /\ Recorded /\ Virgin /\ Balance /\ FullCounted /\ FreeCounted /\ p \in Threads
  BY DEF IInv, Threads
<1>2. AppThreads \cap PoolThreads = {}
  BY PoolAssumption
<1>3. TypeOK'
  BY <1>1, OwnFacts DEF TypeOK, Shape, Threads
<1>4. Shape'
  BY <1>1, <1>2, OwnFacts DEF TypeOK, Shape, Threads, Busy, AppStages, PoolStages
<1>5. Stay
  BY <1>1, <1>2 DEF TypeOK, Shape, Threads, Busy, Stay, Filling, HomeStages, AppStages
<1>6. Apart' /\ \A x \in AppThreads : Out(x)' = Out(x)
  BY <1>5, StayApart
<1>7. Balance'
  BY <1>1, <1>2, <1>6 DEF Balance, TypeOK, Threads, Given, Handed
<1>8. Virgin'
  BY <1>1, <1>2, <1>6 DEF Virgin, TypeOK, Shape, Threads, AppStages
<1>9. FullCounted'
  <2>1. Takers' = Takers /\ Signalling' = Signalling
    BY <1>1, <1>2 DEF Takers, Signalling, TypeOK, Threads
  <2> QED BY <1>1, <2>1 DEF FullCounted
<1>10. FreeCounted'
  <2>1. PICK o \in AppThreads : o = Owner(hand[p]) /\ p \in Releasing(o)
    BY <1>1, <1>2, OwnFacts DEF Shape, Busy, Releasing
  <2>2. \A q \in PoolThreads : q # p => pc'[q] = pc[q] /\ hand'[q] = hand[q]
    BY <1>1, <1>2 DEF TypeOK, Threads
  <2>3. pc'[p] # "release"
    BY <1>1, <1>2 DEF TypeOK, Threads
  <2>4. Releasing(o)' = Releasing(o) \ {p} /\ \A x \in AppThreads : x # o => Releasing(x)' = Releasing(x)
    BY <2>1, <2>2, <2>3 DEF Releasing
  <2>5. Cardinality(Releasing(o)') = Cardinality(Releasing(o)) - 1 /\ Cardinality(Releasing(o)) \in Nat
    BY <2>1, <2>4, OneLess, PoolFinite DEF Releasing
  <2>6. /\ \A x \in AppThreads : Taking(x)' = Taking(x) /\ Taking(x) \in Nat
        /\ \A x \in AppThreads : x # o => freeSem'[x] = freeSem[x]
    BY <1>1, <1>2, <2>1 DEF Taking, Let, TypeOK, Threads
  <2>7. freeSem'[o] = freeSem[o] + 1 /\ freeSem[o] \in Nat
    BY <1>1, <2>1 DEF TypeOK
  <2>8. freeList' = freeList /\ \A x \in AppThreads :
            Len(freeList[x]) = freeSem[x] + Taking(x) + Cardinality(Releasing(x))
    BY <1>1 DEF FreeCounted
  <2> HIDE DEF ReleaseFree
  <2>9. Len(freeList'[o]) = freeSem'[o] + Taking(o)' + Cardinality(Releasing(o)')
    BY <2>5, <2>6, <2>7, <2>8
  <2>10. \A x \in AppThreads : x # o =>
            Len(freeList'[x]) = freeSem'[x] + Taking(x)' + Cardinality(Releasing(x)')
    BY <2>4, <2>6, <2>8
  <2> QED BY <2>9, <2>10 DEF FreeCounted
<1>11. Recorded'
  BY <1>1, <1>2 DEF Recorded, TypeOK, Threads
<1> QED BY <1>3, <1>4, <1>6, <1>7, <1>8, <1>9, <1>10, <1>11 DEF IInv
-----------------------------------------------------------------------------
\* A thread puts the buffer it filled on the full list.
LEMMA StepPushFull ==
    ASSUME IInv, NEW a \in AppThreads, PushFull(a)
    PROVE  IInv'
<1> DEFINE c == current[a]
<1> USE DEF PushFull, Goto, exitVars, listVars, appVars
<1>1. TypeOK /\ Shape /\ Apart /\ Balance /\ Virgin /\ FullCounted /\ FreeCounted /\ Recorded /\ a \in Threads
  BY DEF IInv, Threads
<1>2. AppThreads \cap PoolThreads = {}
  BY PoolAssumption
<1>3. c \in Own(a) /\ c \in Buffers /\ Filling(a)
  BY <1>1, OwnFacts DEF Shape, Filling
<1>4. /\ fullList' \in Seq(Buffers) /\ Len(fullList') = Len(fullList) + 1 /\ Len(fullList) \in Nat
      /\ Elems(fullList') = Elems(fullList) \cup {c}
      /\ Once(fullList')
  BY <1>1, <1>3, AppendFacts, ElemsFacts DEF TypeOK, Apart
<1>5. /\ pc' \in [Threads -> {"start", "run", "notify", "await", "full", "push", "signal",
                              "allocate", "get", "pop", "fini", "reclaim", "dead",
                              "wait", "take", "process", "return", "release", "exited"}]
      /\ pc[a] = "push" /\ pc'[a] = "signal"
      /\ \A t \in Threads : t # a => pc'[t] = pc[t]
  BY <1>1 DEF TypeOK
<1>6. UNCHANGED <<freeList, freeSem, fullSem, hand, current, numAllocated, unprocessed, rep>>
  OBVIOUS
<1>7. TypeOK'
  BY <1>1, <1>4, <1>5, <1>6 DEF TypeOK
<1> HIDE DEF PushFull, Goto, c
<1>8. Shape'
  BY <1>1, <1>2, <1>5, <1>6 DEF Shape, Threads, Busy, AppStages, PoolStages
<1>9. /\ \A p \in PoolThreads : Busy(p)' <=> Busy(p)
      /\ \A x \in AppThreads : x # a => (Filling(x)' <=> Filling(x))
      /\ ~Filling(a)'
  BY <1>2, <1>5 DEF Threads, Busy, Filling
<1>10. \A p \in PoolThreads : Busy(p) => hand[p] # c
  BY <1>1, <1>3 DEF Apart, c
<1>11. \A x \in AppThreads : /\ c \notin Elems(freeList[x])
                             /\ x # a => c \notin Own(x) /\ (Filling(x) => current[x] # c)
  BY <1>1, <1>3, OwnFacts DEF Apart, c, Own, Filling, Shape
<1>12. Apart'
  BY <1>1, <1>4, <1>6, <1>9, <1>10, <1>11 DEF Apart
<1>13. InHands' = InHands /\ c \notin InHands /\ c \notin Elems(fullList)
  BY <1>1, <1>3, <1>6, <1>9, <1>10 DEF InHands, Apart, c
<1>14. /\ \A x \in AppThreads : x # a => Out(x)' = Out(x)
       /\ Out(a)' = Out(a) \cup {c} /\ c \notin Out(a)
  BY <1>3, <1>4, <1>6, <1>11, <1>13 DEF Out
<1>15. \A x \in AppThreads : Out(x) \subseteq Own(x)
  BY <1>1 DEF Out, Apart
<1>16. Balance'
  <2>1. Given(a) = 0 /\ Given(a)' = 1 /\ \A x \in AppThreads : x # a => Given(x)' = Given(x)
    BY <1>5 DEF Given, Handed, Threads
  <2>2. Cardinality(Out(a)') = Cardinality(Out(a)) + 1
    BY <1>14, <1>15, OneMore, OwnFinite
  <2>3. Cardinality(Out(a)') = numAllocated'[a] + Given(a)'
    BY <1>1, <1>6, <2>1, <2>2 DEF Balance, TypeOK
  <2>4. \A x \in AppThreads : x # a => Cardinality(Out(x)') = numAllocated'[x] + Given(x)'
    BY <1>1, <1>6, <1>14, <2>1 DEF Balance
  <2> QED BY <2>3, <2>4 DEF Balance
<1>17. Virgin'
  BY <1>1, <1>5, <1>6, <1>14 DEF Virgin, Threads, c
<1>18. FullCounted'
  <2>1. Takers' = Takers /\ Signalling' = Signalling \cup {a} /\ a \notin Signalling
    BY <1>2, <1>5 DEF Takers, Signalling, Threads
  <2>2. Cardinality(Signalling') = Cardinality(Signalling) + 1 /\ Cardinality(Signalling) \in Nat
    BY <2>1, OneMore, AppFinite DEF Signalling
  <2>3. Cardinality(Takers) \in Nat /\ fullSem \in Nat
    BY <1>1, PoolFinite DEF Takers, TypeOK
  <2> QED BY <1>1, <1>4, <1>6, <2>1, <2>2, <2>3 DEF FullCounted
<1>19. FreeCounted'
  <2>1. \A x \in AppThreads : Releasing(x)' = Releasing(x) /\ Taking(x)' = Taking(x)
    BY <1>2, <1>5, <1>6 DEF Releasing, Taking, Let, Threads
  <2> QED BY <1>1, <1>6, <2>1 DEF FreeCounted
<1>20. Recorded'
  BY <1>1, <1>2, <1>4, <1>5, <1>6 DEF Recorded, Threads, c
<1> QED BY <1>7, <1>8, <1>12, <1>16, <1>17, <1>18, <1>19, <1>20 DEF IInv

\* A pool thread takes a full buffer: those let through find one.
LEMMA StepTakeFull ==
    ASSUME IInv, NEW p \in PoolThreads, TakeFull(p)
    PROVE  IInv'
<1> DEFINE h == Head(fullList)
<1> USE DEF TakeFull, Goto, exitVars, listVars, appVars
<1>1. TypeOK /\ Shape /\ Apart /\ Balance /\ Virgin /\ FullCounted /\ FreeCounted /\ Recorded /\ p \in Threads
  BY DEF IInv, Threads
<1>2. AppThreads \cap PoolThreads = {}
  BY PoolAssumption
<1>3. fullList # << >>
  <2>1. p \in Takers /\ IsFiniteSet(Takers)
    BY PoolFinite DEF Takers
  <2>2. Cardinality(Takers) > 0 /\ Cardinality(Takers) \in Nat
    BY <2>1, OneLess, PoolFinite DEF Takers
  <2>3. Cardinality(Signalling) \in Nat /\ fullSem \in Nat
    BY <1>1, AppFinite DEF Signalling, TypeOK
  <2> HIDE DEF TakeFull
  <2>4. Len(fullList) > 0
    BY <1>1, <2>2, <2>3 DEF FullCounted
  <2> QED BY <1>1, <2>4, ElemsFacts DEF TypeOK
<1>4. /\ fullList' \in Seq(Buffers) /\ Len(fullList') = Len(fullList) - 1 /\ Len(fullList) \in Nat
      /\ Elems(fullList') = Elems(fullList) \ {h} /\ h \in Elems(fullList) /\ h \in Buffers
      /\ Once(fullList')
  BY <1>1, <1>3, TailFacts, ElemsFacts DEF TypeOK, Apart
<1>5. /\ pc' \in [Threads -> {"start", "run", "notify", "await", "full", "push", "signal",
                              "allocate", "get", "pop", "fini", "reclaim", "dead",
                              "wait", "take", "process", "return", "release", "exited"}]
      /\ pc[p] = "take" /\ pc'[p] = "process"
      /\ \A t \in Threads : t # p => pc'[t] = pc[t]
  BY <1>1 DEF TypeOK
<1>6. /\ UNCHANGED <<freeList, freeSem, fullSem, current, numAllocated, unprocessed, rep>>
      /\ hand' \in [PoolThreads -> Buffers \cup {NoBuffer}] /\ hand'[p] = h
      /\ \A q \in PoolThreads : q # p => hand'[q] = hand[q]
  BY <1>1, <1>4 DEF TypeOK
<1>7. TypeOK'
  BY <1>1, <1>4, <1>5, <1>6 DEF TypeOK
<1> HIDE DEF TakeFull, Goto, h
<1>8. Shape'
  BY <1>1, <1>2, <1>4, <1>5, <1>6 DEF Shape, Threads, Busy, AppStages, PoolStages
<1>9. /\ \A q \in PoolThreads : q # p => (Busy(q)' <=> Busy(q))
      /\ Busy(p)' /\ ~Busy(p)
      /\ \A x \in AppThreads : Filling(x)' <=> Filling(x)
  BY <1>2, <1>5 DEF Threads, Busy, Filling
<1>10. /\ \A x \in AppThreads : h \notin Elems(freeList[x]) /\ (Filling(x) => current[x] # h)
       /\ \A q \in PoolThreads : Busy(q) => hand[q] # h
  BY <1>1, <1>4 DEF Apart
<1>11. Apart'
  <2>1. Once(fullList')
    BY <1>4
  <2>2. ASSUME NEW x \in AppThreads
        PROVE  /\ Elems(freeList'[x]) \subseteq Own(x) \ Elems(fullList')
               /\ Once(freeList'[x])
               /\ Filling(x)' => current'[x] \notin Elems(freeList'[x]) \cup Elems(fullList')
    BY <1>1, <1>4, <1>6, <1>9 DEF Apart
  <2>3. ASSUME NEW x \in AppThreads, NEW q \in PoolThreads, Busy(q)'
        PROVE  hand'[q] \notin Elems(freeList'[x]) /\ (Filling(x)' => hand'[q] # current'[x])
    BY <1>1, <1>6, <1>9, <1>10, <2>3 DEF Apart
  <2>4. ASSUME NEW q \in PoolThreads, Busy(q)'
        PROVE  /\ hand'[q] \notin Elems(fullList')
               /\ \A r \in PoolThreads : Busy(r)' /\ hand'[r] = hand'[q] => r = q
    BY <1>1, <1>4, <1>6, <1>9, <1>10, <2>4 DEF Apart
  <2> QED BY <2>1, <2>2, <2>3, <2>4 DEF Apart
<1>12. InHands' = InHands \cup {h}
  <2>1. ASSUME NEW b \in InHands' PROVE b \in InHands \cup {h}
    BY <1>6, <1>9, <2>1 DEF InHands
  <2>2. ASSUME NEW b \in InHands PROVE b \in InHands'
    BY <1>6, <1>9, <2>2 DEF InHands
  <2>3. h \in InHands'
    BY <1>6, <1>9 DEF InHands
  <2> QED BY <2>1, <2>2, <2>3
<1>13. \A x \in AppThreads : Out(x)' = Out(x)
  BY <1>4, <1>6, <1>12 DEF Out
<1>14. Balance'
  <2>1. \A x \in AppThreads : Given(x)' = Given(x)
    BY <1>2, <1>5 DEF Given, Handed, Threads
  <2> QED BY <1>1, <1>6, <1>13, <2>1 DEF Balance
<1>15. Virgin'
  BY <1>1, <1>2, <1>5, <1>6, <1>13 DEF Virgin, Threads
<1>16. FullCounted'
  <2>1. Takers' = Takers \ {p} /\ Signalling' = Signalling /\ p \in Takers
    BY <1>2, <1>5 DEF Takers, Signalling, Threads
  <2>2. Cardinality(Takers') = Cardinality(Takers) - 1 /\ Cardinality(Takers) \in Nat
    BY <2>1, OneLess, PoolFinite DEF Takers
  <2>3. Cardinality(Signalling) \in Nat /\ fullSem \in Nat
    BY <1>1, AppFinite DEF Signalling, TypeOK
  <2> QED BY <1>1, <1>4, <1>6, <2>1, <2>2, <2>3 DEF FullCounted
<1>17. FreeCounted'
  <2>1. \A x \in AppThreads : Releasing(x)' = Releasing(x) /\ Taking(x)' = Taking(x)
    BY <1>2, <1>5, <1>6 DEF Releasing, Taking, Let, Threads
  <2> QED BY <1>1, <1>6, <2>1 DEF FreeCounted
<1>18. Recorded'
  BY <1>1, <1>2, <1>4, <1>5, <1>6 DEF Recorded, Threads
<1> QED BY <1>7, <1>8, <1>11, <1>14, <1>15, <1>16, <1>17, <1>18 DEF IInv

\* A pool thread puts a buffer back on the list of its owner.
LEMMA StepReturnBuffer ==
    ASSUME IInv, NEW p \in PoolThreads, ReturnBuffer(p)
    PROVE  IInv'
<1> USE DEF ReturnBuffer, Goto, exitVars, listVars, appVars
<1>1. TypeOK /\ Shape /\ Apart /\ Balance /\ Virgin /\ FullCounted /\ FreeCounted /\ Recorded /\ p \in Threads
  BY DEF IInv, Threads
<1>2. AppThreads \cap PoolThreads = {}
  BY PoolAssumption
<1>3. PICK b \in Buffers : b = hand[p]
  BY <1>1 DEF Shape, Busy
<1>4. PICK o \in AppThreads : o = Owner(b) /\ b \in Own(o)
  BY OwnFacts
<1>5. Busy(p) /\ b \notin Elems(freeList[o]) /\ b \notin Elems(fullList)
  BY <1>1, <1>3, <1>4 DEF Apart, Busy
<1>6. /\ freeList'[o] \in Seq(Buffers) /\ Len(freeList'[o]) = Len(freeList[o]) + 1
      /\ Len(freeList[o]) \in Nat
      /\ Elems(freeList'[o]) = Elems(freeList[o]) \cup {b}
      /\ Once(freeList'[o])
      /\ \A x \in AppThreads : x # o => freeList'[x] = freeList[x]
      /\ freeList' \in [AppThreads -> Seq(Buffers)]
  <2>1. freeList[o] \in Seq(Buffers) /\ Once(freeList[o])
    BY <1>1 DEF TypeOK, Apart
  <2>2. freeList' = [freeList EXCEPT ![o] = Append(freeList[o], b)]
    BY <1>1, <1>3, <1>4 DEF TypeOK
  <2>3. /\ Append(freeList[o], b) \in Seq(Buffers)
        /\ Len(Append(freeList[o], b)) = Len(freeList[o]) + 1
        /\ Elems(Append(freeList[o], b)) = Elems(freeList[o]) \cup {b}
        /\ Once(Append(freeList[o], b))
        /\ Len(freeList[o]) \in Nat
    BY <1>5, <2>1, AppendFacts, ElemsFacts
  <2>4. /\ freeList'[o] = Append(freeList[o], b)
        /\ \A x \in AppThreads : x # o => freeList'[x] = freeList[x]
        /\ freeList' \in [AppThreads -> Seq(Buffers)]
    BY <1>1, <2>2, <2>3 DEF TypeOK
  <2> QED BY <2>3, <2>4
<1>7. /\ pc' \in [Threads -> {"start", "run", "notify", "await", "full", "push", "signal",
                              "allocate", "get", "pop", "fini", "reclaim", "dead",
                              "wait", "take", "process", "return", "release", "exited"}]
      /\ pc[p] = "return" /\ pc'[p] = "release"
      /\ \A t \in Threads : t # p => pc'[t] = pc[t]
  BY <1>1 DEF TypeOK
<1>8. UNCHANGED <<fullList, freeSem, fullSem, hand, current, numAllocated, unprocessed, rep>>
  OBVIOUS
<1>9. TypeOK'
  BY <1>1, <1>6, <1>7, <1>8 DEF TypeOK
<1> HIDE DEF ReturnBuffer, Goto
<1>10. Shape'
  BY <1>1, <1>2, <1>7, <1>8 DEF Shape, Threads, Busy, AppStages, PoolStages
<1>11. /\ \A q \in PoolThreads : q # p => (Busy(q)' <=> Busy(q))
       /\ ~Busy(p)'
       /\ \A x \in AppThreads : Filling(x)' <=> Filling(x)
  BY <1>2, <1>7 DEF Threads, Busy, Filling
<1>12. /\ \A x \in AppThreads : Filling(x) => current[x] # b
       /\ \A q \in PoolThreads : q # p /\ Busy(q) => hand[q] # b
       /\ \A x \in AppThreads : x # o => b \notin Own(x)
  BY <1>1, <1>3, <1>4, <1>5, OwnFacts DEF Apart
<1>13. Apart'
  <2>1. ASSUME NEW x \in AppThreads
        PROVE  /\ Elems(freeList'[x]) \subseteq Own(x) \ Elems(fullList')
               /\ Once(freeList'[x])
               /\ Filling(x)' => current'[x] \notin Elems(freeList'[x]) \cup Elems(fullList')
               /\ \A q \in PoolThreads : Busy(q)' =>
                      /\ hand'[q] \notin Elems(freeList'[x])
                      /\ Filling(x)' => hand'[q] # current'[x]
    <3>1. CASE x = o
      BY <1>1, <1>4, <1>5, <1>6, <1>8, <1>11, <1>12, <3>1 DEF Apart
    <3>2. CASE x # o
      BY <1>1, <1>6, <1>8, <1>11, <3>2 DEF Apart
    <3> QED BY <3>1, <3>2
  <2>2. Once(fullList') /\ \A q \in PoolThreads : Busy(q)' =>
           /\ hand'[q] \notin Elems(fullList')
           /\ \A r \in PoolThreads : Busy(r)' /\ hand'[r] = hand'[q] => r = q
    BY <1>1, <1>8, <1>11 DEF Apart
  <2> QED BY <2>1, <2>2 DEF Apart
<1>14. InHands' = InHands \ {b} /\ b \in InHands
  <2>1. ASSUME NEW c \in InHands' PROVE c \in InHands \ {b}
    BY <1>8, <1>11, <1>12, <2>1 DEF InHands
  <2>2. ASSUME NEW c \in InHands, c # b PROVE c \in InHands'
    BY <1>3, <1>8, <1>11, <2>2 DEF InHands
  <2>3. b \in InHands
    BY <1>3, <1>5 DEF InHands
  <2> QED BY <2>1, <2>2, <2>3
<1>15. \A x \in AppThreads : Out(x)' = Out(x)
  <2>1. Out(o)' = Out(o)
    BY <1>4, <1>6, <1>8, <1>14 DEF Out
  <2>2. \A x \in AppThreads : x # o => Out(x)' = Out(x)
    BY <1>6, <1>8, <1>12, <1>14 DEF Out
  <2> QED BY <2>1, <2>2
<1>16. Balance'
  <2>1. \A x \in AppThreads : Given(x)' = Given(x)
    BY <1>2, <1>7 DEF Given, Handed, Threads
  <2> QED BY <1>1, <1>8, <1>15, <2>1 DEF Balance
<1>17. Virgin'
  BY <1>1, <1>2, <1>7, <1>8, <1>15 DEF Virgin, Threads
<1>18. FullCounted'
  <2>1. Takers' = Takers /\ Signalling' = Signalling
    BY <1>2, <1>7 DEF Takers, Signalling, Threads
  <2> QED BY <1>1, <1>8, <2>1 DEF FullCounted
<1>19. FreeCounted'
  <2>1. Releasing(o)' = Releasing(o) \cup {p} /\ p \notin Releasing(o)
    BY <1>3, <1>4, <1>7, <1>8 DEF Releasing, Threads
  <2>2. \A x \in AppThreads : x # o => Releasing(x)' = Releasing(x)
    BY <1>3, <1>4, <1>7, <1>8 DEF Releasing, Threads
  <2>3. Cardinality(Releasing(o)') = Cardinality(Releasing(o)) + 1 /\ Cardinality(Releasing(o)) \in Nat
    BY <2>1, OneMore, PoolFinite DEF Releasing
  <2>4. \A x \in AppThreads : Taking(x)' = Taking(x) /\ Taking(x) \in Nat
    BY <1>2, <1>7 DEF Taking, Let, Threads
  <2>5. /\ freeSem' = freeSem /\ freeSem[o] \in Nat
        /\ \A x \in AppThreads : Len(freeList[x]) = freeSem[x] + Taking(x) + Cardinality(Releasing(x))
    BY <1>1, <1>8 DEF FreeCounted, TypeOK
  <2>6. Len(freeList'[o]) = freeSem'[o] + Taking(o)' + Cardinality(Releasing(o)')
    <3>1. /\ Len(freeList[o]) = freeSem[o] + Taking(o) + Cardinality(Releasing(o))
          /\ freeSem'[o] = freeSem[o]
      BY <2>5
    <3>2. Taking(o)' = Taking(o) /\ Taking(o) \in Nat
      BY <2>4
    <3>3. Len(freeList'[o]) = Len(freeList[o]) + 1
      BY <1>6
    <3> QED BY <2>3, <2>5, <3>1, <3>2, <3>3
  <2>7. \A x \in AppThreads : x # o =>
            Len(freeList'[x]) = freeSem'[x] + Taking(x)' + Cardinality(Releasing(x)')
    BY <1>6, <2>2, <2>4, <2>5
  <2> QED BY <2>6, <2>7 DEF FreeCounted
<1>20. Recorded'
  BY <1>1, <1>2, <1>7, <1>8 DEF Recorded, Threads
<1> QED BY <1>9, <1>10, <1>13, <1>16, <1>17, <1>18, <1>19, <1>20 DEF IInv

\* The free list of a thread that was let through is not empty.
LEMMA LetThrough ==
    ASSUME IInv, NEW a \in AppThreads, Let(a)
    PROVE  /\ freeList[a] \in Seq(Buffers) /\ freeList[a] # << >>
           /\ Len(Tail(freeList[a])) = Len(freeList[a]) - 1 /\ Len(freeList[a]) \in Nat
           /\ Tail(freeList[a]) \in Seq(Buffers) /\ Once(Tail(freeList[a]))
           /\ Elems(Tail(freeList[a])) = Elems(freeList[a]) \ {Head(freeList[a])}
           /\ Head(freeList[a]) \in Elems(freeList[a])
           /\ Head(freeList[a]) \in Own(a)
           /\ Head(freeList[a]) \notin Elems(fullList) \cup InHands
<1>1. Cardinality(Releasing(a)) \in Nat /\ freeSem[a] \in Nat /\ Taking(a) = 1
  BY PoolFinite DEF Releasing, Taking, IInv, TypeOK
<1>2. Len(freeList[a]) = freeSem[a] + Taking(a) + Cardinality(Releasing(a))
  BY DEF IInv, FreeCounted
<1>3. Len(freeList[a]) > 0
  BY <1>1, <1>2
<1>4. freeList[a] \in Seq(Buffers) /\ Once(freeList[a]) /\ Elems(freeList[a]) \subseteq Own(a) \ Elems(fullList)
  BY DEF IInv, TypeOK, Apart
<1>5. freeList[a] # << >> /\ Len(freeList[a]) \in Nat
  BY <1>3, <1>4, ElemsFacts
<1>6. \A b \in Elems(freeList[a]) : b \notin InHands
  BY DEF IInv, Apart, InHands
<1> QED BY <1>4, <1>5, <1>6, TailFacts

\* A thread takes a buffer for Pin to fill.
LEMMA StepPopToFill ==
    ASSUME IInv, NEW a \in AppThreads, Goto(a, "pop", Resume(a)), PopFree(a),
           current' = [current EXCEPT ![a] = Head(freeList[a])],
           UNCHANGED <<exitVars, fullList, fullSem, freeSem, rep, numAllocated,
                       leaving, fills, unprocessed, hand>>
    PROVE  IInv'
<1> DEFINE h == Head(freeList[a])
<1> USE DEF Goto, exitVars
<1>1. TypeOK /\ Shape /\ Apart /\ Balance /\ Virgin /\ FullCounted /\ FreeCounted /\ Recorded /\ a \in Threads
  BY DEF IInv, Threads
<1>2. AppThreads \cap PoolThreads = {}
  BY PoolAssumption
<1>3. Let(a)
  BY DEF Let
<1>4. /\ freeList'[a] \in Seq(Buffers) /\ Len(freeList'[a]) = Len(freeList[a]) - 1
      /\ Len(freeList[a]) \in Nat
      /\ Elems(freeList'[a]) = Elems(freeList[a]) \ {h} /\ Once(freeList'[a])
      /\ h \in Elems(freeList[a]) /\ h \in Own(a) /\ h \in Buffers
      /\ h \notin Elems(fullList) \cup InHands
      /\ freeList' \in [AppThreads -> Seq(Buffers)]
      /\ \A x \in AppThreads : x # a => freeList'[x] = freeList[x]
  <2>1. freeList' = [freeList EXCEPT ![a] = Tail(freeList[a])]
    BY DEF PopFree
  <2>2. /\ freeList'[a] = Tail(freeList[a])
        /\ \A x \in AppThreads : x # a => freeList'[x] = freeList[x]
    BY <1>1, <2>1 DEF TypeOK
  <2>3. Tail(freeList[a]) \in Seq(Buffers)
    BY <1>3, LetThrough
  <2>4. freeList' \in [AppThreads -> Seq(Buffers)]
    BY <1>1, <2>1, <2>3 DEF TypeOK
  <2>5. /\ Len(Tail(freeList[a])) = Len(freeList[a]) - 1 /\ Len(freeList[a]) \in Nat
        /\ Elems(Tail(freeList[a])) = Elems(freeList[a]) \ {h} /\ Once(Tail(freeList[a]))
        /\ h \in Elems(freeList[a]) /\ h \in Own(a)
        /\ h \notin Elems(fullList) \cup InHands
    BY <1>3, LetThrough
  <2>6. h \in Buffers
    BY <2>5, OwnFacts
  <2> QED BY <2>2, <2>3, <2>4, <2>5, <2>6
<1>5. /\ pc' \in [Threads -> {"start", "run", "notify", "await", "full", "push", "signal",
                              "allocate", "get", "pop", "fini", "reclaim", "dead",
                              "wait", "take", "process", "return", "release", "exited"}]
      /\ pc[a] = "pop" /\ pc'[a] \in {"run", "fini"}
      /\ \A t \in Threads : t # a => pc'[t] = pc[t]
  BY <1>1 DEF TypeOK, Resume
<1>6. /\ UNCHANGED <<fullList, freeSem, fullSem, hand, numAllocated, unprocessed, rep>>
      /\ current' \in [AppThreads -> Buffers \cup {NoBuffer}] /\ current'[a] = h
      /\ \A x \in AppThreads : x # a => current'[x] = current[x]
  BY <1>1, <1>4 DEF TypeOK
<1>7. TypeOK'
  BY <1>1, <1>4, <1>5, <1>6 DEF TypeOK
<1> HIDE DEF Goto, h
<1>8. Shape'
  <2>1. ASSUME NEW x \in AppThreads
        PROVE  /\ pc'[x] \in AppStages
               /\ rep'[x] <=> pc'[x] \notin {"start", "dead"}
               /\ pc'[x] # "dead" => current'[x] \in Own(x)
               /\ pc'[x] \in {"start", "dead"} => numAllocated'[x] = 0
               /\ pc'[x] = "reclaim" => numAllocated'[x] > 0
    <3>1. CASE x = a
      BY <1>1, <1>4, <1>5, <1>6, <3>1 DEF Shape, AppStages
    <3>2. CASE x # a
      BY <1>1, <1>5, <1>6, <3>2 DEF Shape, Threads
    <3> QED BY <3>1, <3>2
  <2>2. \A p \in PoolThreads : pc'[p] = pc[p] /\ hand'[p] = hand[p]
    BY <1>2, <1>5, <1>6 DEF Threads
  <2> QED BY <1>1, <2>1, <2>2 DEF Shape, Busy
<1>9. /\ \A p \in PoolThreads : Busy(p)' <=> Busy(p)
      /\ \A x \in AppThreads : x # a => (Filling(x)' <=> Filling(x))
      /\ Filling(a)'
  BY <1>2, <1>5 DEF Threads, Busy, Filling
<1>10. /\ \A p \in PoolThreads : Busy(p) => hand[p] # h
       /\ InHands' = InHands
       /\ \A x \in AppThreads : x # a => h \notin Own(x)
  BY <1>4, <1>6, <1>9, OwnFacts DEF InHands
<1>11. Apart'
  <2>1. ASSUME NEW x \in AppThreads
        PROVE  /\ Elems(freeList'[x]) \subseteq Own(x) \ Elems(fullList')
               /\ Once(freeList'[x])
               /\ Filling(x)' => current'[x] \notin Elems(freeList'[x]) \cup Elems(fullList')
               /\ \A q \in PoolThreads : Busy(q)' =>
                      /\ hand'[q] \notin Elems(freeList'[x])
                      /\ Filling(x)' => hand'[q] # current'[x]
    <3>1. CASE x = a
      BY <1>1, <1>4, <1>6, <1>9, <1>10, <3>1 DEF Apart
    <3>2. CASE x # a
      BY <1>1, <1>4, <1>6, <1>9, <3>2 DEF Apart
    <3> QED BY <3>1, <3>2
  <2>2. Once(fullList') /\ \A q \in PoolThreads : Busy(q)' =>
           /\ hand'[q] \notin Elems(fullList')
           /\ \A r \in PoolThreads : Busy(r)' /\ hand'[r] = hand'[q] => r = q
    BY <1>1, <1>6, <1>9 DEF Apart
  <2> QED BY <2>1, <2>2 DEF Apart
<1>12. Out(a)' = Out(a) \ {h} /\ h \in Out(a) /\ \A x \in AppThreads : x # a => Out(x)' = Out(x)
  BY <1>4, <1>6, <1>10 DEF Out
<1>13. Out(a) \subseteq Own(a)
  BY <1>1 DEF Out, Apart
<1>14. Balance'
  <2>1. Given(a) = 1 /\ Given(a)' = 0 /\ \A x \in AppThreads : x # a => Given(x)' = Given(x)
    BY <1>5 DEF Given, Handed, Threads
  <2>2. Cardinality(Out(a)') = Cardinality(Out(a)) - 1
    BY <1>12, <1>13, OneLess, OwnFinite
  <2>3. Cardinality(Out(a)') = numAllocated'[a] + Given(a)'
    BY <1>1, <1>6, <2>1, <2>2 DEF Balance, TypeOK
  <2>4. \A x \in AppThreads : x # a => Cardinality(Out(x)') = numAllocated'[x] + Given(x)'
    BY <1>1, <1>6, <1>12, <2>1 DEF Balance
  <2> QED BY <2>3, <2>4 DEF Balance
<1>15. Virgin'
  <2>1. ASSUME numAllocated[a] = 0 PROVE Out(a)' \cup {current'[a]} = {<<a, 1>>}
    <3>1. Out(a) \cup {current[a]} = {<<a, 1>>}
      BY <1>1, <1>5, <2>1 DEF Virgin
    <3> QED BY <3>1, <1>6, <1>12
  <2>2. \A x \in AppThreads : x # a =>
           (numAllocated'[x] = 0 /\ pc'[x] \notin {"fini", "reclaim", "dead"} =>
                Out(x)' \cup {current'[x]} = {<<x, 1>>})
    BY <1>1, <1>5, <1>6, <1>12 DEF Virgin, Threads
  <2> QED BY <2>1, <2>2, <1>6 DEF Virgin
<1>16. FullCounted'
  <2>1. Takers' = Takers /\ Signalling' = Signalling
    BY <1>2, <1>5 DEF Takers, Signalling, Threads
  <2> QED BY <1>1, <1>6, <2>1 DEF FullCounted
<1>17. FreeCounted'
  <2>1. /\ \A x \in AppThreads : Releasing(x)' = Releasing(x) /\ (x # a => Taking(x)' = Taking(x))
        /\ Taking(a) = 1 /\ Taking(a)' = 0
    BY <1>2, <1>5, <1>6 DEF Releasing, Taking, Let, Threads
  <2>2. Len(freeList[a]) = freeSem[a] + Taking(a) + Cardinality(Releasing(a))
    BY <1>1 DEF FreeCounted
  <2>3. Cardinality(Releasing(a)) \in Nat /\ freeSem[a] \in Nat
    BY <1>1, PoolFinite DEF Releasing, TypeOK
  <2>4. Len(freeList'[a]) = freeSem'[a] + Taking(a)' + Cardinality(Releasing(a)')
    BY <1>4, <1>6, <2>1, <2>2, <2>3
  <2>5. \A x \in AppThreads : x # a =>
            Len(freeList'[x]) = freeSem'[x] + Taking(x)' + Cardinality(Releasing(x)')
    BY <1>1, <1>4, <1>6, <2>1 DEF FreeCounted
  <2> QED BY <2>4, <2>5 DEF FreeCounted
<1>18. Recorded'
  BY <1>1, <1>2, <1>5, <1>6 DEF Recorded, Threads
<1> QED BY <1>7, <1>8, <1>11, <1>14, <1>15, <1>16, <1>17, <1>18 DEF IInv

\* A thread that leaves takes back a buffer it allocated.
LEMMA StepPopToReclaim ==
    ASSUME IInv, NEW a \in AppThreads, Goto(a, "reclaim", "fini"), PopFree(a),
           numAllocated' = [numAllocated EXCEPT ![a] = @ - 1],
           UNCHANGED <<exitVars, fullList, fullSem, freeSem, rep, current, leaving,
                       fills, unprocessed, hand>>
    PROVE  IInv'
<1> DEFINE h == Head(freeList[a])
<1> USE DEF Goto, exitVars
<1>1. TypeOK /\ Shape /\ Apart /\ Balance /\ Virgin /\ FullCounted /\ FreeCounted /\ Recorded /\ a \in Threads
  BY DEF IInv, Threads
<1>2. AppThreads \cap PoolThreads = {}
  BY PoolAssumption
<1>3. Let(a)
  BY DEF Let
<1>4. /\ freeList'[a] \in Seq(Buffers) /\ Len(freeList'[a]) = Len(freeList[a]) - 1
      /\ Len(freeList[a]) \in Nat
      /\ Elems(freeList'[a]) = Elems(freeList[a]) \ {h} /\ Once(freeList'[a])
      /\ h \in Elems(freeList[a]) /\ h \in Own(a)
      /\ h \notin Elems(fullList) \cup InHands
      /\ freeList' \in [AppThreads -> Seq(Buffers)]
      /\ \A x \in AppThreads : x # a => freeList'[x] = freeList[x]
  <2>1. freeList' = [freeList EXCEPT ![a] = Tail(freeList[a])]
    BY DEF PopFree
  <2>2. /\ freeList'[a] = Tail(freeList[a])
        /\ \A x \in AppThreads : x # a => freeList'[x] = freeList[x]
    BY <1>1, <2>1 DEF TypeOK
  <2>3. Tail(freeList[a]) \in Seq(Buffers)
    BY <1>3, LetThrough
  <2>4. freeList' \in [AppThreads -> Seq(Buffers)]
    BY <1>1, <2>1, <2>3 DEF TypeOK
  <2> QED BY <1>3, <2>2, <2>3, <2>4, LetThrough
<1>5. /\ pc' \in [Threads -> {"start", "run", "notify", "await", "full", "push", "signal",
                              "allocate", "get", "pop", "fini", "reclaim", "dead",
                              "wait", "take", "process", "return", "release", "exited"}]
      /\ pc[a] = "reclaim" /\ pc'[a] = "fini"
      /\ \A t \in Threads : t # a => pc'[t] = pc[t]
  BY <1>1 DEF TypeOK
<1>6. /\ UNCHANGED <<fullList, freeSem, fullSem, hand, current, unprocessed, rep>>
      /\ numAllocated'[a] = numAllocated[a] - 1
      /\ \A x \in AppThreads : x # a => numAllocated'[x] = numAllocated[x]
  BY <1>1 DEF TypeOK
<1>7. TypeOK'
  <2>1. numAllocated[a] \in 0..(NumBuffers - 1) /\ numAllocated[a] > 0
    BY <1>1, <1>5 DEF TypeOK, Shape
  <2>2. numAllocated[a] - 1 \in 0..(NumBuffers - 1)
    BY <2>1, PoolAssumption
  <2>3. numAllocated' \in [AppThreads -> 0..(NumBuffers - 1)]
    BY <1>1, <2>2 DEF TypeOK
  <2> QED BY <1>1, <1>4, <1>5, <1>6, <2>3 DEF TypeOK
<1> HIDE DEF Goto, h
<1>8. Shape'
  BY <1>1, <1>2, <1>5, <1>6 DEF Shape, Threads, Busy, AppStages, PoolStages
<1>9. /\ \A p \in PoolThreads : Busy(p)' <=> Busy(p)
      /\ \A x \in AppThreads : Filling(x)' <=> Filling(x)
      /\ InHands' = InHands
  <2>1. /\ \A p \in PoolThreads : Busy(p)' <=> Busy(p)
        /\ \A x \in AppThreads : Filling(x)' <=> Filling(x)
    BY <1>2, <1>5 DEF Threads, Busy, Filling
  <2> QED BY <1>6, <2>1 DEF InHands
<1>10. \A x \in AppThreads : x # a => h \notin Own(x)
  BY <1>4, OwnFacts
<1>11. Apart'
  <2>1. \A x \in AppThreads : Elems(freeList'[x]) \subseteq Elems(freeList[x]) /\ Once(freeList'[x])
    BY <1>1, <1>4 DEF Apart
  <2> QED BY <1>1, <1>6, <1>9, <2>1 DEF Apart
<1>12. Out(a)' = Out(a) \ {h} /\ h \in Out(a) /\ \A x \in AppThreads : x # a => Out(x)' = Out(x)
  BY <1>4, <1>6, <1>9 DEF Out
<1>13. Out(a) \subseteq Own(a)
  BY <1>1 DEF Out, Apart
<1>14. Balance'
  <2>1. \A x \in AppThreads : Given(x)' = Given(x)
    BY <1>2, <1>5 DEF Given, Handed, Threads
  <2>2. Cardinality(Out(a)') = Cardinality(Out(a)) - 1
    BY <1>12, <1>13, OneLess, OwnFinite
  <2>3. Given(a) = 0 /\ numAllocated[a] \in Nat
    BY <1>1, <1>5 DEF Given, Handed, TypeOK
  <2>4. Cardinality(Out(a)') = numAllocated'[a] + Given(a)'
    BY <1>1, <1>6, <2>1, <2>2, <2>3 DEF Balance
  <2>5. \A x \in AppThreads : x # a => Cardinality(Out(x)') = numAllocated'[x] + Given(x)'
    BY <1>1, <1>6, <1>12, <2>1 DEF Balance
  <2> QED BY <2>4, <2>5 DEF Balance
<1>15. Virgin'
  <2>1. \A x \in AppThreads : x # a =>
           (numAllocated'[x] = 0 /\ pc'[x] \notin {"fini", "reclaim", "dead"} =>
                Out(x)' \cup {current'[x]} = {<<x, 1>>})
    BY <1>1, <1>5, <1>6, <1>12 DEF Virgin, Threads
  <2> QED BY <2>1, <1>5 DEF Virgin
<1>16. FullCounted'
  <2>1. Takers' = Takers /\ Signalling' = Signalling
    BY <1>2, <1>5 DEF Takers, Signalling, Threads
  <2> QED BY <1>1, <1>6, <2>1 DEF FullCounted
<1>17. FreeCounted'
  <2>1. /\ \A x \in AppThreads : Releasing(x)' = Releasing(x) /\ (x # a => Taking(x)' = Taking(x))
        /\ Taking(a) = 1 /\ Taking(a)' = 0
    BY <1>2, <1>5, <1>6 DEF Releasing, Taking, Let, Threads
  <2>2. Len(freeList[a]) = freeSem[a] + Taking(a) + Cardinality(Releasing(a))
    BY <1>1 DEF FreeCounted
  <2>3. Cardinality(Releasing(a)) \in Nat /\ freeSem[a] \in Nat
    BY <1>1, PoolFinite DEF Releasing, TypeOK
  <2>4. Len(freeList'[a]) = freeSem'[a] + Taking(a)' + Cardinality(Releasing(a)')
    BY <1>4, <1>6, <2>1, <2>2, <2>3
  <2>5. \A x \in AppThreads : x # a =>
            Len(freeList'[x]) = freeSem'[x] + Taking(x)' + Cardinality(Releasing(x)')
    BY <1>1, <1>4, <1>6, <2>1 DEF FreeCounted
  <2> QED BY <2>4, <2>5 DEF FreeCounted
<1>18. Recorded'
  BY <1>1, <1>2, <1>5, <1>6 DEF Recorded, Threads
<1> QED BY <1>7, <1>8, <1>11, <1>14, <1>15, <1>16, <1>17, <1>18 DEF IInv

LEMMA FreshFacts ==
    ASSUME NEW a \in AppThreads
    PROVE  /\ Fresh(a) \in Seq(Buffers) /\ Len(Fresh(a)) = ToAllocate /\ ToAllocate \in Nat
           /\ Elems(Fresh(a)) = Own(a) \ {<<a, 1>>}
           /\ Once(Fresh(a))
<1>1. ToAllocate \in Nat /\ ToAllocate = NumBuffers - 1 /\ NumBuffers \in Nat
  BY PoolAssumption DEF ToAllocate
<1>2. /\ Fresh(a) \in [1..ToAllocate -> Buffers]
      /\ \A i \in 1..ToAllocate : Fresh(a)[i] = <<a, i + 1>>
  BY <1>1 DEF Fresh, Buffers
<1>3. Fresh(a) \in Seq(Buffers) /\ Len(Fresh(a)) = ToAllocate
  <2>1. Fresh(a) \in Seq(Buffers)
    BY <1>1, <1>2, SeqDef
  <2>2. DOMAIN Fresh(a) = 1..Len(Fresh(a)) /\ Len(Fresh(a)) \in Nat
    BY <2>1, LenProperties
  <2> QED BY <1>1, <1>2, <2>1, <2>2
<1>4. Once(Fresh(a))
  BY <1>1, <1>2, <1>3 DEF Once
<1>5. ASSUME NEW b \in Elems(Fresh(a)) PROVE b \in Own(a) \ {<<a, 1>>}
  <2>1. PICK i \in 1..ToAllocate : b = Fresh(a)[i]
    BY <1>3 DEF Elems
  <2>2. b = <<a, i + 1>> /\ i + 1 \in 1..NumBuffers /\ i + 1 # 1
    BY <1>1, <1>2, <2>1
  <2> QED BY <2>2 DEF Own
<1>6. ASSUME NEW b \in Own(a), b # <<a, 1>> PROVE b \in Elems(Fresh(a))
  <2>1. PICK n \in 1..NumBuffers : b = <<a, n>>
    BY DEF Own
  <2>2. n - 1 \in 1..ToAllocate /\ n - 1 + 1 = n
    BY <1>1, <1>6, <2>1
  <2>3. Fresh(a)[n - 1] = b
    BY <1>2, <2>1, <2>2
  <2> QED BY <1>3, <2>2, <2>3 DEF Elems
<1> QED BY <1>1, <1>3, <1>4, <1>5, <1>6

LEMMA OwnCardinality == \A a \in AppThreads : Cardinality(Own(a)) = NumBuffers
<1> SUFFICES ASSUME NEW a \in AppThreads PROVE Cardinality(Own(a)) = NumBuffers
  OBVIOUS
<1>1. NumBuffers \in Nat /\ NumBuffers > 0
  BY PoolAssumption
<1>2. IsFiniteSet({a}) /\ Cardinality({a}) = 1
  BY FS_Singleton
<1>3. IsFiniteSet(1..NumBuffers) /\ Cardinality(1..NumBuffers) = NumBuffers
  <2>1. 1 \in Int /\ NumBuffers \in Int
    BY <1>1
  <2>2. IsFiniteSet(1..NumBuffers) /\ Cardinality(1..NumBuffers) = IF 1 > NumBuffers THEN 0 ELSE NumBuffers - 1 + 1
    BY <2>1, FS_Interval
  <2> QED BY <1>1, <2>2
<1>4. Cardinality(Own(a)) = Cardinality({a}) * Cardinality(1..NumBuffers)
  BY <1>2, <1>3, FS_Product DEF Own
<1> QED BY <1>1, <1>2, <1>3, <1>4

\* The first time, the other buffers are put on the free list: the thread has
\* given away the one of Pin, and no other of its buffers is anywhere.
LEMMA StepAllocate ==
    ASSUME IInv, NEW a \in AppThreads, Allocate(a), numAllocated[a] = 0
    PROVE  IInv'
<1> USE DEF Allocate, Goto, exitVars
<1>1. TypeOK /\ Shape /\ Apart /\ Balance /\ Virgin /\ FullCounted /\ FreeCounted /\ Recorded /\ a \in Threads
  BY DEF IInv, Threads
<1>2. AppThreads \cap PoolThreads = {}
  BY PoolAssumption
<1>3. /\ pc' \in [Threads -> {"start", "run", "notify", "await", "full", "push", "signal",
                              "allocate", "get", "pop", "fini", "reclaim", "dead",
                              "wait", "take", "process", "return", "release", "exited"}]
      /\ pc[a] = "allocate" /\ pc'[a] = "get"
      /\ \A t \in Threads : t # a => pc'[t] = pc[t]
  BY <1>1 DEF TypeOK
<1>4. Given(a) = 1 /\ Given(a)' = 1 /\ \A x \in AppThreads : x # a => Given(x)' = Given(x)
  BY <1>3 DEF Given, Handed, Threads
<1>5. Out(a) = {<<a, 1>>} /\ Own(a) \cap InHands \subseteq {<<a, 1>>}
  <2>1. Out(a) \cup {current[a]} = {<<a, 1>>}
    BY <1>1, <1>3 DEF Virgin
  <2>2. Cardinality(Out(a)) = 1
    BY <1>1, <1>4 DEF Balance
  <2>3. Out(a) # {}
    <3>1. \A S : S = {} => Cardinality(S) = 0
      BY FS_EmptySet
    <3>2. ASSUME Out(a) = {} PROVE FALSE
      <4>1. Cardinality(Out(a)) = 0
        BY <3>1, <3>2
      <4> QED BY <2>2, <4>1
    <3> QED BY <3>2
  <2> QED BY <2>1, <2>3 DEF Out
<1>6. /\ Fresh(a) \in Seq(Buffers) /\ Len(Fresh(a)) = ToAllocate /\ ToAllocate \in Nat
      /\ Elems(Fresh(a)) = Own(a) \ {<<a, 1>>} /\ Once(Fresh(a))
  BY FreshFacts
<1>7. /\ freeList'[a] \in Seq(Buffers) /\ Len(freeList'[a]) = Len(freeList[a]) + ToAllocate
      /\ Len(freeList[a]) \in Nat
      /\ Elems(freeList'[a]) = Elems(freeList[a]) \cup (Own(a) \ {<<a, 1>>}) /\ Once(freeList'[a])
      /\ freeList' \in [AppThreads -> Seq(Buffers)]
      /\ \A x \in AppThreads : x # a => freeList'[x] = freeList[x]
  <2>1. /\ freeList' = [freeList EXCEPT ![a] = freeList[a] \o Fresh(a)]
        /\ freeList[a] \in Seq(Buffers) /\ Once(freeList[a])
    BY <1>1 DEF TypeOK, Apart
  <2>2. Elems(freeList[a]) \cap Elems(Fresh(a)) = {}
    BY <1>5, <1>6 DEF Out
  <2>3. /\ freeList[a] \o Fresh(a) \in Seq(Buffers)
        /\ Len(freeList[a] \o Fresh(a)) = Len(freeList[a]) + Len(Fresh(a))
        /\ Len(freeList[a]) \in Nat
        /\ Elems(freeList[a] \o Fresh(a)) = Elems(freeList[a]) \cup Elems(Fresh(a))
        /\ Once(freeList[a] \o Fresh(a))
    <3>1. Fresh(a) \in Seq(Buffers) /\ Once(Fresh(a))
      BY <1>6
    <3> HIDE DEF Allocate
    <3>2. Len(freeList[a]) \in Nat
      BY <2>1, ElemsFacts
    <3> QED BY <2>1, <2>2, <3>1, <3>2, ConcatFacts
  <2>4. /\ freeList'[a] = freeList[a] \o Fresh(a)
        /\ \A x \in AppThreads : x # a => freeList'[x] = freeList[x]
        /\ freeList' \in [AppThreads -> Seq(Buffers)]
    BY <1>1, <2>1, <2>3 DEF TypeOK
  <2> QED BY <1>6, <2>3, <2>4
<1>8. /\ UNCHANGED <<fullList, fullSem, hand, current, unprocessed, rep, fills, leaving>>
      /\ numAllocated'[a] = ToAllocate /\ freeSem'[a] = freeSem[a] + ToAllocate
      /\ freeSem[a] \in Nat
      /\ \A x \in AppThreads : x # a => numAllocated'[x] = numAllocated[x] /\ freeSem'[x] = freeSem[x]
  BY <1>1 DEF TypeOK
<1>9. TypeOK'
  <2>1. ToAllocate \in 0..(NumBuffers - 1)
    BY PoolAssumption DEF ToAllocate
  <2>2. numAllocated' \in [AppThreads -> 0..(NumBuffers - 1)] /\ freeSem' \in [AppThreads -> Nat]
    <3>1. /\ numAllocated' = [numAllocated EXCEPT ![a] = ToAllocate]
          /\ freeSem' = [freeSem EXCEPT ![a] = freeSem[a] + ToAllocate]
      BY <1>1 DEF TypeOK
    <3>2. freeSem[a] + ToAllocate \in Nat
      BY <1>6, <1>8
    <3> HIDE DEF Allocate
    <3> QED BY <1>1, <2>1, <3>1, <3>2 DEF TypeOK
  <2> QED BY <1>1, <1>3, <1>7, <1>8, <2>2 DEF TypeOK
<1> HIDE DEF Allocate, Goto
<1>10. Shape'
  <2>1. ASSUME NEW x \in AppThreads
        PROVE  /\ pc'[x] \in AppStages
               /\ rep'[x] <=> pc'[x] \notin {"start", "dead"}
               /\ pc'[x] # "dead" => current'[x] \in Own(x)
               /\ pc'[x] \in {"start", "dead"} => numAllocated'[x] = 0
               /\ pc'[x] = "reclaim" => numAllocated'[x] > 0
    <3>1. CASE x = a
      BY <1>1, <1>3, <1>8, <3>1 DEF Shape, AppStages
    <3>2. CASE x # a
      BY <1>1, <1>3, <1>8, <3>2 DEF Shape, Threads
    <3> QED BY <3>1, <3>2
  <2>2. \A p \in PoolThreads : pc'[p] = pc[p] /\ hand'[p] = hand[p]
    BY <1>2, <1>3, <1>8 DEF Threads
  <2> QED BY <1>1, <2>1, <2>2 DEF Shape, Busy
<1>11. /\ \A p \in PoolThreads : Busy(p)' <=> Busy(p)
       /\ \A x \in AppThreads : Filling(x)' <=> Filling(x)
       /\ ~Filling(a)
       /\ InHands' = InHands
  <2>1. /\ \A p \in PoolThreads : Busy(p)' <=> Busy(p)
        /\ \A x \in AppThreads : Filling(x)' <=> Filling(x)
        /\ ~Filling(a)
    BY <1>2, <1>3 DEF Threads, Busy, Filling
  <2> QED BY <1>8, <2>1 DEF InHands
<1>12. Apart'
  <2>1. ASSUME NEW x \in AppThreads
        PROVE  /\ Elems(freeList'[x]) \subseteq Own(x) \ Elems(fullList')
               /\ Once(freeList'[x])
               /\ Filling(x)' => current'[x] \notin Elems(freeList'[x]) \cup Elems(fullList')
               /\ \A q \in PoolThreads : Busy(q)' =>
                      /\ hand'[q] \notin Elems(freeList'[x])
                      /\ Filling(x)' => hand'[q] # current'[x]
    <3>1. CASE x = a
      <4>1. Elems(freeList'[a]) \subseteq Own(a) \ Elems(fullList')
        BY <1>1, <1>5, <1>7, <1>8 DEF Apart, Out
      <4>2. \A q \in PoolThreads : Busy(q) => hand[q] \notin Elems(freeList'[a])
        <5> SUFFICES ASSUME NEW q \in PoolThreads, Busy(q), hand[q] \in Elems(freeList'[a]) PROVE FALSE
          OBVIOUS
        <5>1. hand[q] \in InHands /\ hand[q] \notin Elems(freeList[a])
          BY <1>1 DEF InHands, Apart
        <5> QED BY <1>5, <1>7, <5>1
      <4> QED BY <1>7, <1>8, <1>11, <3>1, <4>1, <4>2
    <3>2. CASE x # a
      BY <1>1, <1>7, <1>8, <1>11, <3>2 DEF Apart
    <3> QED BY <3>1, <3>2
  <2>2. Once(fullList') /\ \A q \in PoolThreads : Busy(q)' =>
           /\ hand'[q] \notin Elems(fullList')
           /\ \A r \in PoolThreads : Busy(r)' /\ hand'[r] = hand'[q] => r = q
    BY <1>1, <1>8, <1>11 DEF Apart
  <2> QED BY <2>1, <2>2 DEF Apart
<1>13. Out(a)' = Own(a) /\ \A x \in AppThreads : x # a => Out(x)' = Out(x)
  <2>1. Out(a) \subseteq Own(a) /\ Out(a)' = Out(a) \cup (Own(a) \ {<<a, 1>>})
    BY <1>1, <1>7, <1>8, <1>11 DEF Out, Apart
  <2>2. Out(a)' = Own(a)
    BY <1>5, <2>1
  <2>3. \A x \in AppThreads : x # a => Out(x)' = Out(x)
    BY <1>7, <1>8, <1>11 DEF Out
  <2> QED BY <2>2, <2>3
<1>14. Balance'
  <2>1. Cardinality(Out(a)') = numAllocated'[a] + Given(a)'
    <3>1. Cardinality(Own(a)) = NumBuffers
      BY OwnCardinality
    <3> QED BY <1>4, <1>8, <1>13, <3>1, PoolAssumption DEF ToAllocate
  <2>2. \A x \in AppThreads : x # a => Cardinality(Out(x)') = numAllocated'[x] + Given(x)'
    BY <1>1, <1>4, <1>8, <1>13 DEF Balance
  <2> QED BY <2>1, <2>2 DEF Balance
<1>15. Virgin'
  <2>1. ASSUME ToAllocate = 0 PROVE Out(a)' \cup {current'[a]} = {<<a, 1>>}
    <3>1. NumBuffers = 1
      BY <2>1, PoolAssumption DEF ToAllocate
    <3>2. Own(a) = {<<a, 1>>} /\ current[a] \in Own(a)
      BY <1>1, <1>3, <3>1 DEF Own, Shape
    <3> QED BY <1>8, <1>13, <3>2
  <2>2. \A x \in AppThreads : x # a =>
           (numAllocated'[x] = 0 /\ pc'[x] \notin {"fini", "reclaim", "dead"} =>
                Out(x)' \cup {current'[x]} = {<<x, 1>>})
    BY <1>1, <1>3, <1>8, <1>13 DEF Virgin, Threads
  <2> QED BY <2>1, <2>2, <1>8 DEF Virgin
<1>16. FullCounted'
  <2>1. Takers' = Takers /\ Signalling' = Signalling
    BY <1>2, <1>3 DEF Takers, Signalling, Threads
  <2> QED BY <1>1, <1>8, <2>1 DEF FullCounted
<1>17. FreeCounted'
  <2>1. \A x \in AppThreads : Releasing(x)' = Releasing(x) /\ Taking(x)' = Taking(x) /\ Taking(x) \in Nat
    BY <1>2, <1>3, <1>8 DEF Releasing, Taking, Let, Threads
  <2>2. Len(freeList[a]) = freeSem[a] + Taking(a) + Cardinality(Releasing(a))
    BY <1>1 DEF FreeCounted
  <2>3. Cardinality(Releasing(a)) \in Nat
    BY PoolFinite DEF Releasing
  <2>4. Releasing(a)' = Releasing(a) /\ Taking(a)' = Taking(a) /\ Taking(a) \in Nat
    BY <2>1
  <2>5. Len(freeList'[a]) = freeSem'[a] + Taking(a)' + Cardinality(Releasing(a)')
    BY <1>6, <1>7, <1>8, <2>2, <2>3, <2>4
  <2>6. \A x \in AppThreads : x # a =>
            Len(freeList'[x]) = freeSem'[x] + Taking(x)' + Cardinality(Releasing(x)')
    BY <1>1, <1>7, <1>8, <2>1 DEF FreeCounted
  <2> QED BY <2>5, <2>6 DEF FreeCounted
<1>18. Recorded'
  BY <1>1, <1>2, <1>3, <1>8 DEF Recorded, Threads
<1> QED BY <1>9, <1>10, <1>12, <1>14, <1>15, <1>16, <1>17, <1>18 DEF IInv

\* Afterwards, nothing is to be allocated.
LEMMA StepAllocated ==
    ASSUME IInv, NEW a \in AppThreads, Allocate(a), numAllocated[a] # 0
    PROVE  IInv'
<1> USE DEF Allocate, Goto, exitVars, listVars, appVars
<1>1. TypeOK /\ Shape /\ Recorded /\ Virgin /\ a \in Threads
  BY DEF IInv, Threads
<1>2. AppThreads \cap PoolThreads = {}
  BY PoolAssumption
<1>3. TypeOK'
  BY <1>1, OwnFacts DEF TypeOK, Shape, Threads
<1>4. Shape'
  BY <1>1, <1>2 DEF TypeOK, Shape, Threads, Busy, AppStages, PoolStages
<1>5. Quiet
  <2>1. Stay
    BY <1>1, <1>2 DEF TypeOK, Shape, Threads, Busy, Stay, Filling, HomeStages, AppStages
  <2> QED BY <1>1, <1>2, <2>1 DEF TypeOK, Threads, Busy, Quiet, Let, Handed
<1>6. Apart' /\ Balance' /\ FullCounted' /\ FreeCounted'
  BY <1>5, QuietStep
<1>7. Virgin'
  <2>1. \A x \in AppThreads : Out(x)' = Out(x)
    BY <1>5, StayApart DEF Quiet
  <2> QED BY <1>1, <1>2, <2>1 DEF Virgin, TypeOK, Shape, Threads, AppStages
<1>8. Recorded'
  BY <1>1, <1>2 DEF Recorded, TypeOK, Threads
<1> QED BY <1>3, <1>4, <1>6, <1>7, <1>8 DEF IInv
-----------------------------------------------------------------------------
LEMMA InitInv == Init => IInv
<1> SUFFICES ASSUME Init PROVE IInv
  OBVIOUS
<1> USE DEF Init
<1>1. AppThreads \cap PoolThreads = {} /\ NumBuffers \in Nat /\ NumBuffers > 0 /\ MaxFills \in Nat
  BY PoolAssumption
<1>2. \A a \in AppThreads : <<a, 1>> \in Own(a) /\ <<a, 1>> \in Buffers
  BY <1>1 DEF Own, Buffers
<1>3. << >> \in Seq(Buffers) /\ Len(<< >>) = 0 /\ Elems(<< >>) = {} /\ Once(<< >>)
  BY DEF Elems, Once
<1>4. TypeOK
  <2>1. manager \in BOOLEAN /\ exitEvent \in BOOLEAN /\ early \in BOOLEAN
    OBVIOUS
  <2>2. fullList \in Seq(Buffers) /\ fullSem \in Nat /\ freeList \in [AppThreads -> Seq(Buffers)]
    BY <1>3
  <2>3. freeSem \in [AppThreads -> Nat] /\ rep \in [AppThreads -> BOOLEAN]
    OBVIOUS
  <2>4. numAllocated \in [AppThreads -> 0..(NumBuffers - 1)] /\ fills \in [AppThreads -> 0..MaxFills]
    <3>1. 0 \in 0..(NumBuffers - 1) /\ 0 \in 0..MaxFills
      BY <1>1
    <3> QED BY <3>1
  <2>5. /\ current \in [AppThreads -> Buffers \cup {NoBuffer}]
        /\ hand \in [PoolThreads -> Buffers \cup {NoBuffer}]
        /\ unprocessed \subseteq Buffers /\ leaving \subseteq AppThreads
    BY <1>2
  <2> QED BY <2>1, <2>2, <2>3, <2>4, <2>5 DEF TypeOK
<1>5. /\ \A a \in AppThreads : pc[a] = "start" /\ freeList[a] = << >> /\ freeSem[a] = 0
                               /\ numAllocated[a] = 0 /\ current[a] = <<a, 1>> /\ ~rep[a]
      /\ \A p \in PoolThreads : pc[p] = "start" /\ hand[p] = NoBuffer
      /\ fullList = << >> /\ fullSem = 0 /\ unprocessed = {}
  BY DEF Threads
<1> HIDE DEF Init
<1>6. Shape
  <2>1. \A a \in AppThreads : /\ pc[a] \in AppStages
                              /\ rep[a] <=> pc[a] \notin {"start", "dead"}
                              /\ pc[a] # "dead" => current[a] \in Own(a)
                              /\ pc[a] \in {"start", "dead"} => numAllocated[a] = 0
                              /\ pc[a] = "reclaim" => numAllocated[a] > 0
    BY <1>2, <1>5 DEF AppStages
  <2>2. \A p \in PoolThreads : /\ pc[p] \in PoolStages
                               /\ hand[p] \in Buffers <=> (Busy(p) \/ pc[p] = "release")
    BY <1>5, OwnFacts DEF PoolStages, Busy
  <2> QED BY <2>1, <2>2 DEF Shape
<1>7. Apart
  BY <1>3, <1>5 DEF Apart, Busy
<1>8. \A a \in AppThreads : Out(a) = {} /\ Given(a) = 0 /\ Taking(a) = 0 /\ Releasing(a) = {}
  BY <1>3, <1>5 DEF Out, Given, Taking, Releasing, InHands, Busy, Handed, Let
<1>9. Takers = {} /\ Signalling = {}
  BY <1>5 DEF Takers, Signalling
<1>10. \A S : S = {} => Cardinality(S) = 0
  BY FS_EmptySet
<1>11. Balance
  BY <1>5, <1>8, <1>10 DEF Balance
<1>12. Virgin
  BY <1>5, <1>8 DEF Virgin
<1>13. FullCounted
  BY <1>3, <1>5, <1>9, <1>10 DEF FullCounted
<1>14. FreeCounted
  BY <1>3, <1>5, <1>8, <1>10 DEF FreeCounted
<1>15. Recorded
  BY <1>5 DEF Recorded
<1> QED BY <1>4, <1>6, <1>7, <1>11, <1>12, <1>13, <1>14, <1>15 DEF IInv

LEMMA StutterInv == IInv /\ UNCHANGED vars => IInv'
<1> SUFFICES ASSUME IInv, UNCHANGED vars PROVE IInv'
  OBVIOUS
<1>1. /\ UNCHANGED <<manager, exitEvent, early, fullList, fullSem, freeList, freeSem, rep>>
      /\ UNCHANGED <<numAllocated, current, unprocessed, pc, hand, leaving, fills>>
  BY DEF vars, exitVars, listVars, appVars
<1>2. TypeOK /\ Shape /\ Virgin /\ Recorded
  BY DEF IInv
<1>3. Quiet
  BY <1>1 DEF Quiet, Stay, Busy, Filling, HomeStages, Let, Handed
<1>4. Apart' /\ Balance' /\ FullCounted' /\ FreeCounted'
  BY <1>3, QuietStep
<1>5. \A a \in AppThreads : Out(a)' = Out(a)
  BY <1>3, StayApart DEF Quiet
<1>6. TypeOK' /\ Shape'
  BY <1>1, <1>2 DEF TypeOK, Shape, Busy
<1>7. Virgin' /\ Recorded'
  BY <1>1, <1>2, <1>5 DEF Virgin, Recorded
<1> QED BY <1>4, <1>6, <1>7 DEF IInv

LEMMA NextInv == IInv /\ [Next]_vars => IInv'
<1> SUFFICES ASSUME IInv, [Next]_vars PROVE IInv'
  OBVIOUS
<1>1. ASSUME NEW a \in AppThreads, App(a) PROVE IInv'
  <2>1. CASE ThreadStart(a) \/ Fill(a) \/ LeaveThread(a)
    BY <2>1, StepThreadStart, StepFill, StepLeaveThread
  <2>2. CASE PrepareForFini(a) \/ NotifyExit(a) \/ PoolEnded(a)
    BY <2>2, StepPrepareForFini, StepNotifyExit, StepPoolEnded
  <2>3. CASE ProcessInAppThread(a) \/ ExitNotSignalled(a)
    BY <2>3, StepProcessInAppThread, StepExitNotSignalled
  <2>4. CASE PushFull(a) \/ SignalFull(a)
    BY <2>4, StepPushFull, StepSignalFull
  <2>5. CASE Allocate(a)
    BY <2>5, StepAllocate, StepAllocated
  <2>6. CASE NextToFill(a)
    BY <2>6, StepWaitToFill, StepPopToFill DEF NextToFill
  <2>7. CASE Reclaim(a)
    BY <2>7, StepWaitToReclaim, StepPopToReclaim DEF Reclaim, LeftToReclaim
  <2>8. CASE ThreadFini(a)
    BY <2>8, StepThreadFini
  <2> QED BY <1>1, <2>1, <2>2, <2>3, <2>4, <2>5, <2>6, <2>7, <2>8 DEF App, EnqueueFull
<1>2. ASSUME NEW p \in PoolThreads, Pool(p) PROVE IInv'
  <2>1. CASE PoolStart(p) \/ WaitFull(p) \/ Exit(p) \/ TakeFull(p)
    BY <2>1, StepPoolStart, StepWaitFull, StepExit, StepTakeFull
  <2>2. CASE ProcessBuffer(p) \/ ReturnBuffer(p) \/ ReleaseFree(p)
    BY <2>2, StepProcessBuffer, StepReturnBuffer, StepReleaseFree
  <2> QED BY <1>2, <2>1, <2>2 DEF Pool
<1>3. CASE UNCHANGED vars
  BY <1>3, StutterInv
<1> QED BY <1>1, <1>2, <1>3 DEF Next

LEMMA Invariance == Spec => []IInv
BY InitInv, NextInv, PTL DEF Spec

\* What the variables are.
THEOREM TypeCorrect == Spec => []TypeOK
<1>1. IInv => TypeOK
  BY DEF IInv
<1> QED BY Invariance, <1>1, PTL

\* A thread that a semaphore let through finds a buffer on its list.
THEOREM NeverEmptyPop == Spec => []PopNeverEmpty
<1>1. IInv => PopNeverEmpty
  <2> SUFFICES ASSUME IInv PROVE PopNeverEmpty
    OBVIOUS
  <2>1. ASSUME NEW a \in AppThreads, pc[a] \in {"pop", "reclaim"} PROVE freeList[a] # << >>
    BY <2>1, LetThrough DEF Let
  <2>2. ASSUME NEW p \in PoolThreads, pc[p] = "take" PROVE fullList # << >>
    <3>1. p \in Takers
      BY <2>2 DEF Takers
    <3>2. Cardinality(Takers) > 0 /\ Cardinality(Takers) \in Nat
      BY <3>1, OneLess, PoolFinite DEF Takers
    <3>3. Cardinality(Signalling) \in Nat /\ fullSem \in Nat
      BY AppFinite DEF Signalling, IInv, TypeOK
    <3>4. Len(fullList) > 0
      BY <3>2, <3>3 DEF IInv, FullCounted
    <3> QED BY <3>4, ElemsFacts DEF IInv, TypeOK
  <2> QED BY <2>1, <2>2 DEF PopNeverEmpty
<1> QED BY Invariance, <1>1, PTL

\* References are processed before their buffer is filled again, and a thread
\* that has ended leaves none behind.
THEOREM ReferencesKept == Spec => []NoReferenceLost
<1>1. IInv => NoReferenceLost
  <2> SUFFICES ASSUME IInv, NEW a \in AppThreads
               PROVE  /\ pc[a] \in {"run", "fini"} => current[a] \notin unprocessed
                      /\ \A i \in DOMAIN freeList[a] : freeList[a][i] \notin unprocessed
                      /\ pc[a] = "dead" => \A b \in unprocessed : Owner(b) # a
    BY DEF NoReferenceLost
  <2>1. TypeOK /\ Shape /\ Apart /\ Balance /\ Recorded
    BY DEF IInv
  <2>2. ASSUME NEW b \in unprocessed, b \in Own(a)
        PROVE  b \in Out(a) \/ (pc[a] \in {"full", "push"} /\ b = current[a])
    <3>1. CASE \E x \in AppThreads : pc[x] \in {"full", "push"} /\ b = current[x]
      <4>1. PICK x \in AppThreads : pc[x] \in {"full", "push"} /\ b = current[x]
        BY <3>1
      <4>2. x = a
        BY <2>1, <2>2, <4>1, OwnFacts DEF Shape
      <4> QED BY <4>1, <4>2
    <3>2. CASE b \in Elems(fullList)
      BY <2>2, <3>2 DEF Out
    <3>3. CASE \E p \in PoolThreads : pc[p] = "process" /\ b = hand[p]
      BY <2>2, <3>3 DEF Out, InHands, Busy
    <3> QED BY <2>1, <3>1, <3>2, <3>3 DEF Recorded
  <2>3. ASSUME NEW b \in unprocessed PROVE b \notin Elems(freeList[a])
    <3>1. CASE \E x \in AppThreads : pc[x] \in {"full", "push"} /\ b = current[x]
      <4>1. PICK x \in AppThreads : pc[x] \in {"full", "push"} /\ b = current[x]
        BY <3>1
      <4>2. b \in Own(x) /\ b \notin Elems(freeList[x])
        BY <2>1, <4>1 DEF Shape, Apart, Filling
      <4>3. x # a => b \notin Own(a)
        BY <4>2, OwnFacts
      <4> QED BY <2>1, <4>2, <4>3 DEF Apart
    <3>2. CASE b \in Elems(fullList)
      BY <2>1, <3>2 DEF Apart
    <3>3. CASE \E p \in PoolThreads : pc[p] = "process" /\ b = hand[p]
      BY <2>1, <3>3 DEF Apart, Busy
    <3> QED BY <2>1, <3>1, <3>2, <3>3 DEF Recorded
  <2>4. pc[a] \in {"run", "fini"} => current[a] \notin unprocessed
    <3> SUFFICES ASSUME pc[a] \in {"run", "fini"}, current[a] \in unprocessed PROVE FALSE
      OBVIOUS
    <3>1. current[a] \in Own(a)
      BY <2>1 DEF Shape
    <3>2. current[a] \in Out(a)
      BY <2>2, <3>1
    <3> QED BY <2>1, <3>2 DEF Apart, Filling, Out, InHands
  <2>5. \A i \in DOMAIN freeList[a] : freeList[a][i] \notin unprocessed
    <3>1. DOMAIN freeList[a] = 1..Len(freeList[a])
      BY <2>1, ElemsFacts DEF TypeOK
    <3> QED BY <2>3, <3>1 DEF Elems
  <2>6. ASSUME pc[a] = "dead", NEW b \in unprocessed PROVE Owner(b) # a
    <3> SUFFICES ASSUME Owner(b) = a PROVE FALSE
      OBVIOUS
    <3>1. b \in Own(a)
      BY <2>1, OwnFacts DEF TypeOK
    <3>2. b \in Out(a)
      BY <2>2, <2>6, <3>1
    <3>3. Cardinality(Out(a)) = 0 /\ Out(a) \subseteq Own(a)
      BY <2>1, <2>6 DEF Balance, Given, Handed, Shape, Out, Apart
    <3>4. Out(a) = {}
      BY <3>3, FS_EmptySet, FS_Subset, OwnFacts
    <3> QED BY <3>2, <3>4
  <2> QED BY <2>4, <2>5, <2>6
<1> QED BY Invariance, <1>1, PTL

\* A representative that is not live owns no buffer that anybody deals with.
LEMMA NothingOut ==
    ASSUME IInv, NEW a \in AppThreads, ~rep[a]
    PROVE  Out(a) = {} /\ Releasing(a) = {}
<1>1. pc[a] \in {"start", "dead"} /\ numAllocated[a] = 0
  BY DEF IInv, Shape
<1>2. Given(a) = 0 /\ Taking(a) = 0
  BY <1>1 DEF Given, Handed, Taking, Let
<1>3. Cardinality(Out(a)) = 0 /\ Out(a) \subseteq Own(a)
  BY <1>1, <1>2 DEF IInv, Balance, Out, Apart
<1>4. Out(a) = {}
  BY <1>3, FS_EmptySet, OwnFinite
<1>5. Len(freeList[a]) = 0 /\ freeList[a] \in Seq(Buffers)
  BY <1>4, ElemsFacts DEF Out, IInv, TypeOK
<1>6. Cardinality(Releasing(a)) \in Nat /\ freeSem[a] \in Nat /\ IsFiniteSet(Releasing(a))
  BY PoolFinite DEF Releasing, IInv, TypeOK
<1>7. Cardinality(Releasing(a)) = 0
  BY <1>2, <1>5, <1>6 DEF IInv, FreeCounted
<1> QED BY <1>4, <1>6, <1>7, FS_EmptySet

\* The representative that ThreadFini deletes is not used afterwards.
THEOREM RepresentativesAlive == Spec => []RepresentativeAlive
<1>1. IInv => RepresentativeAlive
  <2> SUFFICES ASSUME IInv PROVE RepresentativeAlive
    OBVIOUS
  <2>1. TypeOK /\ Shape
    BY DEF IInv
  <2>2. ASSUME NEW p \in PoolThreads, hand[p] # NoBuffer PROVE rep[Owner(hand[p])]
    <3>1. hand[p] \in Buffers /\ (Busy(p) \/ pc[p] = "release")
      BY <2>1, <2>2 DEF TypeOK, Shape
    <3>2. PICK o \in AppThreads : o = Owner(hand[p]) /\ hand[p] \in Own(o)
      BY <3>1, OwnFacts
    <3>3. CASE Busy(p)
      BY <3>2, <3>3, NothingOut DEF Out, InHands
    <3>4. CASE pc[p] = "release"
      BY <3>2, <3>4, NothingOut DEF Releasing
    <3> QED BY <3>1, <3>3, <3>4
  <2>3. ASSUME NEW i \in DOMAIN fullList PROVE rep[Owner(fullList[i])]
    <3>1. fullList[i] \in Elems(fullList) /\ fullList[i] \in Buffers
      BY <2>1, ElemsFacts DEF TypeOK, Elems
    <3>2. PICK o \in AppThreads : o = Owner(fullList[i]) /\ fullList[i] \in Own(o)
      BY <3>1, OwnFacts
    <3> QED BY <3>1, <3>2, NothingOut DEF Out
  <2> QED BY <2>2, <2>3 DEF RepresentativeAlive
<1> QED BY Invariance, <1>1, PTL

LEMMA PlaceCases ==
    ASSUME NEW b, NEW x \in Places(b)
    PROVE  \/ \E a \in AppThreads : x = <<"thread", a>> /\ Filling(a) /\ current[a] = b
           \/ \E p \in PoolThreads : x = <<"pool", p>> /\ Busy(p) /\ hand[p] = b
           \/ \E i \in DOMAIN fullList : x = <<"full", i>> /\ fullList[i] = b
           \/ \E a \in AppThreads : \E i \in DOMAIN freeList[a] :
                  x = <<"free", a, i>> /\ freeList[a][i] = b
BY DEF Places, Busy

LEMMA OnePlace ==
    ASSUME IInv, NEW b \in Buffers, NEW x \in Places(b), NEW y \in Places(b)
    PROVE  x = y
<1>1. TypeOK /\ Shape /\ Apart
  BY DEF IInv
<1>2. /\ DOMAIN fullList = 1..Len(fullList)
      /\ \A a \in AppThreads : DOMAIN freeList[a] = 1..Len(freeList[a])
  BY <1>1, ElemsFacts DEF TypeOK
<1>3. ASSUME NEW a \in AppThreads, Filling(a), current[a] = b
      PROVE  \A z \in Places(b) : z = <<"thread", a>>
  <2> SUFFICES ASSUME NEW z \in Places(b) PROVE z = <<"thread", a>>
    OBVIOUS
  <2>1. b \in Own(a) /\ Owner(b) = a
    BY <1>1, <1>3, OwnFacts DEF Shape, Filling
  <2>2. ASSUME NEW c \in AppThreads, Filling(c), current[c] = b PROVE c = a
    BY <1>1, <2>1, <2>2, OwnFacts DEF Shape, Filling
  <2>3. ASSUME NEW p \in PoolThreads, Busy(p), hand[p] = b PROVE FALSE
    BY <1>1, <1>3, <2>3 DEF Apart
  <2>4. b \notin Elems(fullList)
    BY <1>1, <1>3 DEF Apart
  <2>5. ASSUME NEW c \in AppThreads, b \in Elems(freeList[c]) PROVE FALSE
    <3>1. c = a
      BY <1>1, <2>1, <2>5, OwnFacts DEF Apart
    <3> QED BY <1>1, <1>3, <2>5, <3>1 DEF Apart
  <2> QED BY <1>2, <2>2, <2>3, <2>4, <2>5, PlaceCases DEF Elems
<1>4. ASSUME NEW p \in PoolThreads, Busy(p), hand[p] = b
      PROVE  \A z \in Places(b) : z = <<"pool", p>>
  <2> SUFFICES ASSUME NEW z \in Places(b) PROVE z = <<"pool", p>>
    OBVIOUS
  <2>1. ASSUME NEW c \in AppThreads, Filling(c), current[c] = b PROVE FALSE
    BY <1>1, <1>4, <2>1 DEF Apart
  <2>2. ASSUME NEW q \in PoolThreads, Busy(q), hand[q] = b PROVE q = p
    BY <1>1, <1>4, <2>2 DEF Apart
  <2>3. b \notin Elems(fullList) /\ \A c \in AppThreads : b \notin Elems(freeList[c])
    BY <1>1, <1>4 DEF Apart
  <2> QED BY <1>2, <2>1, <2>2, <2>3, PlaceCases DEF Elems
<1>5. ASSUME NEW i \in DOMAIN fullList, fullList[i] = b, NEW j \in DOMAIN fullList, fullList[j] = b
      PROVE  i = j
  BY <1>1, <1>2, <1>5 DEF Apart, Once
<1>6. ASSUME NEW i \in DOMAIN fullList, fullList[i] = b,
             NEW a \in AppThreads, NEW j \in DOMAIN freeList[a], freeList[a][j] = b
      PROVE  FALSE
  <2>1. b \in Elems(fullList) /\ b \in Elems(freeList[a])
    BY <1>2, <1>6 DEF Elems
  <2> QED BY <1>1, <2>1 DEF Apart
<1>7. ASSUME NEW a \in AppThreads, NEW i \in DOMAIN freeList[a], freeList[a][i] = b,
             NEW c \in AppThreads, NEW j \in DOMAIN freeList[c], freeList[c][j] = b
      PROVE  <<"free", a, i>> = <<"free", c, j>>
  <2>1. b \in Elems(freeList[a]) /\ b \in Elems(freeList[c])
    BY <1>2, <1>7 DEF Elems
  <2>2. b \in Own(a) /\ b \in Own(c)
    BY <1>1, <2>1 DEF Apart
  <2>3. a = c
    BY <2>2, OwnFacts
  <2>4. i = j
    BY <1>1, <1>2, <1>7, <2>3 DEF Apart, Once
  <2> QED BY <2>3, <2>4
<1>8. CASE \E a \in AppThreads : Filling(a) /\ current[a] = b
  BY <1>3, <1>8
<1>9. CASE \E p \in PoolThreads : Busy(p) /\ hand[p] = b
  BY <1>4, <1>9
<1>10. CASE /\ ~\E a \in AppThreads : Filling(a) /\ current[a] = b
            /\ ~\E p \in PoolThreads : Busy(p) /\ hand[p] = b
  <2>1. ASSUME NEW z \in Places(b)
        PROVE  \/ \E i \in DOMAIN fullList : z = <<"full", i>> /\ fullList[i] = b
               \/ \E a \in AppThreads : \E i \in DOMAIN freeList[a] :
                      z = <<"free", a, i>> /\ freeList[a][i] = b
    BY <1>10, PlaceCases
  <2>2. CASE \E i \in DOMAIN fullList : x = <<"full", i>> /\ fullList[i] = b
    BY <1>5, <1>6, <2>1, <2>2
  <2>3. CASE \E a \in AppThreads : \E i \in DOMAIN freeList[a] :
                 x = <<"free", a, i>> /\ freeList[a][i] = b
    <3>1. PICK a \in AppThreads : \E i \in DOMAIN freeList[a] :
                 x = <<"free", a, i>> /\ freeList[a][i] = b
      BY <2>3
    <3>2. PICK i \in DOMAIN freeList[a] : x = <<"free", a, i>> /\ freeList[a][i] = b
      BY <3>1
    <3>3. ~\E k \in DOMAIN fullList : fullList[k] = b
      BY <1>6, <3>2
    <3>4. PICK c \in AppThreads : \E j \in DOMAIN freeList[c] :
                 y = <<"free", c, j>> /\ freeList[c][j] = b
      BY <2>1, <3>3
    <3>5. PICK j \in DOMAIN freeList[c] : y = <<"free", c, j>> /\ freeList[c][j] = b
      BY <3>4
    <3> QED BY <1>7, <3>2, <3>5
  <2> QED BY <2>1, <2>2, <2>3
<1> QED BY <1>8, <1>9, <1>10

LEMMA Placed ==
    ASSUME IInv, NEW a \in AppThreads, NEW b \in Own(a)
    PROVE  Places(b) # {} <=> b \in Out(a) \/ (Filling(a) /\ current[a] = b)
<1>1. TypeOK /\ Shape /\ Apart
  BY DEF IInv
<1>2. /\ DOMAIN fullList = 1..Len(fullList)
      /\ \A x \in AppThreads : DOMAIN freeList[x] = 1..Len(freeList[x])
  BY <1>1, ElemsFacts DEF TypeOK
<1>3. ASSUME NEW z \in Places(b) PROVE b \in Out(a) \/ (Filling(a) /\ current[a] = b)
  <2>1. CASE \E x \in AppThreads : Filling(x) /\ current[x] = b
    <3>1. PICK x \in AppThreads : Filling(x) /\ current[x] = b
      BY <2>1
    <3>2. b \in Own(x)
      BY <1>1, <3>1 DEF Shape, Filling
    <3>3. x = a
      BY <3>2, OwnFacts
    <3> QED BY <3>1, <3>3
  <2>2. CASE \E p \in PoolThreads : Busy(p) /\ hand[p] = b
    BY <2>2 DEF Out, InHands
  <2>3. CASE \E i \in DOMAIN fullList : fullList[i] = b
    BY <1>2, <2>3 DEF Out, Elems
  <2>4. CASE \E x \in AppThreads : \E i \in DOMAIN freeList[x] : freeList[x][i] = b
    <3>1. PICK x \in AppThreads : b \in Elems(freeList[x])
      BY <1>2, <2>4 DEF Elems
    <3>2. b \in Own(x)
      BY <1>1, <3>1 DEF Apart
    <3>3. x = a
      BY <3>2, OwnFacts
    <3> QED BY <3>1, <3>3 DEF Out
  <2> QED BY <1>3, <2>1, <2>2, <2>3, <2>4, PlaceCases
<1>4. ASSUME Filling(a), current[a] = b PROVE <<"thread", a>> \in Places(b)
  BY <1>4 DEF Places
<1>5. ASSUME b \in Out(a) PROVE Places(b) # {}
  <2>1. CASE b \in Elems(freeList[a])
    <3>1. PICK i \in DOMAIN freeList[a] : freeList[a][i] = b
      BY <1>2, <2>1 DEF Elems
    <3>2. <<"free", a, i>> \in Places(b)
      BY <3>1 DEF Places
    <3> QED BY <3>2
  <2>2. CASE b \in Elems(fullList)
    <3>1. PICK i \in DOMAIN fullList : fullList[i] = b
      BY <1>2, <2>2 DEF Elems
    <3>2. <<"full", i>> \in Places(b)
      BY <3>1 DEF Places
    <3> QED BY <3>2
  <2>3. CASE b \in InHands
    <3>1. PICK p \in PoolThreads : Busy(p) /\ hand[p] = b
      BY <2>3 DEF InHands
    <3>2. <<"pool", p>> \in Places(b)
      BY <3>1 DEF Places, Busy
    <3> QED BY <3>2
  <2> QED BY <1>5, <2>1, <2>2, <2>3 DEF Out
<1> QED BY <1>3, <1>4, <1>5

\* A buffer is never at two places, none disappears while its thread lives, and
\* a free list holds buffers of its thread only.
THEOREM Conserved == Spec => []BuffersConserved
<1>1. IInv => BuffersConserved
  <2> SUFFICES ASSUME IInv PROVE BuffersConserved
    OBVIOUS
  <2>1. TypeOK /\ Shape /\ Apart /\ Balance
    BY DEF IInv
  <2>2. ASSUME NEW b \in Buffers PROVE Cardinality(Places(b)) <= 1
    <3>1. CASE Places(b) = {}
      <4>1. \A S : S = {} => Cardinality(S) = 0
        BY FS_EmptySet
      <4>2. Cardinality(Places(b)) = 0
        BY <3>1, <4>1
      <4> QED BY <4>2
    <3>2. CASE Places(b) # {}
      <4>1. PICK x \in Places(b) : Places(b) = {x}
        BY <3>2, OnePlace
      <4>2. Cardinality(Places(b)) = 1
        BY <4>1, FS_Singleton
      <4> QED BY <4>2
    <3> QED BY <3>1, <3>2
  <2>3. ASSUME NEW a \in AppThreads, rep[a]
        PROVE  Cardinality({b \in Buffers : Owner(b) = a /\ Places(b) # {}}) = numAllocated[a] + 1
    <3> DEFINE There == {b \in Buffers : Owner(b) = a /\ Places(b) # {}}
    <3>1. Out(a) \subseteq Own(a)
      BY <2>1 DEF Out, Apart
    <3>2. There = {b \in Own(a) : b \in Out(a) \/ (Filling(a) /\ current[a] = b)}
      <4>1. ASSUME NEW b \in There PROVE b \in Own(a)
        BY OwnFacts
      <4>2. ASSUME NEW b \in Own(a) PROVE b \in Buffers /\ Owner(b) = a
        BY OwnFacts
      <4> QED BY <4>1, <4>2, Placed
    <3> HIDE DEF There
    <3>3. CASE Filling(a)
      <4>1. current[a] \in Own(a) /\ current[a] \notin Out(a)
        BY <2>1, <3>3 DEF Shape, Filling, Out, Apart, InHands
      <4>2. There = Out(a) \cup {current[a]}
        BY <3>1, <3>2, <3>3, <4>1
      <4>3. Cardinality(There) = Cardinality(Out(a)) + 1
        BY <3>1, <4>1, <4>2, OneMore, OwnFinite
      <4>4. Given(a) = 0 /\ numAllocated[a] \in Nat
        BY <2>1, <3>3 DEF Given, Handed, Filling, TypeOK
      <4> QED BY <2>1, <4>3, <4>4 DEF Balance, There
    <3>4. CASE ~Filling(a)
      <4>1. There = Out(a)
        BY <3>1, <3>2, <3>4
      <4>2. Given(a) = 1
        BY <2>1, <2>3, <3>4 DEF Given, Handed, Filling, Shape, AppStages
      <4>3. Cardinality(Out(a)) = numAllocated[a] + 1
        BY <2>1, <4>2 DEF Balance
      <4>4. Cardinality(There) = numAllocated[a] + 1
        BY <4>1, <4>3
      <4> QED BY <4>4 DEF There
    <3> QED BY <3>3, <3>4
  <2>4. ASSUME NEW a \in AppThreads, NEW i \in DOMAIN freeList[a] PROVE Owner(freeList[a][i]) = a
    <3>1. freeList[a][i] \in Elems(freeList[a])
      BY <2>1, ElemsFacts DEF TypeOK, Elems
    <3> QED BY <2>1, <3>1, OwnFacts DEF Apart
  <2> QED BY <2>2, <2>3, <2>4 DEF BuffersConserved
<1> QED BY Invariance, <1>1, PTL
=============================================================================
