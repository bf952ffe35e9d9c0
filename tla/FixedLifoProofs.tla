--------------------------- MODULE FixedLifoProofs ---------------------------
(***************************************************************************)
(* Proofs about FixedLifo, for any number of threads, objects and elements *)
(* and any width of the counter.                                           *)
(***************************************************************************)
EXTENDS FixedLifo, SequenceTheorems, TLAPS

Lists == Queues \cup Threads

\* What a thread has while it is where it is.
InHand == {"push", "link", "pushswap"}
Stage(t) ==
    /\ hand[t] # NoElement <=> pc[t] \in InHand
    /\ lists[t] # << >> => op[t] = "move" /\ pc[t] \in InHand \cup {"drain"}
    /\ pc[t] \in {"pop", "next", "popswap"} => op[t] # "move"
    /\ pc[t] \in {"clear", "clearswap", "drain"} => op[t] = "move"
    /\ pc[t] \in {"next", "popswap"} => old[t].elem # NoElement
    /\ pc[t] = "pushswap" => next[hand[t]] = old[t].elem

\* The counter of a queue tells how often it changed since a thread loaded it,
\* and while it did not, what the thread has read is still so.
Tracked(t) == Loaded(t) =>
    /\ \/ head[Queue(t)].ctr = old[t].ctr + age[t]
       \/ head[Queue(t)].ctr = old[t].ctr + age[t] - CounterMod
    /\ age[t] = 0 => head[Queue(t)] = old[t]
    /\ age[t] = 0 /\ pc[t] = "popswap" => succ[t] = next[old[t].elem]

IInv ==
    /\ TypeOK
    /\ QueuesLinked
    /\ OnePlace
    /\ NoElementLost
    /\ \A t \in Threads : Stage(t) /\ Tracked(t)

LEMMA SeqFacts ==
    /\ << >> \in Seq(Elements) /\ Len(<< >>) = 0
    /\ \A s \in Seq(Elements) :
           /\ Len(s) \in Nat
           /\ s = << >> <=> Len(s) = 0
           /\ \A i \in 1..Len(s) : s[i] \in Elements
<1>1. \A s \in Seq(Elements) : Len(s) \in Nat /\ \A i \in 1..Len(s) : s[i] \in Elements
  BY LenProperties, ElementOfSeq
<1>2. \A s \in Seq(Elements) : s # << >> => Len(s) \in Nat \ {0}
  BY EmptySeq
<1> QED BY <1>1, <1>2, EmptySeq

LEMMA RestFacts ==
    ASSUME NEW s \in Seq(Elements), s # << >>
    PROVE  /\ Rest(s) \in Seq(Elements)
           /\ Len(Rest(s)) = Len(s) - 1
           /\ \A i \in 1..(Len(s) - 1) : Rest(s)[i] = s[i + 1]
<1>1. Len(s) \in Int /\ Len(s) >= 1 /\ \A i \in 2..Len(s) : s[i] \in Elements
  BY SeqFacts
<1>2. /\ SubSeq(s, 2, Len(s)) \in Seq(Elements)
      /\ Len(SubSeq(s, 2, Len(s))) = IF 2 <= Len(s) THEN Len(s) - 2 + 1 ELSE 0
      /\ \A i \in 1..(Len(s) - 2 + 1) : SubSeq(s, 2, Len(s))[i] = s[2 + i - 1]
  BY <1>1, SubSeqProperties
<1> QED BY <1>1, <1>2 DEF Rest

LEMMA PutFacts ==
    ASSUME NEW s \in Seq(Elements), NEW e \in Elements
    PROVE  /\ <<e>> \o s \in Seq(Elements)
           /\ Len(<<e>> \o s) = Len(s) + 1
           /\ (<<e>> \o s)[1] = e
           /\ \A i \in 1..Len(s) : (<<e>> \o s)[i + 1] = s[i]
OBVIOUS

LEMMA CounterFacts ==
    \A c \in 0..(CounterMod - 1) :
        /\ CounterNext(c) \in 0..(CounterMod - 1)
        /\ CounterNext(c) = c + 1 \/ CounterNext(c) = c + 1 - CounterMod
BY CounterAssumption DEF CounterNext

LEMMA InitIInv == Init => IInv
<1> SUFFICES ASSUME Init PROVE IInv
  OBVIOUS
<1> USE CapacityAssumption, CounterAssumption, NamesAssumption
<1>1. /\ lists["free"] = [i \in 1..Capacity |-> i]
      /\ lists["free"] \in Seq(Elements)
      /\ Len(lists["free"]) = Capacity
      /\ \A i \in 1..Capacity : lists["free"][i] = i
  BY IsASeq, LenProperties DEF Init, Queues, Elements
<1>2. \A l \in Lists : l # "free" => lists[l] = << >>
  BY DEF Init, Lists, Queues
<1>3. TypeOK
  <2>1. lists \in [Queues \cup Threads -> Seq(Elements)]
    <3>1. \A l \in Lists : lists[l] \in Seq(Elements)
      BY <1>1, <1>2, SeqFacts
    <3> QED BY <3>1 DEF Init, Lists
  <2>2. next \in [Elements -> Index]
    BY DEF Init, Index, Elements, NoElement
  <2>3. head \in [Queues -> Heads] /\ Unloaded \in Heads /\ 0 \in 0..(CounterMod - 1)
    BY DEF Init, Queues, Heads, Index, Elements, NoElement, Unloaded
  <2>4. obj \in [Elements -> Object]
    BY DEF Init
  <2> QED BY <2>1, <2>2, <2>3, <2>4 DEF Init, TypeOK, Index, Heads, Elements, NoElement, Stages, Queues, Unloaded
<1>4. QueuesLinked
  <2>1. \A q \in Queues : head[q].elem = First(lists[q])
    <3>1. lists["free"] # << >> /\ lists["free"][1] = 1
      BY <1>1, SeqFacts
    <3> QED BY <3>1, <1>2 DEF Init, First, Lists, Queues
  <2>2. \A t \in Threads : rest[t] = First(lists[t])
    BY <1>2 DEF Init, First, Lists, Queues
  <2>3. Chained(lists["free"])
    <3> SUFFICES ASSUME NEW i \in 1..Capacity
                 PROVE  next[i] = IF i < Capacity THEN lists["free"][i + 1] ELSE NoElement
      BY <1>1 DEF Chained
    <3>1. next[i] = IF i < Capacity THEN i + 1 ELSE NoElement
      BY DEF Init, Elements
    <3>2. i < Capacity => lists["free"][i + 1] = i + 1
      BY <1>1
    <3> QED BY <3>1, <3>2
  <2>4. Chained(<< >>)
    BY SeqFacts DEF Chained
  <2> QED BY <1>2, <2>1, <2>2, <2>3, <2>4 DEF QueuesLinked, Lists
<1>5. OnePlace
  <2>1. \A l \in Lists : Positions(l) # {} => l = "free"
    BY <1>2, SeqFacts DEF Positions
  <2>2. \A i \in Positions("free") : lists["free"][i] = i
    BY <1>1 DEF Positions
  <2>3. \A t \in Threads : hand[t] = NoElement
    BY DEF Init
  <2> QED BY <2>1, <2>2, <2>3 DEF OnePlace, Lists
<1>6. NoElementLost
  BY <1>1 DEF Init, NoElementLost, Positions, Elements, Queues
<1>7. \A t \in Threads : Stage(t) /\ Tracked(t)
  BY <1>2 DEF Init, Stage, Tracked, Loaded, InHand, Lists, Queues
<1> QED BY <1>3, <1>4, <1>5, <1>6, <1>7 DEF IInv
-----------------------------------------------------------------------------
LEMMA Queue1 == \A t \in Threads : PopQueue(t) \in Queues /\ PushQueue(t) \in Queues /\ Queue(t) \in Queues
BY DEF PopQueue, PushQueue, Queue, Queues

LEMMA Disjoint == \A t \in Threads, q \in Queues : t # q
BY NamesAssumption DEF Queues

\* A compare-and-swap succeeds only if nobody changed the head since the load.
LEMMA SwapFresh ==
    ASSUME IInv, NEW t \in Threads, Loaded(t), Unchanged(t, Queue(t))
    PROVE  age[t] = 0
<1>1. head[Queue(t)].ctr \in 0..(CounterMod - 1) /\ age[t] \in 0..(CounterMod - 1)
  BY Queue1 DEF IInv, TypeOK, Heads
<1>2. head[Queue(t)].ctr = old[t].ctr
  BY DEF Unchanged
<1>3. \/ head[Queue(t)].ctr = old[t].ctr + age[t]
      \/ head[Queue(t)].ctr = old[t].ctr + age[t] - CounterMod
  BY DEF IInv, Tracked
<1> QED BY <1>1, <1>2, <1>3, CounterAssumption

\* What the steps that move elements move.
LEMMA PopSwapFacts ==
    ASSUME IInv, NEW t \in Threads, PopSwap(t)
    PROVE  LET q == PopQueue(t)
               e == old[t].elem
           IN  /\ q \in Queues /\ e \in Elements
               /\ lists[q] # << >> /\ lists[q][1] = e
               /\ succ[t] = next[e]
               /\ head[q] = old[t]
               /\ hand[t] = NoElement /\ lists[t] = << >>
               /\ lists' = [lists EXCEPT ![q] = Rest(lists[q])]
               /\ head' = [head EXCEPT ![q] = [elem |-> next[e], ctr |-> CounterNext(old[t].ctr)]]
               /\ hand' = [hand EXCEPT ![t] = e]
<1> DEFINE q == PopQueue(t)
<1>1. pc[t] = "popswap" /\ Loaded(t) /\ Queue(t) = q /\ q \in Queues
  BY Queue1 DEF PopSwap, Goto, Loaded, Queue
<1>2. head[q] = old[t] /\ age[t] = 0
  BY <1>1, SwapFresh DEF PopSwap, Swap, Unchanged
<1>3. succ[t] = next[old[t].elem]
  BY <1>1, <1>2 DEF IInv, Tracked
<1>4. old[t].elem # NoElement /\ hand[t] = NoElement /\ lists[t] = << >>
  BY <1>1 DEF IInv, Stage, InHand
<1>5. old[t].elem \in Elements
  BY <1>4 DEF IInv, TypeOK, Heads, Index
<1>6. First(lists[q]) = old[t].elem
  BY <1>1, <1>2 DEF IInv, QueuesLinked
<1>7. lists[q] # << >> /\ lists[q][1] = old[t].elem
  BY <1>4, <1>6 DEF First
<1> QED BY <1>1, <1>2, <1>3, <1>4, <1>5, <1>7 DEF PopSwap, Swap

LEMMA PushSwapFacts ==
    ASSUME IInv, NEW t \in Threads, PushSwap(t)
    PROVE  LET q == PushQueue(t)
               e == hand[t]
           IN  /\ q \in Queues /\ e \in Elements
               /\ next[e] = head[q].elem
               /\ lists' = [lists EXCEPT ![q] = <<e>> \o lists[q]]
               /\ head' = [head EXCEPT ![q] = [elem |-> e, ctr |-> CounterNext(old[t].ctr)]]
               /\ hand' = [hand EXCEPT ![t] = NoElement]
<1> DEFINE q == PushQueue(t)
<1>1. pc[t] = "pushswap" /\ q \in Queues /\ head[q] = old[t]
  BY Queue1 DEF PushSwap, Goto, Swap, Unchanged
<1>2. hand[t] \in Elements /\ next[hand[t]] = old[t].elem
  BY <1>1 DEF IInv, Stage, InHand, TypeOK, Index
<1> QED BY <1>1, <1>2 DEF PushSwap, Swap

LEMMA ClearSwapFacts ==
    ASSUME IInv, NEW t \in Threads, ClearSwap(t)
    PROVE  /\ lists[t] = << >> /\ hand[t] = NoElement
           /\ head["active"].elem = old[t].elem
           /\ head' = [head EXCEPT !["active"] = [elem |-> NoElement, ctr |-> CounterNext(old[t].ctr)]]
           /\ lists' = [lists EXCEPT !["active"] = << >>, ![t] = lists["active"]]
           /\ rest' = [rest EXCEPT ![t] = old[t].elem]
BY DEF ClearSwap, Goto, Swap, Unchanged, IInv, Stage, InHand

LEMMA DrainFacts ==
    ASSUME IInv, NEW t \in Threads, Drain(t)
    PROVE  LET e == rest[t]
           IN  /\ e \in Elements
               /\ lists[t] # << >> /\ lists[t][1] = e
               /\ hand[t] = NoElement
               /\ lists' = [lists EXCEPT ![t] = Rest(lists[t])]
               /\ hand' = [hand EXCEPT ![t] = e]
               /\ rest' = [rest EXCEPT ![t] = next[e]]
<1>1. rest[t] = First(lists[t])
  BY DEF IInv, QueuesLinked
<1>2. hand[t] = NoElement
  BY DEF IInv, Stage, InHand, Drain, Goto
<1>3. rest[t] \in Elements
  BY DEF Drain, IInv, TypeOK, Index
<1>4. lists[t] # << >> /\ lists[t][1] = rest[t]
  BY <1>1 DEF Drain, First
<1> QED BY <1>2, <1>3, <1>4 DEF Drain
-----------------------------------------------------------------------------
LEMMA StepType == IInv /\ [Next]_vars => TypeOK'
<1> SUFFICES ASSUME IInv, [Next]_vars PROVE TypeOK'
  OBVIOUS
<1>0. TypeOK
  BY DEF IInv
<1> USE DEF Goto, localVars, heapVars
<1>1. CASE UNCHANGED vars
  BY <1>0, <1>1 DEF vars, TypeOK
<1>a. NoElement \in Index /\ Unloaded \in Heads /\ 0 \in 0..(CounterMod - 1)
  BY CounterAssumption DEF Index, Unloaded, Heads
<1>2. ASSUME NEW t \in Threads, NEW o \in {"push", "pop", "move"}, Call(t, o) PROVE TypeOK'
  BY <1>0, <1>2 DEF TypeOK, Call, Stages
<1>3. ASSUME NEW t \in Threads, PopEmpty(t) PROVE TypeOK'
  BY <1>0, <1>3 DEF TypeOK, PopEmpty, Stages
<1>4. ASSUME NEW t \in Threads, NEW q \in Queues, Load(t, q),
             NEW s \in Stages, pc' = [pc EXCEPT ![t] = s]
      PROVE  TypeOK'
  BY <1>0, <1>4, <1>a DEF TypeOK, Load
<1>5. ASSUME NEW t \in Threads, PopNext(t) PROVE TypeOK'
  <2>1. next[old[t].elem] \in Index
    <3>1. old[t].elem \in Elements
      BY <1>5 DEF PopNext, IInv, TypeOK, Stage, Heads, Index
    <3> QED BY <3>1, <1>0 DEF TypeOK
  <2> QED BY <1>0, <1>5, <2>1 DEF TypeOK, PopNext, Stages
<1>6. ASSUME NEW t \in Threads, NEW q \in Queues, NEW e \in Index, Swap(t, q, e)
      PROVE  /\ head' \in [Queues -> Heads] /\ age' \in [Threads -> 0..(CounterMod - 1)]
             /\ old' \in [Threads -> Heads] /\ succ' \in [Threads -> Index]
  <2>1. CounterNext(old[t].ctr) \in 0..(CounterMod - 1)
    BY <1>0, CounterFacts DEF TypeOK, Heads
  <2>2. head' \in [Queues -> Heads]
    BY <1>0, <1>6, <2>1 DEF TypeOK, Swap, Heads
  <2>3. \A u \in Threads : age'[u] \in 0..(CounterMod - 1)
    BY <1>0, <1>6, <1>a, CounterAssumption DEF TypeOK, Swap, NobodyStalls
  <2> QED BY <1>0, <1>6, <1>a, <2>2, <2>3 DEF TypeOK, Swap, Forget
<1>7. ASSUME NEW t \in Threads, PopSwap(t) PROVE TypeOK'
  <2>1. /\ succ[t] \in Index /\ PopQueue(t) \in Queues /\ Swap(t, PopQueue(t), succ[t])
    BY <1>0, <1>7, Queue1 DEF TypeOK, PopSwap
  <2>2. lists' \in [Queues \cup Threads -> Seq(Elements)] /\ hand' \in [Threads -> Index]
    <3>1. /\ PopQueue(t) \in Queues /\ old[t].elem \in Index
          /\ lists' = [lists EXCEPT ![PopQueue(t)] = Rest(lists[PopQueue(t)])]
          /\ hand' = [hand EXCEPT ![t] = old[t].elem]
          /\ lists[PopQueue(t)] # << >>
      BY <1>7, PopSwapFacts DEF Index
    <3>2. lists[PopQueue(t)] \in Seq(Elements)
      BY <1>0, <3>1 DEF TypeOK
    <3>3. Rest(lists[PopQueue(t)]) \in Seq(Elements)
      BY <3>1, <3>2, RestFacts
    <3> QED BY <1>0, <3>1, <3>3 DEF TypeOK
  <2>3. obj' \in [Elements -> Object]
    BY <1>0, <1>7 DEF TypeOK, PopSwap
  <2> QED BY <1>0, <1>6, <1>7, <2>1, <2>2, <2>3 DEF TypeOK, PopSwap, Stages
<1>8. ASSUME NEW t \in Threads, PushLink(t) PROVE TypeOK'
  BY <1>0, <1>8 DEF TypeOK, PushLink, Stages, Heads
<1>9. ASSUME NEW t \in Threads, PushSwap(t) PROVE TypeOK'
  <2>1. /\ hand[t] \in Elements /\ hand[t] \in Index /\ PushQueue(t) \in Queues
        /\ Swap(t, PushQueue(t), hand[t])
    BY <1>0, <1>9, PushSwapFacts DEF TypeOK, PushSwap
  <2>2. lists' \in [Queues \cup Threads -> Seq(Elements)]
    <3> DEFINE q == PushQueue(t)
    <3>1. lists' = [lists EXCEPT ![q] = <<hand[t]>> \o lists[q]] /\ lists[q] \in Seq(Elements)
      BY <1>0, <1>9, <2>1, PushSwapFacts DEF TypeOK
    <3>2. <<hand[t]>> \o lists[q] \in Seq(Elements)
      BY <2>1, <3>1, PutFacts
    <3> QED BY <1>0, <3>1, <3>2 DEF TypeOK
  <2>3. AfterPush(t) \in Stages
    BY DEF AfterPush, Stages
  <2> QED BY <1>0, <1>a, <1>6, <1>9, <2>1, <2>2, <2>3 DEF TypeOK, PushSwap
<1>10. ASSUME NEW t \in Threads, ClearSwap(t) PROVE TypeOK'
  <2>1. "active" \in Queues /\ Swap(t, "active", NoElement)
    BY <1>10 DEF ClearSwap, Queues
  <2>2. lists' \in [Queues \cup Threads -> Seq(Elements)]
    BY <1>0, <1>10, <2>1, SeqFacts DEF TypeOK, ClearSwap
  <2>3. rest' \in [Threads -> Index]
    BY <1>0, <1>10 DEF TypeOK, ClearSwap, Heads
  <2> QED BY <1>0, <1>a, <1>6, <1>10, <2>1, <2>2, <2>3 DEF TypeOK, ClearSwap, Stages
<1>11. ASSUME NEW t \in Threads, Drain(t) PROVE TypeOK'
  <2>1. lists' \in [Queues \cup Threads -> Seq(Elements)]
    <3>1. lists' = [lists EXCEPT ![t] = Rest(lists[t])] /\ lists[t] # << >>
      BY <1>11, DrainFacts
    <3>2. lists[t] \in Seq(Elements)
      BY <1>0 DEF TypeOK
    <3>3. Rest(lists[t]) \in Seq(Elements)
      BY <3>1, <3>2, RestFacts
    <3> QED BY <1>0, <3>1, <3>3 DEF TypeOK
  <2>2. hand' \in [Threads -> Index] /\ rest' \in [Threads -> Index]
    <3>1. rest[t] \in Elements /\ rest[t] \in Index
      BY <1>11, DrainFacts DEF Index
    <3> QED BY <1>0, <1>11, <3>1 DEF TypeOK, Drain
  <2> QED BY <1>0, <1>11, <2>1, <2>2 DEF TypeOK, Drain, Stages
<1>12. ASSUME NEW t \in Threads, DrainEnd(t) PROVE TypeOK'
  BY <1>0, <1>12 DEF TypeOK, DrainEnd, Stages
<1>13. ASSUME NEW t \in Threads, NEW from, NEW to \in Stages, Retry(t, from, to) PROVE TypeOK'
  BY <1>0, <1>13, <1>a DEF TypeOK, Retry, Forget
<1>14. ASSUME NEW t \in Threads, PopLoad(t) PROVE TypeOK'
  BY <1>4, <1>14, Queue1 DEF PopLoad, Stages
<1>15. ASSUME NEW t \in Threads, PushLoad(t) PROVE TypeOK'
  BY <1>4, <1>15, Queue1 DEF PushLoad, Stages
<1>16. ASSUME NEW t \in Threads, ClearLoad(t) PROVE TypeOK'
  BY <1>4, <1>16 DEF ClearLoad, Stages, Queues
<1> QED
  BY <1>1, <1>2, <1>3, <1>5, <1>7, <1>8, <1>9, <1>10, <1>11, <1>12, <1>13, <1>14, <1>15, <1>16
  DEF Next, Step, Stages
-----------------------------------------------------------------------------
(***************************************************************************)
(* The four ways in which elements move: the first of a list goes into a   *)
(* thread's hands, an element in hand is put on a queue, the active queue  *)
(* becomes a thread's rest, and none moves.                                *)
(***************************************************************************)
Moved == QueuesLinked' /\ OnePlace' /\ NoElementLost'

LEMMA NoneMoves ==
    ASSUME IInv, UNCHANGED <<next, lists, rest, hand>>,
           \A q \in Queues : head'[q].elem = head[q].elem
    PROVE  Moved
BY DEF IInv, Moved, QueuesLinked, OnePlace, NoElementLost, Chained, First, Positions

LEMMA TakeFirst ==
    ASSUME IInv, NEW l \in Lists, NEW t \in Threads,
           lists[l] # << >>, hand[t] = NoElement,
           lists' = [lists EXCEPT ![l] = Rest(lists[l])],
           hand' = [hand EXCEPT ![t] = lists[l][1]],
           next' = next
    PROVE  /\ OnePlace' /\ NoElementLost'
           /\ next[lists[l][1]] = First(lists'[l])
           /\ \A m \in Lists : Chained(lists[m])'
<1> DEFINE e == lists[l][1]
           n == Len(lists[l])
<1>0. /\ lists \in [Lists -> Seq(Elements)] /\ hand \in [Threads -> Index]
      /\ QueuesLinked /\ OnePlace /\ NoElementLost
  BY DEF IInv, TypeOK, Lists
<1>1. \A m \in Lists : Len(lists[m]) \in Nat
  BY <1>0, SeqFacts
<1>2. n \in Nat \ {0} /\ e \in Elements /\ e # NoElement
  <2>1. lists[l] \in Seq(Elements)
    BY <1>0
  <2> QED BY <2>1, SeqFacts DEF Elements, NoElement
<1>3. lists'[l] = Rest(lists[l]) /\ \A m \in Lists \ {l} : lists'[m] = lists[m]
  BY <1>0
<1>4. /\ Len(lists'[l]) = n - 1
      /\ \A i \in 1..(n - 1) : lists'[l][i] = lists[l][i + 1]
      /\ lists'[l] \in Seq(Elements)
  <2>1. lists[l] \in Seq(Elements)
    BY <1>0
  <2> QED BY <1>3, <2>1, RestFacts
<1>5. Chained(lists[l])
  BY <1>0 DEF QueuesLinked, Lists
<1>6. next[e] = First(lists'[l])
  <2>1. CASE n = 1
    <3>1. lists'[l] = << >>
      BY <1>4, <2>1, SeqFacts
    <3> QED BY <1>5, <2>1, <3>1 DEF Chained, First
  <2>2. CASE n > 1
    <3>1. lists'[l] # << >> /\ lists'[l][1] = lists[l][2]
      BY <1>2, <1>4, <2>2, SeqFacts
    <3> QED BY <1>2, <1>5, <2>2, <3>1 DEF Chained, First
  <2>3. n = 1 \/ n > 1
    <3>1. \A k \in Nat \ {0} : k = 1 \/ k > 1
      OBVIOUS
    <3> HIDE DEF n
    <3> QED BY <1>2, <3>1
  <2> QED BY <2>1, <2>2, <2>3
<1>7. \A m \in Lists : Chained(lists[m])'
  <2>1. Chained(lists[l])'
    BY <1>2, <1>4, <1>5 DEF Chained
  <2>2. \A m \in Lists \ {l} : Chained(lists[m])'
    BY <1>0, <1>3 DEF QueuesLinked, Chained, Lists
  <2> QED BY <2>1, <2>2 DEF Chained
<1>8. \A m \in Lists : \A i \in Positions(m)' :
          \E j \in Positions(m) : /\ lists'[m][i] = lists[m][j] 
                                  /\ j = (IF m = l THEN i + 1 ELSE i)
  BY <1>1, <1>2, <1>3, <1>4 DEF Positions
<1>9. 1 \in Positions(l)
  BY <1>2 DEF Positions
<1>10. \A m \in Lists : \A i \in Positions(m)' : lists'[m][i] # e
  BY <1>0, <1>8, <1>9 DEF OnePlace, Lists, Positions
<1>11. \A u \in Threads : u # t => hand'[u] = hand[u] /\ hand[u] # e
  BY <1>0, <1>2, <1>9 DEF OnePlace, Lists
<1>12. OnePlace'
  <2>1. ASSUME NEW m \in Lists, NEW k \in Lists, NEW i \in Positions(m)', NEW j \in Positions(k)',
               lists'[m][i] = lists'[k][j]
        PROVE  m = k /\ i = j
    <3>1. PICK a \in Positions(m) : lists'[m][i] = lists[m][a] /\ a = (IF m = l THEN i + 1 ELSE i)
      BY <1>8
    <3>2. PICK b \in Positions(k) : lists'[k][j] = lists[k][b] /\ b = (IF k = l THEN j + 1 ELSE j)
      BY <1>8
    <3>3. m = k /\ a = b
      BY <1>0, <2>1, <3>1, <3>2 DEF OnePlace, Lists
    <3>4. i \in Int /\ j \in Int
      BY DEF Positions
    <3> QED BY <3>1, <3>2, <3>3, <3>4
  <2>2. ASSUME NEW u \in Threads, hand'[u] # NoElement
        PROVE  /\ \A m \in Lists : \A i \in Positions(m)' : lists'[m][i] # hand'[u]
               /\ \A v \in Threads : hand'[v] = hand'[u] => v = u
    <3>1. CASE u = t
      BY <1>0, <1>10, <1>11, <3>1
    <3>2. CASE u # t
      BY <1>0, <1>8, <1>11, <2>2, <3>2 DEF OnePlace, Lists
    <3> QED BY <3>1, <3>2
  <2> QED BY <2>1, <2>2 DEF OnePlace, Lists
<1>13. NoElementLost'
  <2> SUFFICES ASSUME NEW f \in Elements
               PROVE  \/ \E m \in Lists : \E i \in Positions(m)' : lists'[m][i] = f
                      \/ \E u \in Threads : hand'[u] = f
    BY DEF NoElementLost, Lists
  <2>1. CASE \E u \in Threads : hand[u] = f
    <3>1. f # NoElement
      BY DEF Elements, NoElement
    <3> QED BY <2>1, <3>1, <1>11
  <2>2. ASSUME NEW m \in Lists, NEW i \in Positions(m), lists[m][i] = f
        PROVE  \/ \E k \in Lists : \E j \in Positions(k)' : lists'[k][j] = f
               \/ \E u \in Threads : hand'[u] = f
    <3>1. CASE m # l
      <4>1. i \in Positions(m)' /\ lists'[m][i] = f
        BY <1>3, <2>2, <3>1 DEF Positions
      <4> QED BY <4>1
    <3>2. CASE m = l /\ i = 1
      <4>1. hand'[t] = f
        BY <1>0, <2>2, <3>2
      <4> QED BY <4>1
    <3>3. CASE m = l /\ i # 1
      <4>1. i - 1 \in Positions(m)' /\ lists'[m][i - 1] = f
        BY <1>2, <1>4, <2>2, <3>3 DEF Positions
      <4> QED BY <4>1
    <3> QED BY <3>1, <3>2, <3>3
  <2> QED BY <1>0, <2>1, <2>2 DEF NoElementLost, Lists
<1> QED BY <1>6, <1>7, <1>12, <1>13

LEMMA PutFirst ==
    ASSUME IInv, NEW t \in Threads, PushSwap(t), NEW q, q = PushQueue(t)
    PROVE  Moved
<1> DEFINE e == hand[t]
           n == Len(lists[q])
<1>0. /\ lists \in [Lists -> Seq(Elements)] /\ hand \in [Threads -> Index]
      /\ head \in [Queues -> Heads]
      /\ QueuesLinked /\ OnePlace /\ NoElementLost
  BY DEF IInv, TypeOK, Lists
<1>1. /\ q \in Queues /\ e \in Elements /\ e # NoElement
      /\ next[e] = head[q].elem /\ next' = next /\ rest' = rest
      /\ lists' = [lists EXCEPT ![q] = <<e>> \o lists[q]]
      /\ head' = [head EXCEPT ![q] = [elem |-> e, ctr |-> CounterNext(old[t].ctr)]]
      /\ hand' = [hand EXCEPT ![t] = NoElement]
  <2>1. /\ q \in Queues /\ e \in Elements /\ next[e] = head[q].elem
        /\ lists' = [lists EXCEPT ![q] = <<e>> \o lists[q]]
        /\ head' = [head EXCEPT ![q] = [elem |-> e, ctr |-> CounterNext(old[t].ctr)]]
        /\ hand' = [hand EXCEPT ![t] = NoElement]
    BY PushSwapFacts
  <2>2. next' = next /\ rest' = rest
    BY DEF PushSwap
  <2> QED BY <2>1, <2>2 DEF Elements, NoElement
<1>2. \A m \in Lists : Len(lists[m]) \in Nat
  BY <1>0, SeqFacts
<1>3. lists'[q] = <<e>> \o lists[q] /\ \A m \in Lists \ {q} : lists'[m] = lists[m]
  BY <1>0, <1>1 DEF Lists
<1>4. /\ Len(lists'[q]) = n + 1 /\ lists'[q][1] = e
      /\ \A i \in 1..n : lists'[q][i + 1] = lists[q][i]
      /\ lists'[q] \in Seq(Elements)
  <2>1. lists[q] \in Seq(Elements)
    BY <1>0, <1>1 DEF Lists
  <2> QED BY <1>1, <1>3, <2>1, PutFacts
<1>5. n \in Nat /\ First(lists[q]) = next[e]
  BY <1>0, <1>1, <1>2 DEF QueuesLinked, Lists
<1>6. QueuesLinked'
  <2>1. \A p \in Queues : head'[p].elem = First(lists'[p])
    <3>1. First(lists'[q]) = e
      BY <1>4, <1>5, SeqFacts DEF First
    <3> QED BY <1>0, <1>1, <1>3, <3>1 DEF QueuesLinked, Lists
  <2>2. \A u \in Threads : rest'[u] = First(lists'[u])
    BY <1>0, <1>1, <1>3, Disjoint DEF QueuesLinked, Lists
  <2>3. Chained(lists[q])'
    <3>1. SUFFICES ASSUME NEW i \in 1..(n + 1)
                   PROVE  next[lists'[q][i]] = IF i < n + 1 THEN lists'[q][i + 1] ELSE NoElement
      BY <1>1, <1>4, <1>5 DEF Chained
    <3>2. CASE i = 1
      <4>1. n = 0 => lists[q] = << >>
        BY <1>0, <1>1, SeqFacts DEF Lists
      <4>2. n > 0 => lists'[q][2] = lists[q][1]
        BY <1>4, <1>5
      <4>3. n > 0 => lists[q] # << >>
        BY SeqFacts
      <4> QED BY <1>4, <1>5, <3>2, <4>1, <4>2, <4>3 DEF First
    <3>3. CASE i > 1
      <4>1. i - 1 \in 1..n /\ lists'[q][i] = lists[q][i - 1]
        BY <1>4, <1>5, <3>3
      <4>2. next[lists[q][i - 1]] = IF i - 1 < n THEN lists[q][i] ELSE NoElement
        <5>1. \A j \in 1..n : next[lists[q][j]] = IF j < n THEN lists[q][j + 1] ELSE NoElement
          BY <1>0, <1>1 DEF QueuesLinked, Chained
        <5>2. (i - 1) + 1 = i
          OBVIOUS
        <5> QED BY <4>1, <5>1, <5>2
      <4>3. i - 1 < n => lists'[q][i + 1] = lists[q][i]
        <5>1. i - 1 < n => i \in 1..n
          BY <1>5, <3>3
        <5> QED BY <1>4, <5>1
      <4> QED BY <1>5, <4>1, <4>2, <4>3
    <3> QED BY <3>2, <3>3
  <2>4. \A m \in Lists \ {q} : Chained(lists[m])'
    <3> SUFFICES ASSUME NEW m \in Lists \ {q} PROVE Chained(lists[m])'
      OBVIOUS
    <3>1. lists'[m] = lists[m] /\ Chained(lists[m])
      BY <1>0, <1>3 DEF QueuesLinked, Lists
    <3> QED BY <1>1, <3>1 DEF Chained
  <2> QED BY <1>1, <2>1, <2>2, <2>3, <2>4 DEF QueuesLinked, Lists, Chained
\* Every position of the new lists but the first of q holds what one held before.
<1>7. \A m \in Lists : \A i \in Positions(m)' :
          \/ m = q /\ i = 1 /\ lists'[m][i] = e
          \/ \E j \in Positions(m) : lists'[m][i] = lists[m][j] /\ j = (IF m = q THEN i - 1 ELSE i)
  <2> SUFFICES ASSUME NEW m \in Lists, NEW i \in Positions(m)', ~(m = q /\ i = 1)
               PROVE  \E j \in Positions(m) :
                          lists'[m][i] = lists[m][j] /\ j = (IF m = q THEN i - 1 ELSE i)
    BY <1>4
  <2>1. CASE m = q
    <3>1. i - 1 \in 1..n /\ lists'[q][i] = lists[q][i - 1]
      BY <1>4, <1>5, <2>1 DEF Positions
    <3> QED BY <2>1, <3>1 DEF Positions
  <2>2. CASE m # q
    BY <1>3, <2>2 DEF Positions
  <2> QED BY <2>1, <2>2
<1>8. \A m \in Lists : \A j \in Positions(m) : lists[m][j] # e
  BY <1>0, <1>1 DEF OnePlace, Lists
<1>9. OnePlace'
  <2>0. \A m, k \in Lists : \A a \in Positions(m), b \in Positions(k) :
            lists[m][a] = lists[k][b] => m = k /\ a = b
    BY <1>0 DEF OnePlace, Lists
  <2>1. ASSUME NEW m \in Lists, NEW k \in Lists, NEW i \in Positions(m)', NEW j \in Positions(k)',
               lists'[m][i] = lists'[k][j]
        PROVE  m = k /\ i = j
    <3>1. CASE lists'[m][i] = e
      <4>1. \A p \in Lists : \A a \in Positions(p)' : lists'[p][a] = e => p = q /\ a = 1
        BY <1>7, <1>8
      <4> QED BY <2>1, <3>1, <4>1
    <3>2. CASE lists'[m][i] # e
      <4>1. PICK a \in Positions(m) : lists'[m][i] = lists[m][a] /\ a = (IF m = q THEN i - 1 ELSE i)
        BY <1>7, <3>2
      <4>2. PICK b \in Positions(k) : lists'[k][j] = lists[k][b] /\ b = (IF k = q THEN j - 1 ELSE j)
        BY <1>7, <2>1, <3>2
      <4>3. m = k /\ a = b
        <5>1. lists[m][a] = lists[k][b]
          BY <2>1, <4>1, <4>2
        <5> QED BY <2>0, <5>1
      <4>4. i \in Int /\ j \in Int
        BY DEF Positions
      <4> QED BY <4>1, <4>2, <4>3, <4>4
    <3> QED BY <3>1, <3>2
  <2>2. ASSUME NEW u \in Threads, hand'[u] # NoElement
        PROVE  /\ \A m \in Lists : \A i \in Positions(m)' : lists'[m][i] # hand'[u]
               /\ \A v \in Threads : hand'[v] = hand'[u] => v = u
    <3>1. u # t /\ hand'[u] = hand[u]
      BY <1>0, <1>1, <2>2
    <3>2. hand[u] # e
      BY <1>0, <1>1, <2>2, <3>1 DEF OnePlace
    <3>3. \A v \in Threads : hand'[v] = hand[v] \/ hand'[v] = NoElement
      BY <1>0, <1>1
    <3>4. \A m \in Lists : \A i \in Positions(m) : lists[m][i] # hand[u]
      BY <1>0, <2>2, <3>1 DEF OnePlace, Lists
    <3>5. \A v \in Threads : hand[v] = hand[u] => v = u
      BY <1>0, <2>2, <3>1 DEF OnePlace
    <3> QED BY <1>7, <2>2, <3>1, <3>2, <3>3, <3>4, <3>5
  <2> QED BY <2>1, <2>2 DEF OnePlace, Lists
<1>10. NoElementLost'
  <2> SUFFICES ASSUME NEW f \in Elements
               PROVE  \/ \E m \in Lists : \E i \in Positions(m)' : lists'[m][i] = f
                      \/ \E u \in Threads : hand'[u] = f
    BY DEF NoElementLost, Lists
  <2>1. ASSUME NEW u \in Threads, hand[u] = f PROVE
               \/ \E m \in Lists : \E i \in Positions(m)' : lists'[m][i] = f
               \/ \E v \in Threads : hand'[v] = f
    <3>1. CASE u = t
      <4>1. q \in Lists /\ 1 \in Positions(q)' /\ lists'[q][1] = f
        BY <1>1, <1>4, <1>5, <2>1, <3>1 DEF Positions, Lists
      <4> QED BY <4>1 DEF Positions
    <3>2. CASE u # t
      <4>1. hand'[u] = f
        BY <1>0, <1>1, <2>1, <3>2
      <4> QED BY <4>1
    <3> QED BY <3>1, <3>2
  <2>2. ASSUME NEW m \in Lists, NEW i \in Positions(m), lists[m][i] = f
        PROVE  \E k \in Lists : \E j \in Positions(k)' : lists'[k][j] = f
    <3>1. CASE m # q
      <4>1. i \in Positions(m)' /\ lists'[m][i] = f
        BY <1>3, <2>2, <3>1 DEF Positions
      <4> QED BY <4>1
    <3>2. CASE m = q
      <4>1. i + 1 \in Positions(q)' /\ lists'[q][i + 1] = f
        BY <1>4, <1>5, <2>2, <3>2 DEF Positions
      <4> QED BY <3>2, <4>1 DEF Positions
    <3> QED BY <3>1, <3>2
  <2> QED BY <1>0, <2>1, <2>2 DEF NoElementLost, Lists
<1> QED BY <1>6, <1>9, <1>10 DEF Moved

LEMMA TakeList ==
    ASSUME IInv, NEW t \in Threads, ClearSwap(t)
    PROVE  Moved
<1>0. /\ lists \in [Lists -> Seq(Elements)] /\ head \in [Queues -> Heads]
      /\ rest \in [Threads -> Index]
      /\ QueuesLinked /\ OnePlace /\ NoElementLost
  BY DEF IInv, TypeOK, Lists
<1>1. /\ lists[t] = << >> /\ hand' = hand /\ next' = next
      /\ head["active"].elem = old[t].elem
      /\ head' = [head EXCEPT !["active"] = [elem |-> NoElement, ctr |-> CounterNext(old[t].ctr)]]
      /\ lists' = [lists EXCEPT !["active"] = << >>, ![t] = lists["active"]]
      /\ rest' = [rest EXCEPT ![t] = old[t].elem]
  BY ClearSwapFacts DEF ClearSwap
<1>2. "active" \in Queues /\ "active" \in Lists /\ t # "active" /\ t \in Lists
  BY Disjoint DEF Queues, Lists
<1>3. /\ lists'["active"] = << >> /\ lists'[t] = lists["active"]
      /\ \A m \in Lists \ {t, "active"} : lists'[m] = lists[m]
  BY <1>0, <1>1, <1>2
<1>4. QueuesLinked'
  <2>1. \A p \in Queues : head'[p].elem = First(lists'[p])
    <3>1. \A p \in Queues \ {"active"} : p \in Lists \ {t, "active"} /\ head'[p] = head[p]
      BY <1>0, <1>1, Disjoint DEF Lists
    <3>2. head'["active"].elem = First(lists'["active"])
      BY <1>0, <1>1, <1>2, <1>3 DEF First
    <3> QED BY <1>0, <1>3, <3>1, <3>2 DEF QueuesLinked
  <2>2. \A u \in Threads : rest'[u] = First(lists'[u])
    <3>1. \A u \in Threads \ {t} : u \in Lists \ {t, "active"} /\ rest'[u] = rest[u]
      BY <1>0, <1>1, <1>2, Disjoint DEF Lists
    <3>2. rest'[t] = First(lists'[t])
      BY <1>0, <1>1, <1>2, <1>3 DEF QueuesLinked
    <3> QED BY <1>0, <1>3, <3>1, <3>2 DEF QueuesLinked
  <2>3. \A m \in Lists : Chained(lists[m])'
    <3>2. Chained(<< >>)
      BY SeqFacts DEF Chained
    <3>3. \A m \in Lists : Chained(lists[m])
      BY <1>0 DEF QueuesLinked, Lists
    <3>4. \A m \in Lists : Chained(lists'[m])
      BY <1>2, <1>3, <3>2, <3>3
    <3> QED BY <1>1, <3>4 DEF Chained
  <2> QED BY <2>1, <2>2, <2>3 DEF QueuesLinked, Lists
<1>5. Len(<< >>) = 0
  BY SeqFacts
\* Every position of the new lists holds what one held before, and conversely.
<1> DEFINE was(m) == IF m = t THEN "active" ELSE m
           now(m) == IF m = "active" THEN t ELSE m
<1>8. \A m \in Lists : \A i \in 1..Len(lists'[m]) :
          was(m) \in Lists /\ m = now(was(m)) /\ i \in 1..Len(lists[was(m)]) /\ lists'[m][i] = lists[was(m)][i]
  BY <1>2, <1>3, <1>5
<1>9. \A m \in Lists : \A i \in 1..Len(lists[m]) :
          now(m) \in Lists /\ i \in 1..Len(lists'[now(m)]) /\ lists'[now(m)][i] = lists[m][i]
  <2> SUFFICES ASSUME NEW m \in Lists, NEW i \in 1..Len(lists[m])
               PROVE  /\ now(m) \in Lists /\ i \in 1..Len(lists'[now(m)])
                      /\ lists'[now(m)][i] = lists[m][i]
    OBVIOUS
  <2>1. m # t
    BY <1>1, <1>5
  <2> QED BY <1>2, <1>3, <2>1
<1>6. OnePlace'
  <2>1. ASSUME NEW m \in Lists, NEW k \in Lists, NEW i \in 1..Len(lists'[m]), NEW j \in 1..Len(lists'[k]),
               lists'[m][i] = lists'[k][j]
        PROVE  m = k /\ i = j
    <3>1. /\ was(m) \in Lists /\ m = now(was(m))
          /\ i \in 1..Len(lists[was(m)]) /\ lists'[m][i] = lists[was(m)][i]
      BY <1>8
    <3>2. /\ was(k) \in Lists /\ k = now(was(k))
          /\ j \in 1..Len(lists[was(k)]) /\ lists'[k][j] = lists[was(k)][j]
      BY <1>8
    <3> HIDE DEF was, now
    <3>3. was(m) = was(k) /\ i = j
      <4>1. lists[was(m)][i] = lists[was(k)][j]
        BY <2>1, <3>1, <3>2
      <4>2. \A p, q \in Lists : \A a \in 1..Len(lists[p]), b \in 1..Len(lists[q]) :
                lists[p][a] = lists[q][b] => p = q /\ a = b
        BY <1>0 DEF OnePlace, Lists, Positions
      <4> QED BY <3>1, <3>2, <4>1, <4>2
    <3> QED BY <3>1, <3>2, <3>3
  <2>2. \A u \in Threads : hand[u] # NoElement =>
            \A m \in Lists : \A i \in 1..Len(lists'[m]) : lists'[m][i] # hand[u]
    <3> HIDE DEF was, now
    <3> QED BY <1>0, <1>8 DEF OnePlace, Lists, Positions
  <2>3. \A u, v \in Threads : hand[u] # NoElement /\ hand[v] = hand[u] => v = u
    BY <1>0 DEF OnePlace
  <2>4. hand' = hand
    BY <1>1
  <2>5. \A m, k \in Lists : \A i \in 1..Len(lists'[m]), j \in 1..Len(lists'[k]) :
            lists'[m][i] = lists'[k][j] => m = k /\ i = j
    BY <2>1
  <2> QED BY <2>2, <2>3, <2>4, <2>5 DEF OnePlace, Lists, Positions
<1>7. NoElementLost'
  <2> HIDE DEF was, now
  <2> SUFFICES ASSUME NEW f \in Elements
               PROVE  \/ \E m \in Lists : \E i \in 1..Len(lists'[m]) : lists'[m][i] = f
                      \/ \E u \in Threads : hand'[u] = f
    BY DEF NoElementLost, Lists, Positions
  <2>1. \/ \E m \in Lists : \E i \in 1..Len(lists[m]) : lists[m][i] = f
        \/ \E u \in Threads : hand[u] = f
    BY <1>0 DEF NoElementLost, Lists, Positions
  <2>2. hand' = hand
    BY <1>1
  <2>3. ASSUME NEW m \in Lists, NEW i \in 1..Len(lists[m]), lists[m][i] = f
        PROVE  \E k \in Lists : \E j \in 1..Len(lists'[k]) : lists'[k][j] = f
    BY <1>9, <2>3
  <2> QED BY <2>1, <2>2, <2>3
<1> QED BY <1>4, <1>6, <1>7 DEF Moved

LEMMA StepMoved == IInv /\ [Next]_vars => Moved
<1> SUFFICES ASSUME IInv, [Next]_vars PROVE Moved
  OBVIOUS
<1>0. TypeOK
  BY DEF IInv
<1> USE DEF Goto, localVars, heapVars
<1>1. CASE UNCHANGED vars
  BY <1>1, NoneMoves DEF vars
<1>2. ASSUME NEW t \in Threads, NEW o, Call(t, o) PROVE Moved
  BY <1>2, NoneMoves DEF Call
<1>3. ASSUME NEW t \in Threads, PopEmpty(t) PROVE Moved
  BY <1>3, NoneMoves DEF PopEmpty
<1>4. ASSUME NEW t \in Threads, PopLoad(t) \/ PushLoad(t) \/ ClearLoad(t) PROVE Moved
  BY <1>4, NoneMoves DEF PopLoad, PushLoad, ClearLoad, Load
<1>5. ASSUME NEW t \in Threads, PopNext(t) PROVE Moved
  BY <1>5, NoneMoves DEF PopNext
<1>6. ASSUME NEW t \in Threads, DrainEnd(t) PROVE Moved
  BY <1>6, NoneMoves DEF DrainEnd
<1>7. ASSUME NEW t \in Threads, NEW from, NEW to, Retry(t, from, to) PROVE Moved
  BY <1>7, NoneMoves DEF Retry
<1>8. ASSUME NEW t \in Threads, PopSwap(t) PROVE Moved
  <2> PICK q \in Queues : q = PopQueue(t)
    BY Queue1
  <2>1. /\ lists[q] # << >> /\ lists[q][1] = old[t].elem /\ hand[t] = NoElement
        /\ lists' = [lists EXCEPT ![q] = Rest(lists[q])]
        /\ head' = [head EXCEPT ![q] = [elem |-> next[old[t].elem], ctr |-> CounterNext(old[t].ctr)]]
        /\ hand' = [hand EXCEPT ![t] = old[t].elem]
    BY <1>8, PopSwapFacts
  <2>2. next' = next /\ rest' = rest
    BY <1>8 DEF PopSwap
  <2>3. q \in Lists
    BY DEF Lists
  <2>4. /\ OnePlace' /\ NoElementLost'
        /\ next[lists[q][1]] = First(lists'[q]) /\ \A m \in Lists : Chained(lists[m])'
    BY <2>1, <2>2, <2>3, TakeFirst
  <2>5. \A p \in Queues : head'[p].elem = First(lists'[p])
    BY <1>0, <2>1, <2>4 DEF TypeOK, IInv, QueuesLinked
  <2>6. \A u \in Threads : rest'[u] = First(lists'[u])
    BY <1>0, <2>1, <2>2, Disjoint DEF TypeOK, IInv, QueuesLinked
  <2> QED BY <2>4, <2>5, <2>6 DEF Moved, QueuesLinked, Lists, Chained
<1>9. ASSUME NEW t \in Threads, PushSwap(t) PROVE Moved
  BY <1>9, PutFirst
<1>10. ASSUME NEW t \in Threads, ClearSwap(t) PROVE Moved
  BY <1>10, TakeList
<1>11. ASSUME NEW t \in Threads, Drain(t) PROVE Moved
  <2>1. /\ lists[t] # << >> /\ lists[t][1] = rest[t] /\ hand[t] = NoElement
        /\ lists' = [lists EXCEPT ![t] = Rest(lists[t])]
        /\ hand' = [hand EXCEPT ![t] = rest[t]]
        /\ rest' = [rest EXCEPT ![t] = next[rest[t]]]
    BY <1>11, DrainFacts
  <2>2. next' = next /\ head' = head
    BY <1>11 DEF Drain
  <2>3. t \in Lists
    BY DEF Lists
  <2>4. /\ OnePlace' /\ NoElementLost'
        /\ next[lists[t][1]] = First(lists'[t]) /\ \A m \in Lists : Chained(lists[m])'
    BY <2>1, <2>2, <2>3, TakeFirst
  <2>5. \A p \in Queues : head'[p].elem = First(lists'[p])
    BY <1>0, <2>1, <2>2, Disjoint DEF TypeOK, IInv, QueuesLinked
  <2>6. \A u \in Threads : rest'[u] = First(lists'[u])
    BY <1>0, <2>1, <2>4 DEF TypeOK, IInv, QueuesLinked
  <2> QED BY <2>4, <2>5, <2>6 DEF Moved, QueuesLinked, Lists, Chained
<1>12. ASSUME NEW t \in Threads, PushLink(t) PROVE Moved
  <2>1. /\ hand[t] # NoElement /\ next' = [next EXCEPT ![hand[t]] = old[t].elem]
        /\ UNCHANGED <<head, lists, rest, hand>>
    BY <1>12 DEF PushLink, IInv, Stage, InHand
  <2>2. \A m \in Lists : \A i \in Positions(m) : lists[m][i] \in Elements /\ lists[m][i] # hand[t]
    BY <1>0, <2>1, SeqFacts DEF TypeOK, Positions, IInv, OnePlace, Lists
  <2>3. \A m \in Lists : \A i \in Positions(m) : next'[lists[m][i]] = next[lists[m][i]]
    BY <1>0, <2>1, <2>2 DEF TypeOK
  <2>4. \A m \in Lists : Chained(lists[m])'
    BY <2>1, <2>3 DEF Chained, Positions, IInv, QueuesLinked, Lists
  <2>5. QueuesLinked'
    BY <2>1, <2>4 DEF IInv, QueuesLinked, Lists, Chained
  <2>6. OnePlace' /\ NoElementLost'
    BY <2>1 DEF IInv, OnePlace, NoElementLost, Positions
  <2> QED BY <2>5, <2>6 DEF Moved
<1> QED
  BY <1>1, <1>2, <1>3, <1>4, <1>5, <1>6, <1>7, <1>8, <1>9, <1>10, <1>11, <1>12 DEF Next, Step
-----------------------------------------------------------------------------
LEMMA StepStage == IInv /\ [Next]_vars => \A t \in Threads : Stage(t)'
<1> SUFFICES ASSUME IInv, [Next]_vars, NEW u \in Threads PROVE Stage(u)'
  OBVIOUS
<1>0. TypeOK /\ \A v \in Threads : Stage(v)
  BY DEF IInv
<1> USE DEF Goto, localVars, heapVars
<1>1. CASE UNCHANGED vars
  BY <1>0, <1>1 DEF vars, Stage
\* What another thread does to the link of the element in hand.
<1>a. ASSUME NEW t \in Threads, t # u, lists'[u] = lists[u],
             pc'[u] = pc[u], op'[u] = op[u], old'[u] = old[u], hand'[u] = hand[u],
             next' = next \/ next' = [next EXCEPT ![hand[t]] = old[t].elem]
      PROVE  Stage(u)'
  <2>1. pc[u] = "pushswap" => next'[hand[u]] = next[hand[u]]
    <3>1. pc[u] = "pushswap" => hand[u] \in Elements
      BY <1>0 DEF Stage, InHand, TypeOK, Index
    <3>2. pc[u] = "pushswap" => hand[t] # hand[u]
      BY <1>0, <1>a DEF Stage, InHand, IInv, OnePlace
    <3> QED BY <1>0, <1>a, <3>1, <3>2 DEF TypeOK
  <2> QED BY <1>0, <1>a, <2>1 DEF Stage
<1>2. ASSUME NEW t \in Threads, NEW o \in {"push", "pop", "move"}, Call(t, o) PROVE Stage(u)'
  BY <1>0, <1>2 DEF TypeOK, Call, Stage, InHand
<1>3. ASSUME NEW t \in Threads, PopEmpty(t) PROVE Stage(u)'
  BY <1>0, <1>3 DEF TypeOK, PopEmpty, Stage, InHand
<1>4. ASSUME NEW t \in Threads, PopLoad(t) PROVE Stage(u)'
  BY <1>0, <1>4 DEF TypeOK, PopLoad, Load, Stage, InHand
<1>5. ASSUME NEW t \in Threads, PushLoad(t) PROVE Stage(u)'
  BY <1>0, <1>5 DEF TypeOK, PushLoad, Load, Stage, InHand
<1>6. ASSUME NEW t \in Threads, ClearLoad(t) PROVE Stage(u)'
  BY <1>0, <1>6 DEF TypeOK, ClearLoad, Load, Stage, InHand
<1>7. ASSUME NEW t \in Threads, PopNext(t) PROVE Stage(u)'
  BY <1>0, <1>7 DEF TypeOK, PopNext, Stage, InHand
<1>8. ASSUME NEW t \in Threads, DrainEnd(t) PROVE Stage(u)'
  <2>1. lists[t] = << >>
    <3> SUFFICES ASSUME lists[t] # << >> PROVE FALSE
      OBVIOUS
    <3>1. lists[t] \in Seq(Elements) /\ rest[t] = lists[t][1] /\ rest[t] = NoElement
      BY <1>0, <1>8 DEF IInv, QueuesLinked, First, DrainEnd, TypeOK
    <3>2. 1 \in 1..Len(lists[t])
      BY <3>1, SeqFacts
    <3>3. lists[t][1] \in Elements
      BY <3>1, <3>2, SeqFacts
    <3> QED BY <3>1, <3>3 DEF Elements, NoElement
  <2> QED BY <1>0, <1>8, <2>1 DEF TypeOK, DrainEnd, Stage, InHand
<1>9. ASSUME NEW t \in Threads, Retry(t, "popswap", "pop") \/ Retry(t, "pushswap", "push")
                                \/ Retry(t, "clearswap", "clear")
      PROVE  Stage(u)'
  BY <1>0, <1>9 DEF TypeOK, Retry, Forget, Stage, InHand
<1>10. ASSUME NEW t \in Threads, PopSwap(t) PROVE Stage(u)'
  <2>1. /\ PopQueue(t) \in Queues /\ old[t].elem \in Elements /\ lists[t] = << >>
        /\ lists' = [lists EXCEPT ![PopQueue(t)] = Rest(lists[PopQueue(t)])]
        /\ hand' = [hand EXCEPT ![t] = old[t].elem]
    BY <1>10, PopSwapFacts
  <2>2. lists'[u] = lists[u]
    BY <1>0, <2>1, Disjoint DEF TypeOK
  <2>3. old[t].elem # NoElement
    BY <2>1 DEF Elements, NoElement
  <2>4. CASE u = t
    BY <1>0, <1>10, <2>1, <2>2, <2>3, <2>4 DEF TypeOK, PopSwap, Stage, InHand
  <2>5. CASE u # t
    <3>1. /\ pc'[u] = pc[u] /\ op'[u] = op[u] /\ old'[u] = old[u] /\ hand'[u] = hand[u]
          /\ next' = next
      BY <1>0, <1>10, <2>5 DEF TypeOK, PopSwap, Swap, Forget
    <3> QED BY <1>a, <2>2, <2>5, <3>1
  <2> QED BY <2>4, <2>5
<1>11. ASSUME NEW t \in Threads, PushLink(t) PROVE Stage(u)'
  <2>1. CASE u = t
    <3>1. hand[t] \in Elements
      BY <1>0, <1>11 DEF PushLink, Stage, InHand, TypeOK, Index
    <3> QED BY <1>0, <1>11, <2>1, <3>1 DEF TypeOK, PushLink, Stage, InHand
  <2>2. CASE u # t
    BY <1>0, <1>11, <1>a, <2>2 DEF TypeOK, PushLink
  <2> QED BY <2>1, <2>2
<1>12. ASSUME NEW t \in Threads, PushSwap(t) PROVE Stage(u)'
  <2>1. /\ PushQueue(t) \in Queues
        /\ lists' = [lists EXCEPT ![PushQueue(t)] = <<hand[t]>> \o lists[PushQueue(t)]]
    BY <1>12, PushSwapFacts
  <2>2. lists'[u] = lists[u]
    BY <1>0, <2>1, Disjoint DEF TypeOK
  <2>4. CASE u = t
    BY <1>0, <1>12, <2>2, <2>4 DEF TypeOK, PushSwap, Stage, InHand, AfterPush
  <2>5. CASE u # t
    <3>1. /\ pc'[u] = pc[u] /\ op'[u] = op[u] /\ old'[u] = old[u] /\ hand'[u] = hand[u]
          /\ next' = next
      BY <1>0, <1>12, <2>5 DEF TypeOK, PushSwap, Swap, Forget
    <3> QED BY <1>a, <2>2, <2>5, <3>1
  <2> QED BY <2>4, <2>5
<1>13. ASSUME NEW t \in Threads, ClearSwap(t) PROVE Stage(u)'
  <2>4. CASE u = t
    BY <1>0, <1>13, <2>4 DEF TypeOK, ClearSwap, Stage, InHand
  <2>5. CASE u # t
    <3>1. /\ pc'[u] = pc[u] /\ op'[u] = op[u] /\ old'[u] = old[u] /\ hand'[u] = hand[u]
          /\ next' = next
      BY <1>0, <1>13, <2>5 DEF TypeOK, ClearSwap, Swap, Forget
    <3>2. lists'[u] = lists[u]
      BY <1>0, <1>13, <2>5, Disjoint DEF TypeOK, ClearSwap, Queues
    <3> QED BY <1>a, <2>5, <3>1, <3>2
  <2> QED BY <2>4, <2>5
<1>14. ASSUME NEW t \in Threads, Drain(t) PROVE Stage(u)'
  <2>1. lists' = [lists EXCEPT ![t] = Rest(lists[t])] /\ rest[t] # NoElement
    BY <1>14 DEF Drain
  <2>4. CASE u = t
    BY <1>0, <1>14, <2>1, <2>4 DEF TypeOK, Drain, Stage, InHand
  <2>5. CASE u # t
    BY <1>0, <1>14, <2>1, <2>5 DEF TypeOK, Drain, Stage, InHand
  <2> QED BY <2>4, <2>5
<1> QED
  BY <1>1, <1>2, <1>3, <1>4, <1>5, <1>6, <1>7, <1>8, <1>9, <1>10, <1>11, <1>12, <1>13, <1>14
  DEF Next, Step

LEMMA StepTracked == IInv /\ [Next]_vars => \A t \in Threads : Tracked(t)'
<1> SUFFICES ASSUME IInv, [Next]_vars, NEW u \in Threads PROVE Tracked(u)'
  OBVIOUS
<1>0. TypeOK /\ Tracked(u) /\ Stage(u)
  BY DEF IInv
<1> USE DEF Goto, localVars, heapVars
<1>1. CASE UNCHANGED vars
  BY <1>0, <1>1 DEF vars, Tracked, Loaded, Queue, PopQueue, PushQueue
\* Steps that change no head, and nothing u has loaded.
<1>a. ASSUME head' = head, pc'[u] = pc[u], op'[u] = op[u], old'[u] = old[u], succ'[u] = succ[u],
             age'[u] = age[u],
             pc[u] = "popswap" /\ age[u] = 0 => next'[old[u].elem] = next[old[u].elem]
      PROVE  Tracked(u)'
  BY <1>0, <1>a DEF Tracked, Loaded, Queue, PopQueue, PushQueue
\* A load; it reads the head of the queue it is about to change.
<1>b. ASSUME NEW q \in Queues, Load(u, q), Loaded(u)', pc'[u] # "popswap", Queue(u)' = q
      PROVE  Tracked(u)'
  <2>1. old'[u] = head[q] /\ age'[u] = 0 /\ head' = head
    BY <1>0, <1>b DEF Load, TypeOK
  <2>2. head[q].ctr \in Int
    BY <1>0, <1>b DEF TypeOK, Heads
  <2> QED BY <1>b, <2>1, <2>2 DEF Tracked
\* A change of a head, by another thread.
<1>c. ASSUME NEW t \in Threads, t # u, NEW q \in Queues, NEW e, Swap(t, q, e),
             pc'[u] = pc[u], op'[u] = op[u], next' = next
      PROVE  Tracked(u)'
  <2>0. /\ old'[u] = old[u] /\ succ'[u] = succ[u]
        /\ age'[u] = (IF Loaded(u) /\ Queue(u) = q THEN age[u] + 1 ELSE age[u])
        /\ head'[q].ctr = CounterNext(head[q].ctr)
        /\ \A p \in Queues \ {q} : head'[p] = head[p]
        /\ Loaded(u)' = Loaded(u) /\ Queue(u)' = Queue(u)
    BY <1>0, <1>c DEF TypeOK, Swap, Forget, Unchanged, Loaded, Queue, PopQueue, PushQueue
  <2>1. CASE ~Loaded(u)
    BY <2>0, <2>1 DEF Tracked
  <2>2. CASE Loaded(u) /\ Queue(u) # q
    BY <1>0, <1>c, <2>0, <2>2, Queue1 DEF Tracked
  <2>3. CASE Loaded(u) /\ Queue(u) = q
    <3>1. /\ age[u] \in Nat /\ age'[u] = age[u] + 1 /\ age[u] + 1 < CounterMod
          /\ head[q].ctr \in 0..(CounterMod - 1) /\ old[u].ctr \in 0..(CounterMod - 1)
      BY <1>0, <1>c, <2>0, <2>3 DEF TypeOK, Heads, Swap, NobodyStalls
    <3>2. \/ head[q].ctr = old[u].ctr + age[u]
          \/ head[q].ctr = old[u].ctr + age[u] - CounterMod
      BY <1>0, <2>3 DEF Tracked
    <3>3. \/ head'[q].ctr = head[q].ctr + 1
          \/ head'[q].ctr = head[q].ctr + 1 - CounterMod
      BY <2>0, <3>1, CounterFacts
    <3>4. CounterNext(head[q].ctr) \in 0..(CounterMod - 1)
      BY <3>1, CounterFacts
    <3>5. \/ head'[q].ctr = old'[u].ctr + age'[u]
          \/ head'[q].ctr = old'[u].ctr + age'[u] - CounterMod
      BY <2>0, <3>1, <3>2, <3>3, <3>4, CounterAssumption
    <3> QED BY <2>0, <2>3, <3>1, <3>5 DEF Tracked
  <2> QED BY <2>1, <2>2, <2>3
<1>2. ASSUME NEW t \in Threads, NEW o \in {"push", "pop", "move"}, Call(t, o) PROVE Tracked(u)'
  <2>1. CASE u = t
    BY <1>0, <1>2, <2>1 DEF TypeOK, Call, Tracked, Loaded
  <2>2. CASE u # t
    BY <1>0, <1>2, <1>a, <2>2 DEF TypeOK, Call
  <2> QED BY <2>1, <2>2
<1>3. ASSUME NEW t \in Threads, PopEmpty(t) PROVE Tracked(u)'
  <2>1. CASE u = t
    BY <1>0, <1>3, <2>1 DEF TypeOK, PopEmpty, Tracked, Loaded
  <2>2. CASE u # t
    BY <1>0, <1>3, <1>a, <2>2 DEF TypeOK, PopEmpty
  <2> QED BY <2>1, <2>2
<1>4. ASSUME NEW t \in Threads, PopLoad(t) PROVE Tracked(u)'
  <2>1. CASE u = t
    BY <1>0, <1>4, <1>b, <2>1, Queue1 DEF TypeOK, PopLoad, Loaded, Queue, PopQueue, Load
  <2>2. CASE u # t
    BY <1>0, <1>4, <1>a, <2>2 DEF TypeOK, PopLoad, Load
  <2> QED BY <2>1, <2>2
<1>5. ASSUME NEW t \in Threads, PushLoad(t) PROVE Tracked(u)'
  <2>1. CASE u = t
    BY <1>0, <1>5, <1>b, <2>1, Queue1 DEF TypeOK, PushLoad, Loaded, Queue, PushQueue, Load
  <2>2. CASE u # t
    BY <1>0, <1>5, <1>a, <2>2 DEF TypeOK, PushLoad, Load
  <2> QED BY <2>1, <2>2
<1>6. ASSUME NEW t \in Threads, ClearLoad(t) PROVE Tracked(u)'
  <2>1. CASE u = t
    <3>1. op[u] = "move" /\ op' = op
      BY <1>0, <1>6, <2>1 DEF ClearLoad, Load, Stage
    <3>2. "active" \in Queues /\ Load(u, "active") /\ pc'[u] = "clearswap"
      BY <1>0, <1>6, <2>1 DEF ClearLoad, TypeOK, Queues
    <3> QED BY <1>b, <3>1, <3>2 DEF Loaded, Queue, PopQueue
  <2>2. CASE u # t
    BY <1>0, <1>6, <1>a, <2>2 DEF TypeOK, ClearLoad, Load
  <2> QED BY <2>1, <2>2
<1>7. ASSUME NEW t \in Threads, PopNext(t) PROVE Tracked(u)'
  <2>1. CASE u = t
    BY <1>0, <1>7, <2>1 DEF TypeOK, PopNext, Tracked, Loaded, Queue, PopQueue
  <2>2. CASE u # t
    BY <1>0, <1>7, <1>a, <2>2 DEF TypeOK, PopNext
  <2> QED BY <2>1, <2>2
<1>8. ASSUME NEW t \in Threads, DrainEnd(t) PROVE Tracked(u)'
  <2>1. CASE u = t
    BY <1>0, <1>8, <2>1 DEF TypeOK, DrainEnd, Tracked, Loaded
  <2>2. CASE u # t
    BY <1>0, <1>8, <1>a, <2>2 DEF TypeOK, DrainEnd
  <2> QED BY <2>1, <2>2
<1>9. ASSUME NEW t \in Threads, Retry(t, "popswap", "pop") \/ Retry(t, "pushswap", "push")
                                \/ Retry(t, "clearswap", "clear")
      PROVE  Tracked(u)'
  <2>1. CASE u = t
    BY <1>0, <1>9, <2>1 DEF TypeOK, Retry, Tracked, Loaded
  <2>2. CASE u # t
    BY <1>0, <1>9, <1>a, <2>2 DEF TypeOK, Retry, Forget
  <2> QED BY <2>1, <2>2
<1>10. ASSUME NEW t \in Threads, PopSwap(t) PROVE Tracked(u)'
  <2>1. CASE u = t
    BY <1>0, <1>10, <2>1 DEF TypeOK, PopSwap, Tracked, Loaded
  <2>2. CASE u # t
    BY <1>0, <1>10, <1>c, <2>2, Queue1 DEF TypeOK, PopSwap
  <2> QED BY <2>1, <2>2
<1>11. ASSUME NEW t \in Threads, PushLink(t) PROVE Tracked(u)'
  <2>1. CASE u = t
    BY <1>0, <1>11, <2>1 DEF TypeOK, PushLink, Tracked, Loaded, Queue, PushQueue
  <2>2. CASE u # t
    <3>1. pc[u] = "popswap" /\ age[u] = 0 => next'[old[u].elem] = next[old[u].elem]
      <4> SUFFICES ASSUME pc[u] = "popswap", age[u] = 0
                   PROVE  next'[old[u].elem] = next[old[u].elem]
        OBVIOUS
      <4> DEFINE q == Queue(u)
      <4>1. Loaded(u) /\ q \in Queues /\ head[q] = old[u] /\ old[u].elem # NoElement
        BY <1>0, Queue1 DEF Loaded, Tracked, Stage
      <4>2. lists[q] # << >> /\ lists[q][1] = old[u].elem
        BY <4>1 DEF IInv, QueuesLinked, First
      <4>3. 1 \in Positions(q) /\ old[u].elem \in Elements
        BY <1>0, <4>1, <4>2, SeqFacts DEF Positions, TypeOK
      <4>4. hand[t] # NoElement
        BY <1>11 DEF PushLink, IInv, Stage, InHand
      <4>5. hand[t] # old[u].elem
        BY <4>1, <4>2, <4>3, <4>4 DEF IInv, OnePlace
      <4> QED BY <1>0, <1>11, <4>3, <4>5 DEF TypeOK, PushLink
    <3> QED BY <1>0, <1>11, <1>a, <2>2, <3>1 DEF TypeOK, PushLink
  <2> QED BY <2>1, <2>2
<1>12. ASSUME NEW t \in Threads, PushSwap(t) PROVE Tracked(u)'
  <2>1. CASE u = t
    BY <1>0, <1>12, <2>1 DEF TypeOK, PushSwap, Tracked, Loaded, AfterPush
  <2>2. CASE u # t
    BY <1>0, <1>12, <1>c, <2>2, Queue1 DEF TypeOK, PushSwap
  <2> QED BY <2>1, <2>2
<1>13. ASSUME NEW t \in Threads, ClearSwap(t) PROVE Tracked(u)'
  <2>1. CASE u = t
    BY <1>0, <1>13, <2>1 DEF TypeOK, ClearSwap, Tracked, Loaded
  <2>2. CASE u # t
    BY <1>0, <1>13, <1>c, <2>2 DEF TypeOK, ClearSwap, Queues
  <2> QED BY <2>1, <2>2
<1>14. ASSUME NEW t \in Threads, Drain(t) PROVE Tracked(u)'
  <2>1. CASE u = t
    BY <1>0, <1>14, <2>1 DEF TypeOK, Drain, Tracked, Loaded
  <2>2. CASE u # t
    BY <1>0, <1>14, <1>a, <2>2 DEF TypeOK, Drain
  <2> QED BY <2>1, <2>2
<1> QED
  BY <1>1, <1>2, <1>3, <1>4, <1>5, <1>6, <1>7, <1>8, <1>9, <1>10, <1>11, <1>12, <1>13, <1>14
  DEF Next, Step

LEMMA StepIInv == IInv /\ [Next]_vars => IInv'
BY StepType, StepMoved, StepStage, StepTracked DEF IInv, Moved, Stage, Tracked

LEMMA Invariant == Spec => []IInv
BY InitIInv, StepIInv, PTL DEF Spec

(* Every variable keeps its type; in particular a thread that does not stall  *)
(* for CounterMod changes keeps the counters apart (lifo-ctr.hpp:62).         *)
THEOREM TypeCorrect == Spec => []TypeOK
BY Invariant, PTL DEF IInv

(* Memory and history agree whatever the interleaving: no compare-and-swap    *)
(* succeeds with a link that another thread has changed since (the A-B-A case *)
(* of lifo-ctr.hpp:49), and the drained list of MoveToContainer stays whole.  *)
THEOREM LinksCorrect == Spec => []QueuesLinked
BY Invariant, PTL DEF IInv

(* No element is ever in two places, so no two threads store into it.         *)
THEOREM ElementsApart == Spec => []OnePlace
BY Invariant, PTL DEF IInv

(* No element is lost: the capacity of the queue is never reduced.            *)
THEOREM ElementsKept == Spec => []NoElementLost
BY Invariant, PTL DEF IInv
-----------------------------------------------------------------------------
(***************************************************************************)
(* The refinement: each compare-and-swap that succeeds is one step of the  *)
(* bounded stack, every other step is none.                                *)
(***************************************************************************)
LEMMA InitStack == Init => Abstract!Init
<1> SUFFICES ASSUME Init PROVE Abstract!Init
  OBVIOUS
<1>1. /\ lists["active"] = << >> /\ Len(lists["active"]) = 0
      /\ lists["free"] = [i \in 1..Capacity |-> i] /\ Len(lists["free"]) = Capacity
      /\ \A t \in Threads : lists[t] = << >> /\ hand[t] = NoElement
  BY SeqFacts, CapacityAssumption, NamesAssumption DEF Init, Queues
<1>2. ListElements("free") = Elements
  BY <1>1 DEF ListElements, Positions, Elements
<1>3. \A t \in Threads : ListElements(t) = {}
  <2> TAKE t \in Threads
  <2>1. Positions(t) = {}
    BY <1>1, SeqFacts DEF Positions
  <2> QED BY <2>1 DEF ListElements
<1>4. Objects = << >>
  BY <1>1 DEF Objects
<1>5. Reserved = {} /\ Taken = {}
  BY <1>1, <1>3 DEF Reserved, Taken, Holders
<1> QED BY <1>2, <1>4, <1>5 DEF Abstract!Init

Pairs == Elements \X Object

StackTyped ==
    /\ Objects \in Seq(Pairs)
    /\ Len(Objects) = Len(lists["active"]) /\ Len(Objects) \in Nat
    /\ \A i \in 1..Len(Objects) : Objects[i] = <<lists["active"][i], obj[lists["active"][i]]>>

LEMMA ObjectsFacts == TypeOK => StackTyped
<1> SUFFICES ASSUME TypeOK PROVE StackTyped
  OBVIOUS
<1>1. lists["active"] \in Seq(Elements)
  BY DEF TypeOK, Queues
<1>2. Len(lists["active"]) \in Nat /\ \A i \in 1..Len(lists["active"]) : lists["active"][i] \in Elements
  BY <1>1, SeqFacts
<1>3. \A i \in 1..Len(lists["active"]) : Filled(lists["active"][i]) \in Pairs
  BY <1>2 DEF Filled, Pairs, TypeOK
<1>4. Objects \in Seq(Pairs)
  BY <1>2, <1>3, IsASeq DEF Objects
<1>5. Len(Objects) = Len(lists["active"])
  BY <1>2, <1>4, LenProperties DEF Objects
<1> QED BY <1>2, <1>4, <1>5 DEF Objects, StackTyped, Filled

LEMMA ObjectsFactsNext == TypeOK' => StackTyped'
BY ObjectsFacts, PTL

\* The objects on the stack do not change while the active queue and what is
\* stored in its elements do not.
LEMMA ObjectsStay ==
    ASSUME TypeOK, TypeOK', lists'["active"] = lists["active"],
           \A i \in 1..Len(lists["active"]) : obj'[lists["active"][i]] = obj[lists["active"][i]]
    PROVE  Objects' = Objects
BY DEF Objects, Filled

LEMMA FirstLeaves ==
    ASSUME IInv, NEW l \in Lists, lists[l] # << >>,
           lists' = [lists EXCEPT ![l] = Rest(lists[l])]
    PROVE  /\ lists[l][1] \in ListElements(l)
           /\ ListElements(l)' = ListElements(l) \ {lists[l][1]}
           /\ \A m \in Lists \ {l} : ListElements(m)' = ListElements(m)
<1> DEFINE n == Len(lists[l])
<1>1. lists \in [Lists -> Seq(Elements)] /\ lists[l] \in Seq(Elements) /\ OnePlace
  BY DEF IInv, TypeOK, Lists
<1>2. n \in Nat \ {0}
  BY <1>1, SeqFacts
<1>3. /\ lists'[l] = Rest(lists[l]) /\ Len(lists'[l]) = n - 1
      /\ \A i \in 1..(n - 1) : lists'[l][i] = lists[l][i + 1]
  BY <1>1, RestFacts
<1>4. \A i \in 1..n : lists[l][i] = lists[l][1] => i = 1
  BY <1>1, <1>2 DEF OnePlace, Lists, Positions
<1>5. ListElements(l)' = {lists[l][i + 1] : i \in 1..(n - 1)}
  BY <1>3 DEF ListElements, Positions
<1>6. \A x : x \in ListElements(l)' <=> x \in ListElements(l) \ {lists[l][1]}
  <2>1. ASSUME NEW i \in 1..(n - 1) PROVE lists[l][i + 1] \in ListElements(l) \ {lists[l][1]}
    <3>1. i + 1 \in 1..n /\ i + 1 # 1
      BY <1>2
    <3> QED BY <1>4, <3>1 DEF ListElements, Positions
  <2>2. ASSUME NEW i \in 1..n, lists[l][i] # lists[l][1]
        PROVE  \E j \in 1..(n - 1) : lists[l][i] = lists[l][j + 1]
    <3>1. i - 1 \in 1..(n - 1) /\ (i - 1) + 1 = i
      BY <1>2, <2>2
    <3> QED BY <3>1
  <2> QED BY <1>5, <2>1, <2>2 DEF ListElements, Positions
<1>7. \A m \in Lists \ {l} : ListElements(m)' = ListElements(m)
  BY <1>1 DEF ListElements, Positions
<1>8. lists[l][1] \in ListElements(l)
  BY <1>2 DEF ListElements, Positions
<1> QED BY <1>6, <1>7, <1>8

LEMMA FirstArrives ==
    ASSUME IInv, NEW l \in Lists, NEW e \in Elements,
           lists' = [lists EXCEPT ![l] = <<e>> \o lists[l]]
    PROVE  /\ ListElements(l)' = ListElements(l) \cup {e}
           /\ \A m \in Lists \ {l} : ListElements(m)' = ListElements(m)
<1> DEFINE n == Len(lists[l])
<1>1. lists \in [Lists -> Seq(Elements)] /\ lists[l] \in Seq(Elements)
  BY DEF IInv, TypeOK, Lists
<1>2. n \in Nat
  BY <1>1, SeqFacts
<1>3. /\ lists'[l] = <<e>> \o lists[l] /\ Len(lists'[l]) = n + 1 /\ lists'[l][1] = e
      /\ \A i \in 1..n : lists'[l][i + 1] = lists[l][i]
  BY <1>1, PutFacts
<1>4. \A x : x \in ListElements(l)' <=> x \in ListElements(l) \cup {e}
  <2>1. ASSUME NEW i \in 1..(n + 1) PROVE lists'[l][i] \in ListElements(l) \cup {e}
    <3>1. CASE i = 1
      BY <1>3, <3>1
    <3>2. CASE i # 1
      <4>1. i - 1 \in 1..n /\ (i - 1) + 1 = i
        BY <1>2, <3>2
      <4>2. lists'[l][i] = lists[l][i - 1]
        BY <1>3, <4>1
      <4> QED BY <4>1, <4>2 DEF ListElements, Positions
    <3> QED BY <3>1, <3>2
  <2>2. \A i \in 1..n : lists[l][i] \in ListElements(l)'
    <3> TAKE i \in 1..n
    <3>1. i + 1 \in 1..Len(lists'[l]) /\ lists'[l][i + 1] = lists[l][i]
      BY <1>2, <1>3
    <3> QED BY <3>1 DEF ListElements, Positions
  <2>3. e \in ListElements(l)'
    BY <1>2, <1>3 DEF ListElements, Positions
  <2> QED BY <1>3, <2>1, <2>2, <2>3 DEF ListElements, Positions
<1>5. \A m \in Lists \ {l} : ListElements(m)' = ListElements(m)
  BY <1>1 DEF ListElements, Positions
<1> QED BY <1>4, <1>5

LEMMA StepStack == IInv /\ [Next]_vars => [Abstract!Next]_<<Objects, ListElements("free"), Reserved, Taken>>
<1> SUFFICES ASSUME IInv, [Next]_vars
             PROVE  [Abstract!Next]_<<Objects, ListElements("free"), Reserved, Taken>>
  OBVIOUS
<1> DEFINE Stutter == UNCHANGED <<Objects, ListElements("free"), Reserved, Taken>>
<1>0. TypeOK /\ TypeOK' /\ OnePlace /\ \A v \in Threads : Stage(v)
  BY StepType DEF IInv
<1> USE DEF Goto, localVars, heapVars
<1>a. "free" \in Lists /\ "active" \in Lists /\ "free" \in Queues /\ "active" \in Queues
      /\ \A t \in Threads : t \in Lists /\ t # "free" /\ t # "active"
  BY Disjoint DEF Lists, Queues
\* A thread's hand and the lists never share an element.
<1>b. ASSUME NEW t \in Threads, hand[t] # NoElement
      PROVE  /\ \A l \in Lists : hand[t] \notin ListElements(l)
             /\ \A v \in Threads : hand[v] = hand[t] => v = t
  BY <1>0, <1>b DEF OnePlace, ListElements, Lists
<1>c. \A l, m \in Lists : l # m => ListElements(l) \cap ListElements(m) = {}
  BY <1>0 DEF OnePlace, ListElements, Lists
\* Steps that move no element.
<1>d. ASSUME UNCHANGED <<lists, hand, obj>>, \A v \in Threads : hand[v] # NoElement => op'[v] = op[v]
      PROVE  Stutter
  <2>1. \A l \in Lists : ListElements(l)' = ListElements(l)
    BY <1>d DEF ListElements, Positions
  <2>2. Objects' = Objects
    BY <1>d DEF Objects, Filled
  <2>3. Reserved' = Reserved
    BY <1>d DEF Reserved, Holders, Filled
  <2>4. Taken' = Taken
    BY <1>a, <1>d, <2>1 DEF Taken, Holders
  <2> QED BY <1>a, <2>1, <2>2, <2>3, <2>4
<1>1. CASE UNCHANGED vars
  BY <1>1, <1>d DEF vars
<1>2. ASSUME NEW t \in Threads, NEW o, Call(t, o) PROVE Stutter
  <2>1. hand[t] = NoElement
    BY <1>0, <1>2 DEF Call, Stage, InHand
  <2> QED BY <1>0, <1>2, <1>d, <2>1 DEF Call, TypeOK
<1>3. ASSUME NEW t \in Threads, PopEmpty(t) \/ PopLoad(t) \/ PushLoad(t) \/ ClearLoad(t) \/ PopNext(t)
                                \/ PushLink(t) \/ DrainEnd(t)
      PROVE  Stutter
  BY <1>3, <1>d DEF PopEmpty, PopLoad, PushLoad, ClearLoad, PopNext, PushLink, DrainEnd, Load
<1>4. ASSUME NEW t \in Threads, NEW from, NEW to, Retry(t, from, to) PROVE Stutter
  BY <1>4, <1>d DEF Retry
<1>5. ASSUME NEW t \in Threads, PopSwap(t) PROVE Abstract!Next
  <2> DEFINE e == old[t].elem
  <2>0. /\ e \in Elements /\ hand[t] = NoElement /\ hand' = [hand EXCEPT ![t] = e] /\ op' = op
        /\ op[t] \in {"push", "pop"} /\ e # NoElement
    BY <1>0, <1>5, PopSwapFacts DEF PopSwap, Stage, TypeOK, Elements, NoElement
  <2>1. /\ Holders' = Holders \cup {t} /\ hand'[t] = e /\ t \notin Holders
        /\ \A v \in Holders : v # t /\ hand'[v] = hand[v] /\ hand[v] # e
    <3>1. \A v \in Holders : hand[v] # e
      <4>1. e \in ListElements(PopQueue(t)) /\ PopQueue(t) \in Lists
        BY <1>5, PopSwapFacts, FirstLeaves DEF Lists
      <4> QED BY <1>b, <4>1 DEF Holders
    <3> QED BY <1>0, <2>0, <3>1 DEF Holders, TypeOK
  <2>2. CASE op[t] = "push"
    <3>1. /\ lists["free"] # << >> /\ lists["free"][1] = e
          /\ lists' = [lists EXCEPT !["free"] = Rest(lists["free"])]
      BY <1>5, <2>2, PopSwapFacts DEF PopQueue
    <3>2. PICK o \in Object : obj' = [obj EXCEPT ![e] = o]
      BY <1>5, <2>2 DEF PopSwap
    <3>3. /\ e \in ListElements("free") /\ ListElements("free")' = ListElements("free") \ {e}
          /\ \A m \in Lists \ {"free"} : ListElements(m)' = ListElements(m)
      BY <1>a, <3>1, FirstLeaves
    <3>4. \A f \in Elements : f # e => Filled(f)' = Filled(f)
      BY <1>0, <3>2 DEF Filled, TypeOK
    <3>5. Objects' = Objects
      <4>1. lists'["active"] = lists["active"]
        BY <1>0, <1>a, <3>1 DEF TypeOK
      <4>2. \A i \in 1..Len(lists["active"]) : lists["active"][i] \in ListElements("active")
        BY DEF ListElements, Positions
      <4>3. e \notin ListElements("active")
        BY <1>a, <1>c, <3>3
      <4>4. \A i \in 1..Len(lists["active"]) : obj'[lists["active"][i]] = obj[lists["active"][i]]
        BY <1>0, <1>a, <3>2, <4>2, <4>3, SeqFacts DEF TypeOK, Lists
      <4> QED BY <1>0, <4>1, <4>4, ObjectsStay
    <3>6. Reserved' = Reserved \cup {<<e, o>>}
      <4>1. <<e, o>> = Filled(hand[t])'
        BY <1>0, <2>0, <2>1, <3>2 DEF Filled, TypeOK
      <4>2. \A v \in Holders : Filled(hand[v])' = Filled(hand[v])
        BY <1>0, <2>1, <3>2 DEF Filled, TypeOK, Holders, Index
      <4> QED BY <2>0, <2>1, <2>2, <4>1, <4>2 DEF Reserved
    <3>7. Taken' = Taken
      <4>1. \A v \in Threads : ListElements(v)' = ListElements(v)
        BY <1>a, <3>3
      <4> QED BY <2>0, <2>1, <2>2, <4>1 DEF Taken
    <3> QED BY <2>0, <3>3, <3>5, <3>6, <3>7 DEF Abstract!Next, Abstract!Reserve
  <2>3. CASE op[t] = "pop"
    <3>1. /\ lists["active"] # << >> /\ lists["active"][1] = e
          /\ lists' = [lists EXCEPT !["active"] = Rest(lists["active"])]
      BY <1>5, <2>3, PopSwapFacts DEF PopQueue
    <3>2. obj' = obj
      BY <1>5, <2>3 DEF PopSwap
    <3>3. \A m \in Lists \ {"active"} : ListElements(m)' = ListElements(m)
      BY <1>a, <3>1, FirstLeaves
    <3>4. Objects # << >> /\ Objects' = Tail(Objects) /\ Objects[1][1] = e
      <4>1. /\ Objects \in Seq(Pairs) /\ Objects' \in Seq(Pairs)
            /\ Len(Objects) = Len(lists["active"]) /\ Len(Objects') = Len(lists'["active"])
            /\ \A i \in 1..Len(Objects) : Objects[i] = <<lists["active"][i], obj[lists["active"][i]]>>
            /\ \A i \in 1..Len(Objects') : Objects'[i] = <<lists'["active"][i], obj[lists'["active"][i]]>>
        BY <1>0, <3>2, ObjectsFacts, ObjectsFactsNext DEF StackTyped
      <4>2. /\ Len(lists'["active"]) = Len(lists["active"]) - 1
            /\ \A i \in 1..(Len(lists["active"]) - 1) : lists'["active"][i] = lists["active"][i + 1]
            /\ Len(lists["active"]) \in Nat \ {0}
        BY <1>0, <1>a, <3>1, RestFacts, SeqFacts DEF TypeOK
      <4>3. Objects # << >> /\ Objects[1][1] = e
        BY <3>1, <4>1, <4>2, EmptySeq
      <4>4. /\ Tail(Objects) \in Seq(Pairs) /\ Len(Tail(Objects)) = Len(Objects) - 1
            /\ \A i \in 1..Len(Tail(Objects)) : Tail(Objects)[i] = Objects[i + 1]
        BY <4>1, <4>3, HeadTailProperties
      <4>5. \A i \in 1..Len(Objects') : Objects'[i] = Tail(Objects)[i]
        <5> TAKE i \in 1..Len(Objects')
        <5>1. i \in 1..Len(Tail(Objects)) /\ i + 1 \in 1..Len(Objects) /\ i \in 1..(Len(lists["active"]) - 1)
          BY <4>1, <4>2, <4>4
        <5> QED BY <4>1, <4>2, <4>4, <5>1
      <4> QED BY <4>1, <4>2, <4>3, <4>4, <4>5, SeqEqual
    <3>5. Reserved' = Reserved
      BY <2>0, <2>1, <2>3, <3>2 DEF Reserved, Filled
    <3>6. Taken' = Taken \cup {e}
      <4>1. \A v \in Threads : ListElements(v)' = ListElements(v)
        BY <1>a, <3>3
      <4> QED BY <2>0, <2>1, <2>3, <4>1 DEF Taken
    <3> QED BY <1>a, <3>3, <3>4, <3>5, <3>6 DEF Abstract!Next, Abstract!Pop
  <2> QED BY <2>0, <2>2, <2>3
<1>6. ASSUME NEW t \in Threads, PushSwap(t) PROVE Abstract!Next
  <2> DEFINE e == hand[t]
  <2>0. /\ e \in Elements /\ e # NoElement /\ hand' = [hand EXCEPT ![t] = NoElement]
        /\ op' = op /\ obj' = obj
    <3>1. e \in Elements /\ hand' = [hand EXCEPT ![t] = NoElement]
      BY <1>6, PushSwapFacts
    <3>2. op' = op /\ obj' = obj
      BY <1>6 DEF PushSwap
    <3> QED BY <3>1, <3>2 DEF Elements, NoElement
  <2>1. /\ t \in Holders /\ Holders' = Holders \ {t}
        /\ \A v \in Holders \ {t} : hand'[v] = hand[v] /\ hand[v] # e
    BY <1>0, <1>b, <2>0 DEF Holders, TypeOK
  <2>2. CASE op[t] = "push"
    <3>1. lists' = [lists EXCEPT !["active"] = <<e>> \o lists["active"]]
      BY <1>6, <2>2, PushSwapFacts DEF PushQueue
    <3>2. \A m \in Lists \ {"active"} : ListElements(m)' = ListElements(m)
      BY <1>a, <2>0, <3>1, FirstArrives
    <3>3. Filled(e) \in Reserved /\ Reserved' = Reserved \ {Filled(e)}
      BY <2>0, <2>1, <2>2 DEF Reserved, Filled
    <3>4. Taken' = Taken
      <4>1. \A v \in Threads : ListElements(v)' = ListElements(v)
        BY <1>a, <3>2
      <4> QED BY <2>0, <2>1, <2>2, <4>1 DEF Taken
    <3>5. Objects' = <<Filled(e)>> \o Objects
      <4>1. /\ Objects \in Seq(Pairs) /\ Objects' \in Seq(Pairs)
            /\ Len(Objects) = Len(lists["active"]) /\ Len(Objects') = Len(lists'["active"])
            /\ \A i \in 1..Len(Objects) : Objects[i] = <<lists["active"][i], obj[lists["active"][i]]>>
            /\ \A i \in 1..Len(Objects') : Objects'[i] = <<lists'["active"][i], obj[lists'["active"][i]]>>
        BY <1>0, <2>0, ObjectsFacts, ObjectsFactsNext DEF StackTyped
      <4>2. /\ Len(lists["active"]) \in Nat /\ Len(lists'["active"]) = Len(lists["active"]) + 1
            /\ lists'["active"][1] = e
            /\ \A i \in 1..Len(lists["active"]) : lists'["active"][i + 1] = lists["active"][i]
        <5>1. lists["active"] \in Seq(Elements) /\ lists'["active"] = <<e>> \o lists["active"]
          BY <1>0, <1>a, <3>1 DEF TypeOK
        <5> QED BY <2>0, <5>1, PutFacts, SeqFacts
      <4> DEFINE p == Filled(e)
      <4>3. p \in Pairs
        BY <1>0, <2>0 DEF Filled, Pairs, TypeOK
      <4> HIDE DEF p
      <4>4. /\ <<p>> \o Objects \in Seq(Pairs) /\ Len(<<p>> \o Objects) = 1 + Len(Objects)
            /\ \A i \in 1..(1 + Len(Objects)) :
                   (<<p>> \o Objects)[i] = IF i <= 1 THEN p ELSE Objects[i - 1]
        <5>1. <<p>> \in Seq(Pairs) /\ Len(<<p>>) = 1 /\ <<p>>[1] = p
          BY <4>3
        <5>2. /\ <<p>> \o Objects \in Seq(Pairs) /\ Len(<<p>> \o Objects) = Len(<<p>>) + Len(Objects)
              /\ \A i \in 1..(Len(<<p>>) + Len(Objects)) :
                     (<<p>> \o Objects)[i] = IF i <= Len(<<p>>) THEN <<p>>[i] ELSE Objects[i - Len(<<p>>)]
          BY <4>1, <5>1, ConcatProperties
        <5> QED BY <4>1, <4>2, <5>1, <5>2
      <4>5. \A i \in 1..Len(Objects') : Objects'[i] = (<<p>> \o Objects)[i]
        <5> TAKE i \in 1..Len(Objects')
        <5>1. CASE i = 1
          <6>1. Objects'[1] = p
            BY <4>1, <4>2, <5>1 DEF p, Filled
          <6>2. (<<p>> \o Objects)[1] = p
            BY <4>1, <4>2, <4>4
          <6> QED BY <5>1, <6>1, <6>2
        <5>2. CASE i # 1
          <6>1. i - 1 \in 1..Len(Objects) /\ (i - 1) + 1 = i /\ ~(i <= 1) /\ i \in 1..(1 + Len(Objects))
            BY <4>1, <4>2, <5>2
          <6>2. lists'["active"][i] = lists["active"][i - 1]
            BY <4>1, <4>2, <6>1
          <6> QED BY <4>1, <4>4, <6>1, <6>2
        <5> QED BY <5>1, <5>2
      <4>6. Len(Objects') = Len(<<p>> \o Objects)
        BY <4>1, <4>2, <4>4
      <4>7. Objects' = <<p>> \o Objects
        BY <4>1, <4>4, <4>5, <4>6, SeqEqual
      <4> QED BY <4>7 DEF p
    <3>6. ListElements("free")' = ListElements("free")
      BY <1>a, <3>2
    <3>7. obj[e] \in Object
      BY <1>0, <2>0 DEF TypeOK
    <3> QED BY <2>0, <3>3, <3>4, <3>5, <3>6, <3>7 DEF Abstract!Next, Abstract!Push, Filled
  <2>3. CASE op[t] # "push"
    <3>1. lists' = [lists EXCEPT !["free"] = <<e>> \o lists["free"]]
      BY <1>6, <2>3, PushSwapFacts DEF PushQueue
    <3>2. /\ ListElements("free")' = ListElements("free") \cup {e}
          /\ \A m \in Lists \ {"free"} : ListElements(m)' = ListElements(m)
      BY <1>a, <2>0, <3>1, FirstArrives
    <3>3. Objects' = Objects
      <4>1. lists'["active"] = lists["active"]
        BY <1>0, <1>a, <3>1 DEF TypeOK
      <4> QED BY <1>0, <2>0, <4>1, ObjectsStay
    <3>4. Reserved' = Reserved
      BY <2>0, <2>1, <2>3 DEF Reserved, Filled
    <3>5. e \in Taken /\ Taken' = Taken \ {e}
      <4>1. \A v \in Threads : ListElements(v)' = ListElements(v) /\ e \notin ListElements(v)
        BY <1>a, <1>b, <2>0, <3>2
      <4> QED BY <2>0, <2>1, <2>3, <4>1 DEF Taken
    <3> QED BY <2>0, <3>2, <3>3, <3>4, <3>5 DEF Abstract!Next, Abstract!Release
  <2> QED BY <2>2, <2>3
<1>7. ASSUME NEW t \in Threads, ClearSwap(t) PROVE Abstract!Next
  <2>0. /\ lists' = [lists EXCEPT !["active"] = << >>, ![t] = lists["active"]] /\ lists[t] = << >>
        /\ hand' = hand /\ op' = op /\ obj' = obj
    BY <1>7, ClearSwapFacts DEF ClearSwap
  <2>1. /\ lists'["active"] = << >> /\ lists'[t] = lists["active"]
        /\ \A m \in Lists \ {t, "active"} : lists'[m] = lists[m]
    BY <1>0, <1>a, <2>0 DEF TypeOK, Lists
  <2>2. Objects' = << >>
    <3>1. Objects' \in Seq(Pairs) /\ Len(Objects') = 0
      BY <1>0, <2>1, ObjectsFactsNext, SeqFacts DEF StackTyped
    <3> QED BY <3>1, EmptySeq
  <2>3. /\ ListElements(t)' = ListElements("active") /\ ListElements(t) = {}
        /\ \A m \in Lists \ {t, "active"} : ListElements(m)' = ListElements(m)
    <3>1. Positions(t) = {}
      BY <2>0, SeqFacts DEF Positions
    <3> QED BY <2>1, <3>1 DEF ListElements, Positions
  <2>4. Reserved' = Reserved
    BY <2>0 DEF Reserved, Holders, Filled
  <2>5. {Objects[i][1] : i \in DOMAIN Objects} = ListElements("active")
    <3>1. DOMAIN Objects = Positions("active")
      BY DEF Objects, Positions
    <3>2. \A i \in Positions("active") : Objects[i][1] = lists["active"][i]
      BY DEF Objects, Positions, Filled
    <3> QED BY <3>1, <3>2 DEF ListElements
  <2>6. Taken' = Taken \cup ListElements("active")
    <3>1. \A v \in Threads \ {t} : ListElements(v)' = ListElements(v)
      BY <1>a, <2>3
    <3> QED BY <2>0, <2>3, <3>1 DEF Taken, Holders
  <2> QED BY <1>a, <2>2, <2>3, <2>4, <2>5, <2>6 DEF Abstract!Next, Abstract!TakeAll
<1>8. ASSUME NEW t \in Threads, Drain(t) PROVE Stutter
  <2> DEFINE e == rest[t]
  <2>0. /\ e \in Elements /\ e # NoElement /\ lists[t] # << >> /\ lists[t][1] = e
        /\ hand[t] = NoElement /\ hand' = [hand EXCEPT ![t] = e] /\ op[t] = "move"
        /\ lists' = [lists EXCEPT ![t] = Rest(lists[t])] /\ op' = op /\ obj' = obj
    BY <1>0, <1>8, DrainFacts DEF Drain, Elements, NoElement, Stage
  <2>1. /\ e \in ListElements(t) /\ ListElements(t)' = ListElements(t) \ {e}
        /\ \A m \in Lists \ {t} : ListElements(m)' = ListElements(m)
    BY <1>a, <2>0, FirstLeaves
  <2>2. /\ Holders' = Holders \cup {t} /\ hand'[t] = e /\ t \notin Holders
        /\ \A v \in Holders : v # t /\ hand'[v] = hand[v]
    BY <1>0, <2>0 DEF Holders, TypeOK
  <2>3. Objects' = Objects
    <3>1. lists'["active"] = lists["active"]
      BY <1>0, <1>a, <2>0 DEF TypeOK
    <3> QED BY <1>0, <2>0, <3>1, ObjectsStay
  <2>4. Reserved' = Reserved
    BY <2>0, <2>2 DEF Reserved, Filled
  <2>5. Taken' = Taken
    <3>1. \A v \in Threads \ {t} : ListElements(v)' = ListElements(v)
      BY <1>a, <2>1
    <3> QED BY <2>0, <2>1, <2>2, <3>1 DEF Taken
  <2> QED BY <1>a, <2>1, <2>3, <2>4, <2>5
<1> QED
  BY <1>1, <1>2, <1>3, <1>4, <1>5, <1>6, <1>7, <1>8 DEF Next, Step

(* Whatever the threads do, clients see one stack of at most Capacity objects *)
(* in which no object is lost, doubled, reordered or overwritten.             *)
THEOREM BoundedStackImplemented == Spec => IsBoundedStack
BY Invariant, InitStack, StepStack, PTL DEF Spec, IsBoundedStack, Abstract!Spec, Abstract!vars
=============================================================================
