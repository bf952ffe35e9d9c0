------------------------------ MODULE FixedLifo ------------------------------
(***************************************************************************)
(* FIXED_LIFO: a lock-free stack of objects in preallocated elements, made *)
(* of two queues LIFO_CTR that share one heap of elements: the active one  *)
(* holds the objects, the free one the unused elements.  A queue is a word *)
(* with the index of its first element and a modification counter; the     *)
(* elements are linked by their _next fields.  Every access to a shared    *)
(* word is a step of its own, and a compare-and-swap that fails goes back  *)
(* to the load.                                                            *)
(***************************************************************************)
EXTENDS Naturals, Sequences

CONSTANTS
    Threads,
    Object,      \* what clients push
    Capacity,    \* number of preallocated elements
    CounterMod   \* 2^CounterBits

ASSUME CapacityAssumption == Capacity \in Nat \ {0}
ASSUME CounterAssumption == CounterMod \in Nat \ {0, 1}
ASSUME NamesAssumption == Threads \cap {"active", "free"} = {}

Elements == 1..Capacity
NoElement == 0
Queues == {"active", "free"}

VARIABLES
    head,   \* _head of each queue: index of an element and counter
    next,   \* _next of every element
    obj,    \* _obj of every element
    pc,     \* where a thread is in its call
    op,     \* the call: push, pop or move (MoveToContainer)
    old,    \* the head it loaded (oldHead)
    succ,   \* the _next it read there
    hand,   \* the element in its hands
    rest,   \* MoveToContainer: the elements it has still to free
    lists,  \* history: the elements of each queue and of each thread's rest
    age     \* history: changes of the queue's head since a thread loaded it

heapVars == <<head, next, obj, lists>>
localVars == <<op, old, succ, hand, rest>>
vars == <<heapVars, localVars, pc, age>>

Unloaded == [elem |-> NoElement, ctr |-> 0]

\* ClearNonAtomic: all elements are free, each linked to the one after it.
Init ==
    /\ head = [q \in Queues |-> [elem |-> IF q = "free" THEN 1 ELSE NoElement, ctr |-> 0]]
    /\ next = [e \in Elements |-> IF e < Capacity THEN e + 1 ELSE NoElement]
    /\ \E v \in Object : obj = [e \in Elements |-> v]
    /\ pc = [t \in Threads |-> "idle"]
    /\ op = [t \in Threads |-> "push"]
    /\ old = [t \in Threads |-> Unloaded]
    /\ succ = [t \in Threads |-> NoElement]
    /\ hand = [t \in Threads |-> NoElement]
    /\ rest = [t \in Threads |-> NoElement]
    /\ lists = [l \in Queues \cup Threads |->
                   IF l = "free" THEN [i \in 1..Capacity |-> i] ELSE << >>]
    /\ age = [t \in Threads |-> 0]
-----------------------------------------------------------------------------
Goto(t, from, to) == pc[t] = from /\ pc' = [pc EXCEPT ![t] = to]

\* FIXED_LIFO pops from one queue and pushes on the other.
PopQueue(t) == IF op[t] = "push" THEN "free" ELSE "active"
PushBack(t) == "active"
PushQueue(t) == IF op[t] = "push" THEN "active" ELSE "free"

\* The queue whose head a thread has loaded and is about to change.
Queue(t) == IF pc[t] \in {"link", "pushswap"} THEN PushQueue(t) ELSE PopQueue(t)
Loaded(t) == pc[t] \in {"next", "popswap", "link", "pushswap", "clearswap"}

\* A client's thread calls Push, Pop or MoveToContainer.
Call(t, o) ==
    /\ Goto(t, "idle", IF o = "move" THEN "clear" ELSE "pop")
    /\ op' = [op EXCEPT ![t] = o]
    /\ UNCHANGED <<heapVars, old, succ, hand, rest, age>>

\* The load that starts each round of LIFO_CTR's loops.
Load(t, q) ==
    /\ old' = [old EXCEPT ![t] = head[q]]
    /\ age' = [age EXCEPT ![t] = 0]
    /\ UNCHANGED <<heapVars, op, succ, hand, rest>>

\* Pop finds the queue empty: FIXED_LIFO::Push and Pop return FALSE.
PopEmpty(t) ==
    /\ head[PopQueue(t)].elem = NoElement
    /\ Goto(t, "pop", "idle")
    /\ UNCHANGED <<heapVars, localVars, age>>
PopLoad(t) ==
    /\ head[PopQueue(t)].elem # NoElement
    /\ Goto(t, "pop", "next")
    /\ Load(t, PopQueue(t))

\* Pop reads element->_next, although another thread may own the element now.
PopNext(t) ==
    /\ Goto(t, "next", "popswap")
    /\ succ' = [succ EXCEPT ![t] = next[old[t].elem]]
    /\ UNCHANGED <<heapVars, op, old, hand, rest, age>>

CounterStuck(c) == c
CounterWide(c) == c + 1
CounterNext(c) == IF c + 1 = CounterMod THEN 0 ELSE c + 1

\* A thread that has loaded the head of q must go on before the others change
\* it CounterMod times (lifo-ctr.hpp:68): the assumption of the algorithm.
NobodyStalls(t, q) ==
    \A u \in Threads \ {t} : Loaded(u) /\ Queue(u) = q => age[u] + 1 < CounterMod

\* What a thread has loaded is of no use after the compare-and-swap.
Forget(t) == old' = [old EXCEPT ![t] = Unloaded] /\ succ' = [succ EXCEPT ![t] = NoElement]

PlainStore(t, q) == TRUE
Unchanged(t, q) == head[q] = old[t]
Retry(t, from, to) ==
    /\ ~Unchanged(t, Queue(t))
    /\ Goto(t, from, to)
    /\ Forget(t)
    /\ age' = [age EXCEPT ![t] = 0]
    /\ UNCHANGED <<heapVars, op, hand, rest>>

\* CompareAndDidSwap succeeds: e is the new first element of q.
Swap(t, q, e) ==
    /\ Unchanged(t, q) /\ NobodyStalls(t, q)
    /\ head' = [head EXCEPT ![q] = [elem |-> e, ctr |-> CounterNext(old[t].ctr)]]
    /\ age' = [u \in Threads |-> IF u = t THEN 0
                                 ELSE IF Loaded(u) /\ Queue(u) = q THEN age[u] + 1 ELSE age[u]]
    /\ Forget(t)

Rest(s) == SubSeq(s, 2, Len(s))

\* Pop succeeds. The element is in the hands of the thread, which stores the
\* object it pushes into it, or takes its object out.
PopSwap(t) ==
    /\ Goto(t, "popswap", "push")
    /\ LET q == PopQueue(t) IN
           /\ Swap(t, q, succ[t])
           /\ lists' = [lists EXCEPT ![q] = Rest(@)]
    /\ hand' = [hand EXCEPT ![t] = old[t].elem]
    /\ IF op[t] = "push" THEN \E v \in Object : obj' = [obj EXCEPT ![old[t].elem] = v]
                        ELSE UNCHANGED obj
    /\ UNCHANGED <<next, op, rest>>

PushLoad(t) == Goto(t, "push", "link") /\ Load(t, PushQueue(t))

PushLink(t) ==
    /\ Goto(t, "link", "pushswap")
    /\ next' = [next EXCEPT ![hand[t]] = old[t].elem]
    /\ UNCHANGED <<head, obj, lists, localVars, age>>

FirstOnly(t) == "idle"
AfterPush(t) == IF op[t] = "move" THEN "drain" ELSE "idle"

\* Push succeeds, and with it the call; MoveToContainer goes on.
PushSwap(t) ==
    /\ Goto(t, "pushswap", AfterPush(t))
    /\ LET q == PushQueue(t) IN
           /\ Swap(t, q, hand[t])
           /\ lists' = [lists EXCEPT ![q] = <<hand[t]>> \o @]
    /\ hand' = [hand EXCEPT ![t] = NoElement]
    /\ UNCHANGED <<next, obj, op, rest>>

\* MoveToContainer: Clear takes the whole list, whose elements are freed one by
\* one, each after the reading of its _next.
ClearLoad(t) == Goto(t, "clear", "clearswap") /\ Load(t, "active")

ClearSwap(t) ==
    /\ Goto(t, "clearswap", "drain")
    /\ Swap(t, "active", NoElement)
    /\ rest' = [rest EXCEPT ![t] = old[t].elem]
    /\ lists' = [lists EXCEPT !["active"] = << >>, ![t] = lists["active"]]
    /\ UNCHANGED <<next, obj, op, hand>>

Drain(t) ==
    /\ rest[t] # NoElement
    /\ Goto(t, "drain", "push")
    /\ hand' = [hand EXCEPT ![t] = rest[t]]
    /\ rest' = [rest EXCEPT ![t] = next[rest[t]]]
    /\ lists' = [lists EXCEPT ![t] = Rest(@)]
    /\ UNCHANGED <<head, next, obj, op, old, succ, age>>
DrainEnd(t) ==
    /\ rest[t] = NoElement
    /\ Goto(t, "drain", "idle")
    /\ UNCHANGED <<heapVars, localVars, age>>

Step(t) ==
    \/ PopEmpty(t) \/ PopLoad(t) \/ PopNext(t) \/ PopSwap(t)
    \/ PushLoad(t) \/ PushLink(t) \/ PushSwap(t)
    \/ ClearLoad(t) \/ ClearSwap(t) \/ Drain(t) \/ DrainEnd(t)
    \/ Retry(t, "popswap", "pop") \/ Retry(t, "pushswap", "push")
    \/ Retry(t, "clearswap", "clear")

Next == \E t \in Threads :
            \/ \E o \in {"push", "pop", "move"} : Call(t, o)
            \/ Step(t)

Spec == Init /\ [][Next]_vars
-----------------------------------------------------------------------------
\* Type invariant.
Stages == {"idle", "pop", "next", "popswap", "push", "link", "pushswap",
           "clear", "clearswap", "drain"}
Index == Elements \cup {NoElement}
Heads == [elem : Index, ctr : 0..(CounterMod - 1)]
TypeOK ==
    /\ head \in [Queues -> Heads]
    /\ next \in [Elements -> Index]
    /\ obj \in [Elements -> Object]
    /\ pc \in [Threads -> Stages]
    /\ op \in [Threads -> {"push", "pop", "move"}]
    /\ old \in [Threads -> Heads]
    /\ succ \in [Threads -> Index]
    /\ hand \in [Threads -> Index]
    /\ rest \in [Threads -> Index]
    /\ lists \in [Queues \cup Threads -> Seq(Elements)]
    /\ age \in [Threads -> 0..(CounterMod - 1)]

\* The linked list that starts at index e holds the elements of sequence s, in
\* their order, and ends there.
First(s) == IF s = << >> THEN NoElement ELSE s[1]
Chained(s) == \A i \in 1..Len(s) :
                  next[s[i]] = IF i < Len(s) THEN s[i + 1] ELSE NoElement

\* Whatever the interleaving, the words and links in memory are the stacks that
\* the successful pushes, pops and clears make, and what a thread has still to
\* free is a list of its own: a pop that read the _next of an
\* element which was popped and pushed again does not succeed (lifo-ctr.hpp:49).
QueuesLinked ==
    /\ \A q \in Queues : head[q].elem = First(lists[q])
    /\ \A t \in Threads : rest[t] = First(lists[t])
    /\ \A l \in Queues \cup Threads : Chained(lists[l])

\* An element is at one place only: once in one list, or in the hands of one
\* thread. No element is handed out twice, so no object is overwritten.
Positions(l) == 1..Len(lists[l])
OnePlace ==
    /\ \A l, m \in Queues \cup Threads : \A i \in Positions(l), j \in Positions(m) :
           lists[l][i] = lists[m][j] => l = m /\ i = j
    /\ \A t \in Threads : hand[t] # NoElement =>
           /\ \A l \in Queues \cup Threads : \A i \in Positions(l) : lists[l][i] # hand[t]
           /\ \A u \in Threads : hand[u] = hand[t] => u = t

\* None is lost: an element in no list is in the hands of a thread.
NoElementLost ==
    \A e \in Elements :
        \/ \E l \in Queues \cup Threads : \E i \in Positions(l) : lists[l][i] = e
        \/ \E t \in Threads : hand[t] = e

\* The queues and the threads' hands implement a bounded stack of objects.
ListElements(l) == {lists[l][i] : i \in Positions(l)}
Filled(e) == <<e, obj[e]>>
Objects == [i \in 1..Len(lists["active"]) |-> Filled(lists["active"][i])]
Holders == {t \in Threads : hand[t] # NoElement}
Reserved == {Filled(hand[t]) : t \in {u \in Holders : op[u] = "push"}}
Taken == {hand[t] : t \in {u \in Holders : op[u] # "push"}} \cup UNION {ListElements(t) : t \in Threads}

Abstract == INSTANCE BoundedStack WITH
    Slots <- Elements, stack <- Objects, spare <- ListElements("free"),
    reserved <- Reserved, taken <- Taken
IsBoundedStack == Abstract!Spec
=============================================================================
