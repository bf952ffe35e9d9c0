------------------------------ MODULE BufferPool ------------------------------
(***************************************************************************)
(* The trace buffers of membuffer_threadpool.cpp. Application threads have *)
(* their full buffers processed by a pool of internal threads: a full      *)
(* buffer goes on the global list of full buffers, a pool thread takes it, *)
(* processes it and puts it on the list of free buffers of its owner. Each *)
(* list has a lock and a counting semaphore; the full list also has an     *)
(* event that announces the exit of the process.                           *)
(***************************************************************************)
EXTENDS Integers, Sequences, FiniteSets

CONSTANTS
    AppThreads,   \* application threads
    PoolThreads,  \* internal threads that process buffers
    NumBuffers,   \* the num_buffers_per_app_thread knob
    MaxFills      \* bound: buffers an application thread fills

ASSUME PoolAssumption ==
    /\ AppThreads \cap PoolThreads = {}
    /\ NumBuffers \in Nat \ {0}
    /\ MaxFills \in Nat

ASSUME FiniteAssumption == IsFiniteSet(AppThreads) /\ IsFiniteSet(PoolThreads)

\* The first buffer of a thread is allocated by Pin, the others by the tool.
Buffers == AppThreads \X (1..NumBuffers)
Owner(b) == b[1]
NoBuffer == <<>>

VARIABLES
    manager,      \* fullBuffersListManager is not NULL
    exitEvent,    \* _exitEvent of the full list is signalled
    early,        \* whether the program exits while other threads run
    fullList, fullSem,  \* _bufferList and _bufferSem of the full list
    freeList, freeSem,  \* those of every application thread's free list
    rep,          \* whether a thread's APP_THREAD_REPRESENTITVE is live
    numAllocated, \* _numBuffersAllocated
    current,      \* _currentBuf, which Pin is filling
    unprocessed,  \* buffers whose recorded references are not yet processed
    pc,           \* where a thread is
    hand,         \* the buffer a pool thread is dealing with
    leaving,      \* application threads that are exiting
    fills         \* bound: buffers filled so far

exitVars == <<manager, exitEvent, early>>
listVars == <<fullList, fullSem, freeList, freeSem>>
appVars == <<rep, numAllocated, current, leaving, fills>>
vars == <<exitVars, listVars, appVars, unprocessed, pc, hand>>

Threads == AppThreads \cup PoolThreads

Init ==
    /\ manager = FALSE
    /\ exitEvent = FALSE
    /\ early \in BOOLEAN
    /\ fullList = << >> /\ fullSem = 0
    /\ freeList = [a \in AppThreads |-> << >>]
    /\ freeSem = [a \in AppThreads |-> 0]
    /\ rep = [a \in AppThreads |-> FALSE]
    /\ numAllocated = [a \in AppThreads |-> 0]
    /\ current = [a \in AppThreads |-> <<a, 1>>]
    /\ unprocessed = {}
    /\ pc = [t \in Threads |-> "start"]
    /\ hand = [p \in PoolThreads |-> NoBuffer]
    /\ leaving = {}
    /\ fills = [a \in AppThreads |-> 0]

Goto(t, from, to) == pc[t] = from /\ pc' = [pc EXCEPT ![t] = to]
-----------------------------------------------------------------------------
(* Application threads *)

ThreadStart(a) ==
    /\ Goto(a, "start", "run")
    /\ rep' = [rep EXCEPT ![a] = TRUE]
    /\ UNCHANGED <<exitVars, listVars, numAllocated, current, leaving, fills,
                   unprocessed, hand>>

\* BufferFull: the buffer is full, or the thread exits with what it holds.
BufferFull(a) ==
    /\ Goto(a, "run", "full")
    /\ unprocessed' = unprocessed \cup {current[a]}
    /\ UNCHANGED <<exitVars, listVars, rep, numAllocated, current, hand>>
Fill(a) ==
    /\ fills[a] < MaxFills
    /\ BufferFull(a)
    /\ fills' = [fills EXCEPT ![a] = @ + 1]
    /\ UNCHANGED leaving
\* The last thread that stays leaves by exiting the process.
LeaveThread(a) ==
    /\ exitEvent \/ \E b \in AppThreads \ {a} : b \notin leaving
    /\ BufferFull(a)
    /\ leaving' = leaving \cup {a}
    /\ UNCHANGED fills

\* PrepareForFini, in the thread that initiates the exit of the process: the
\* list gets its manager, the event is signalled, and the thread waits for the
\* pool threads to end.
PrepareForFini(a) ==
    /\ ~exitEvent
    /\ \A b \in AppThreads : pc[b] # "notify"
    /\ early \/ \A b \in AppThreads \ {a} : pc[b] = "dead"
    /\ Goto(a, "run", "notify")
    /\ manager' = TRUE
    /\ UNCHANGED <<exitEvent, early, listVars, appVars, unprocessed, hand>>
NotifyExitIfStarted(a) ==
    /\ Goto(a, "notify", "await")
    /\ exitEvent' = (exitEvent \/ \E p \in PoolThreads : pc[p] # "start")
    /\ UNCHANGED <<manager, early, listVars, appVars, unprocessed, hand>>
NotifyExit(a) ==
    /\ Goto(a, "notify", "await")
    /\ exitEvent' = TRUE
    /\ UNCHANGED <<manager, early, listVars, appVars, unprocessed, hand>>
PoolEnded(a) ==
    /\ \A p \in PoolThreads : pc[p] = "exited"
    /\ Goto(a, "await", "run")
    /\ UNCHANGED <<exitVars, listVars, appVars, unprocessed, hand>>

\* Where BufferFull goes on when it has a buffer for Pin to fill.
Resume(a) == IF a \in leaving THEN "fini" ELSE "run"

\* EnqueueFullAndGetNextToFill processes the buffer in this thread when no pool
\* thread runs yet, or when PutBufferOnList finds the exit event signalled.
ProcessInAppThreadNot(a) ==
    /\ ~manager \/ exitEvent
    /\ Goto(a, "full", Resume(a))
    /\ UNCHANGED <<exitVars, listVars, appVars, unprocessed, hand>>
ProcessInAppThread(a) ==
    /\ ~manager \/ exitEvent
    /\ Goto(a, "full", Resume(a))
    /\ unprocessed' = unprocessed \ {current[a]}
    /\ UNCHANGED <<exitVars, listVars, appVars, hand>>

\* PutBufferOnList on the full list: the event is tested before the buffer is
\* put on the list, and the semaphore released after that.
ExitNotSignalled(a) ==
    /\ manager /\ ~exitEvent
    /\ Goto(a, "full", "push")
    /\ UNCHANGED <<exitVars, listVars, appVars, unprocessed, hand>>
PushFull(a) ==
    /\ Goto(a, "push", "signal")
    /\ fullList' = Append(fullList, current[a])
    /\ UNCHANGED <<exitVars, fullSem, freeList, freeSem, appVars, unprocessed, hand>>
SignalFull(a) ==
    /\ Goto(a, "signal", "allocate")
    /\ fullSem' = fullSem + 1
    /\ UNCHANGED <<exitVars, fullList, freeList, freeSem, appVars, unprocessed, hand>>

\* The first time, the other buffers are allocated and put on the free list. No
\* other thread waits for this list, so the buffers are put there in one step.
ToAllocateTooMany == NumBuffers
ToAllocate == NumBuffers - 1
Fresh(a) == [i \in 1..ToAllocate |-> <<a, i + 1>>]
Allocate(a) ==
    /\ Goto(a, "allocate", "get")
    /\ IF numAllocated[a] = 0
       THEN /\ freeList' = [freeList EXCEPT ![a] = @ \o Fresh(a)]
            /\ freeSem' = [freeSem EXCEPT ![a] = @ + ToAllocate]
            /\ numAllocated' = [numAllocated EXCEPT ![a] = ToAllocate]
       ELSE UNCHANGED <<freeList, freeSem, numAllocated>>
    /\ UNCHANGED <<exitVars, fullList, fullSem, rep, current, leaving, fills,
                   unprocessed, hand>>

\* GetBufferFromList on the free list: wait for the semaphore, take the first.
WaitFree(a, from, to) ==
    /\ Goto(a, from, to)
    /\ freeSem[a] > 0
    /\ freeSem' = [freeSem EXCEPT ![a] = @ - 1]
    /\ UNCHANGED <<exitVars, fullList, fullSem, freeList, appVars, unprocessed, hand>>
PopFreeKeeping(a) == UNCHANGED freeList
PopFree(a) == freeList' = [freeList EXCEPT ![a] = Tail(@)]

NextToFill(a) ==
    \/ WaitFree(a, "get", "pop")
    \/ /\ Goto(a, "pop", Resume(a))
       /\ PopFree(a)
       /\ current' = [current EXCEPT ![a] = Head(freeList[a])]
       /\ UNCHANGED <<exitVars, fullList, fullSem, freeSem, rep, numAllocated,
                      leaving, fills, unprocessed, hand>>

\* AllBuffersProcessed: take back the allocated buffers one by one ...
LeftToReclaimButOne(a) == numAllocated[a] - 1
LeftToReclaim(a) == numAllocated[a]
Reclaim(a) ==
    \/ LeftToReclaim(a) > 0 /\ WaitFree(a, "fini", "reclaim")
    \/ /\ Goto(a, "reclaim", "fini")
       /\ PopFree(a)
       /\ numAllocated' = [numAllocated EXCEPT ![a] = @ - 1]
       /\ UNCHANGED <<exitVars, fullList, fullSem, freeSem, rep, current, leaving,
                      fills, unprocessed, hand>>
\* ... and ThreadFini: then delete the thread's representative.
ThreadFini(a) ==
    /\ LeftToReclaim(a) <= 0
    /\ Goto(a, "fini", "dead")
    /\ rep' = [rep EXCEPT ![a] = FALSE]
    /\ current' = [current EXCEPT ![a] = NoBuffer]
    /\ UNCHANGED <<exitVars, listVars, numAllocated, leaving, fills,
                   unprocessed, hand>>
-----------------------------------------------------------------------------
(* Pool threads: BufferProcessingThread *)

PoolStart(p) ==
    /\ Goto(p, "start", "wait")
    /\ manager' = TRUE
    /\ UNCHANGED <<exitEvent, early, listVars, appVars, unprocessed, hand>>

\* GetBufferFromList on the full list: the semaphore comes before the exit event,
\* so that buffers are processed even after exit until the list is empty.
WaitFullKeeping(p) ==
    /\ Goto(p, "wait", "take") /\ fullSem > 0
    /\ UNCHANGED <<exitVars, listVars, appVars, unprocessed, hand>>
WaitFull(p) ==
    /\ Goto(p, "wait", "take") /\ fullSem > 0
    /\ fullSem' = fullSem - 1
    /\ UNCHANGED <<exitVars, fullList, freeList, freeSem, appVars, unprocessed, hand>>
ExitWithoutDraining(p) ==
    /\ Goto(p, "wait", "exited") /\ exitEvent
    /\ UNCHANGED <<exitVars, listVars, appVars, unprocessed, hand>>
Exit(p) ==
    /\ Goto(p, "wait", "exited") /\ fullSem = 0 /\ exitEvent
    /\ UNCHANGED <<exitVars, listVars, appVars, unprocessed, hand>>
TakeFull(p) ==
    /\ Goto(p, "take", "process")
    /\ hand' = [hand EXCEPT ![p] = Head(fullList)]
    /\ fullList' = Tail(fullList)
    /\ UNCHANGED <<exitVars, fullSem, freeList, freeSem, appVars, unprocessed>>

ProcessBuffer(p) ==
    /\ Goto(p, "process", "return")
    /\ unprocessed' = unprocessed \ {hand[p]}
    /\ UNCHANGED <<exitVars, listVars, appVars, hand>>

\* PutBufferOnList on the free list of the owner, which has no exit event.
ReturnBuffer(p) ==
    /\ Goto(p, "return", "release")
    /\ freeList' = [freeList EXCEPT ![Owner(hand[p])] = Append(@, hand[p])]
    /\ UNCHANGED <<exitVars, fullList, fullSem, freeSem, appVars, unprocessed, hand>>
ReleaseFreeNot(p) ==
    /\ Goto(p, "release", "wait")
    /\ hand' = [hand EXCEPT ![p] = NoBuffer]
    /\ UNCHANGED <<exitVars, listVars, appVars, unprocessed>>
ReleaseFree(p) ==
    /\ Goto(p, "release", "wait")
    /\ freeSem' = [freeSem EXCEPT ![Owner(hand[p])] = @ + 1]
    /\ hand' = [hand EXCEPT ![p] = NoBuffer]
    /\ UNCHANGED <<exitVars, fullList, fullSem, freeList, appVars, unprocessed>>

EnqueueFull(a) == \/ ProcessInAppThread(a) \/ ExitNotSignalled(a)
                  \/ PushFull(a) \/ SignalFull(a) \/ Allocate(a) \/ NextToFill(a)
App(a) == \/ ThreadStart(a) \/ Fill(a) \/ LeaveThread(a)
          \/ PrepareForFini(a) \/ NotifyExit(a) \/ PoolEnded(a)
          \/ EnqueueFull(a) \/ Reclaim(a) \/ ThreadFini(a)
Pool(p) == \/ PoolStart(p) \/ WaitFull(p) \/ Exit(p) \/ TakeFull(p)
           \/ ProcessBuffer(p) \/ ReturnBuffer(p) \/ ReleaseFree(p)

Next == (\E a \in AppThreads : App(a)) \/ (\E p \in PoolThreads : Pool(p))

Spec == Init /\ [][Next]_vars

\* The operating system runs every thread that can run. Nothing is assumed of
\* the application: it need not fill buffers, leave a thread or exit.
FairSpec ==
    /\ Spec
    /\ \A a \in AppThreads :
         /\ WF_vars(EnqueueFull(a) \/ Reclaim(a) \/ ThreadFini(a))
         /\ WF_vars(NotifyExit(a) \/ PoolEnded(a))
    /\ \A p \in PoolThreads : WF_vars(Pool(p))
-----------------------------------------------------------------------------
(* Properties *)

TypeOK ==
    /\ manager \in BOOLEAN /\ exitEvent \in BOOLEAN /\ early \in BOOLEAN
    /\ fullList \in Seq(Buffers) /\ fullSem \in Nat
    /\ freeList \in [AppThreads -> Seq(Buffers)]
    /\ freeSem \in [AppThreads -> Nat]
    /\ rep \in [AppThreads -> BOOLEAN]
    /\ numAllocated \in [AppThreads -> 0..(NumBuffers - 1)]
    /\ current \in [AppThreads -> Buffers \cup {NoBuffer}]
    /\ unprocessed \subseteq Buffers
    /\ pc \in [Threads -> {"start", "run", "notify", "await", "full", "push", "signal",
                           "allocate", "get", "pop", "fini", "reclaim", "dead",
                           "wait", "take", "process", "return", "release", "exited"}]
    /\ hand \in [PoolThreads -> Buffers \cup {NoBuffer}]
    /\ leaving \subseteq AppThreads
    /\ fills \in [AppThreads -> 0..MaxFills]

\* A thread that the semaphore let through finds a buffer on the list: the
\* assertion of GetBufferFromList, in the presence of threads that have put a
\* buffer and not yet released the semaphore, or the reverse for the takers.
PopNeverEmpty ==
    /\ \A a \in AppThreads : pc[a] \in {"pop", "reclaim"} => freeList[a] # << >>
    /\ \A p \in PoolThreads : pc[p] = "take" => fullList # << >>

\* The places where a buffer is: with its thread, with a pool thread, or at a
\* position of a list.
Filling(a) == pc[a] \in {"start", "run", "notify", "await", "full", "push", "fini", "reclaim"}
Places(b) ==
         {<<"thread", a>> : a \in {x \in AppThreads : Filling(x) /\ current[x] = b}}
    \cup {<<"pool", p>> : p \in {x \in PoolThreads : pc[x] \in {"process", "return"}
                                                     /\ hand[x] = b}}
    \cup {<<"full", i>> : i \in {n \in DOMAIN fullList : fullList[n] = b}}
    \cup UNION {{<<"free", a, i>> : i \in {n \in DOMAIN freeList[a] : freeList[a][n] = b}} :
                    a \in AppThreads}

\* A buffer is never at two places, so no two threads write or read it at once;
\* none disappears while its thread lives: it still has the one of Pin and as
\* many as were allocated; and a free list holds buffers of its thread only
\* (the assertions after GetBufferFromList).
BuffersConserved ==
    /\ \A b \in Buffers : Cardinality(Places(b)) <= 1
    /\ \A a \in AppThreads : rep[a] =>
         Cardinality({b \in Buffers : Owner(b) = a /\ Places(b) # {}}) = numAllocated[a] + 1
    /\ \A a \in AppThreads : \A i \in DOMAIN freeList[a] : Owner(freeList[a][i]) = a

\* References are processed before their buffer is filled again: neither the
\* buffer that Pin fills nor one on a free list has references to process, and
\* a thread that has ended leaves none behind.
NoReferenceLost ==
    \A a \in AppThreads :
        /\ pc[a] \in {"run", "fini"} => current[a] \notin unprocessed
        /\ \A i \in DOMAIN freeList[a] : freeList[a][i] \notin unprocessed
        /\ pc[a] = "dead" => \A b \in unprocessed : Owner(b) # a

\* The representative that ThreadFini deletes is not used afterwards: no pool
\* thread holds, or will find on the full list, a buffer of that thread.
RepresentativeAlive ==
    /\ \A p \in PoolThreads : hand[p] # NoBuffer => rep[Owner(hand[p])]
    /\ \A i \in DOMAIN fullList : rep[Owner(fullList[i])]

\* Unless the process exits early, a thread that asks for a buffer to fill gets one.
BufferFullReturns ==
    ~early => \A a \in AppThreads : pc[a] = "full" ~> pc[a] \in {"run", "fini"}

\* Then a thread that leaves gets all of its buffers back and ends, too.
ThreadFiniReturns ==
    ~early => \A a \in AppThreads : pc[a] = "fini" ~> pc[a] = "dead"

\* Once the process is exiting, the pool threads end and PrepareForFini returns,
\* also when a pool thread starts to run after the notification.
PrepareForFiniReturns ==
    \A a \in AppThreads : pc[a] = "notify" ~> pc[a] = "run"

\* What the comments say of the exit: when the pool threads have ended, no full
\* buffer is left waiting for them.
NoStrandedBuffer ==
    (\A p \in PoolThreads : pc[p] = "exited") => fullList = << >>
=============================================================================
