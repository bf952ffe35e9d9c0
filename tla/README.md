# A verification project for the tools of the Pin kit

TLA+ models, TLC runs and TLAPS proofs for the parts of this repository that are source code with a
logic of their own. The repository is a Pin 3.2 kit: Pin itself is a binary, its documentation and its
third-party libraries fill most of the tree, and the tools under `source/tools` are the program. One of
them, `SimpleExamples/cache.cpp` with `cache.H`, is the tool this repository exists for: a cache
simulator that measures regions of a program chosen with the region controller of `InstLib`.

## Inventory

| Part | State | Operations | Hard behaviour | Correct when |
| --- | --- | --- | --- | --- |
| **Region controller**, `InstLib/{ialarm,alarm_manager,control_chain,control_manager,alarms,init_alarm}` | per alarm: armed and counter for every thread, target; per chain: repetitions of every thread; the state of uniform alarms; the event log | `Count` and `Fire` as analysis calls of every application thread; `Arm`, `Disarm`, `ArmNextAlarm`, `SetNextUniformEvent`, the handlers | all threads share the alarms; `Count` and `Fire` take no lock; broadcast and uniform alarms change the state of other threads | events come in chain order, at the right counts, as often as asked; a thread has one stage of a chain; a region that was started ends |
| **Cache set**, `cache.H: ROUND_ROBIN` | tags, replacement index | `Find`, `Replace` | threads share a set without a lock | FIFO replacement; a line is not held more often than racing explains; indices in range |
| **Cache simulator**, `cache.H`, `cache.cpp` | il1, dl1, dl2, sector flags, counters, profiles, `doTrace` | the twelve analysis routines, `Access`, `AccessSingleLine`, `Handler`, `Fini` | accesses of several lines; two levels; tracing switched at any time | counters of the levels, evictions and instructions agree but for torn calls; what was accessed is resident |
| **Trace buffers**, `MemTrace/membuffer_threadpool.cpp` | list of full buffers and a list of free buffers per thread, each with a lock and a semaphore; exit event; thread representatives | `BufferFull`, `ThreadStart`, `ThreadFini`, `PrepareForFini`, `BufferProcessingThread` | application and pool threads, exit while others run | no buffer shared or lost, none refilled before it is processed; every wait ends |
| **Regions controller**, `InstLib/regions_control.H` | sorted event list, count and next event of every thread | read regions, skip those that overlap, order their events, raise them | several events at one count or in one block, overlapping records | each event of an accepted region once, on time, in the documented order |
| **Lock-free queue**, `extras/components/include/atomic/{lifo-ctr,fixed-lifo}.hpp` | heads with a modification counter, links and objects of the elements | `Push`, `Pop`, `MoveToContainer` | compare-and-swap races, reuse of elements, counter wrap | a bounded stack; no element shared or lost |
| **Lock-free multimap**, `fixed-multimap.hpp`, `fixed-multiset.hpp` | keys of the slots, high water mark, hint | `Add`, `Find`, `FindIf`, `Remove`, `RemoveIf`, `ForEach` | the mark is lowered while slots above it are filled; slots are reused | a slot has one holder; scans meet what stays; no call waits for another thread |
| Other lock-free helpers, `{idset,lifo-ptr,ops,exponential-backoff}.hpp` | identifier set, single-consumer queue | get and release an identifier | | identifier set planned |
| Call stack, `InstLib/call-stack.*` | stack per thread, marks | call, return, longjmp | frames dropped late | planned |
| Interactive listener, `InstLib/interactive_listener.*` | socket, exit flag, signal | listen, fork, exit | exit and fork against the listening thread | planned |
| Tool synchronisation, `pin/gen/pinsync.hpp`; profile counters, `pin/pin_profile.H` | locks; counters | | | planned; used by the above |
| Knobs, debugger shell, filters, other tools and tests, `ramulator_wrapper` (its `Access` is empty) | | | | not modelled: parsing, formatting, thin layers over Pin's API |
| Pin, compiler runtimes, xed | | | | binaries and third-party code, external |

How they interact. Pin calls analysis routines in the thread of the application, callbacks (thread
start, exit) in the thread concerned, and internal threads run beside them. The controller instruments
every block: its alarms count, and one that reaches its target calls the tool's `Handler`, which sets
`doTrace`; the cache's routines, in the same thread between such calls and in other threads at any time,
read `doTrace` and count only while it is set. The controller's own state, `doTrace` and the cache sets
are shared by all threads and not protected by locks. The trace buffer tool is independent of both.

The lock-free containers serve Pin's own components and use nothing of the tools.

## Modules

| Module | Models | Checked by |
| --- | --- | --- |
| `Controller` | the alarms of the region controller and the tool's handler | `MCController`, two runs and a violation |
| `Regions` | the regions controller, composed with `Controller` | `MCRegions`, one run |
| `CacheSet` | one cache set under racing threads | one run |
| `FifoSet` | what a set promises: a miss evicts the oldest line | implemented by `CacheSet` |
| `Cache` | levels, sector flags, counters, analysis calls, handler | `MCCache`, a run and a violation |
| `BufferPool` | buffers, lists, semaphores, exit | a run and a violation |
| `FixedLifo` | the lock-free queue, word by word | `MCFixedLifo`, one run |
| `BoundedStack` | what the queue promises: a stack with reservation of slots | implemented by `FixedLifo` |
| `MultiMap` | the lock-free multimap, word by word | `MCMultiMap`, a run and a violation |
| `ControllerProofs` | theorems: types and per-thread chains | TLAPS |
| `ControllerEventProofs` | theorems: the events, their order and counts, tracing, broadcast and uniform alarms, the default start | TLAPS |
| `RegionsProofs` | theorems: the regions, alone and beside the alarms | TLAPS |
| `CacheSetProofs`, `CacheProofs`, `BufferPoolProofs`, `FixedLifoProofs`, `MultiMapProofs` | theorems about the module of that name | TLAPS |

`PROJECT.json` maps every definition to the lines it stands for. Variables marked as history record what
a property speaks of and no guard of the code reads them: `raised`, `fired`, `last`, `overlapped`,
`lists`, `fresh`, `added`, `must`, and `age`, which only states an assumption (below).

### Controller

`Alarm`, `Repeat` and `WaitFor` are the parsed chains. One thread executes a block (`Exec`), which makes
the calls of the alarms instrumented there due (`todo`), in the order in which the alarms were created.
Each call is split where it touches what other threads can change: `CountRead` and `CountWrite` are the
load and the store of the counter in `IALARM::Count`; `FireDisarm`, `FireUniform`, `FireHandlers` and
`FireArmNext` are the stages of `ALARM_MANAGER::Fire` and `CONTROL_CHAIN::Fire`. `Disarm()` and `Arm()`
for all threads hold the alarm's lock and are one step each. `INIT_ALARM` is `ThreadStart` and
`InitStart`. `iregions` is the state of the regions controller, of which this module knows the flag `_active`
alone; it is uninitialised, so it starts with either value.
Integers wrap at `WordMod` where the code's counters do. A marked block is one whose first instruction
is the marker.

### Regions

A file holds a list of records for every thread, read before the program runs; `RegionFiles` are the
files considered. `ProcessRegions` goes through the records in order, drops the one in whose span an event
of an accepted one falls, and `ProcessEvents` sorts what is left. A thread's call at a block is `AdvanceIf`,
then, when the count has come to the next event, a step per event (`AdvanceThenFire`) and one that sets
the count of the next (`AdvanceThenReturn`). The call comes after those of the alarms at the same block:
its instrumentation function is registered after theirs. Start and stop go to the tool's handler as
the alarms' do, so that alarms and regions drive the one `doTrace` and the one log; the tool of this
module ignores the other six events, where the handler of `cache.cpp` would stop the program by its
assertion. Its state is a record in `Controller`'s variable `iregions`, which the
alarms leave alone, so that the alarms' actions are `Controller`'s own. `active` is true when a file is given and
undetermined when not. The
mode `overlap-ok`, the csv reader and the file of skipped records are left out.

### CacheSet and FifoSet

The loop of `Find` is a step per way (`FindHit`, `FindNext`, `FindMiss`); `Replace` is three: read the
index, write the tag, write the index. `FifoSet` is a queue of tags. The refinement mapping reads the
ways from the one to be replaced next (`Oldest`): between writing the tag and the index, that is not
`next` but the way before it.

### Cache

One application thread. A call (`Call`) enters the first level; every line of the access is `LineHit` or
`LineMiss`; `Count` ends the access to one cache and goes on to dl2 after a miss in dl1. `Handler`
switches tracing at any time: in the thread itself the controller's calls come between those of the
caches, but another thread's may come in the middle of one. `recording` is the parameter of `Access`, read
when a cache is entered; the instruction's counter reads `doTrace` again at the end. A call is torn (`torn`,
`tears`: history) when tracing is switched during it. Counts of a profile are summed over addresses. Flag offsets are computed as the code does, overlap included.

### BufferPool

A step for each list and semaphore operation: test of the exit event, push, release of the semaphore, and
wait, take, in both kinds of thread. `early` tells whether the process exits while other threads
run. Allocation of a thread's buffers is one step: only that thread waits for the list. Before
`ThreadFini`, Pin calls `BufferFull` for what the buffer holds (`LeaveThread`); of `PrepareForFini`, the
documentation of Pin says it runs in the thread that initiates the exit, beside other callbacks. Records
in a buffer are represented by membership in `unprocessed`.

### FixedLifo and BoundedStack

Two queues share the elements: the active one holds objects, the free one unused elements. `LIFO_CTR`'s
loops are steps at every access to a shared word: load of the head (`PopLoad`, `PushLoad`, `ClearLoad`),
read of an element's `_next` (`PopNext`), store of it (`PushLink`), compare-and-swap (`PopSwap`,
`PushSwap`, `ClearSwap`, or `Retry`). The object is stored in the step that takes the element: nobody else
reads it before the push. What a thread loaded is forgotten after its compare-and-swap, as the locals of
the loop are. The algorithm's own assumption is that a thread does not stall while a head
changes as often as its counter has values (`lifo-ctr.hpp:68`): `NobodyStalls`, stated with `age`. In
`BoundedStack` an operation reserves or takes a slot and puts it on the stack or back among the spares,
each atomically. `Head`, `Empty`, `PushList` and the methods documented as not atomic are not modelled.

### MultiMap

Every access to `_map`, `_highWaterMark` or `_freeLocationHint` is a step; the load of a slot and a
compare-and-swap that does nothing more when it fails are one. `AddAt` and `RemoveAt` are the steps from
`AddAt` to `BumpHint` and from `Take` to `BelowInUse`, with the loop that frees reserved slots below
the lowered mark. A predicate of `FindIf`, `RemoveIf` and `ForEach` is the set of keys it accepts; objects
are left out, since they are written only while the slot is reserved.

## Runs

| Run | Instance and bounds | Shows |
| --- | --- | --- |
| `ControllerSkipLength` | two threads; start after 1, stop after 3, twice; blocks of 1 and 2 instructions; 7 instructions a thread, enough for both passes and for the start of a third that must not come | one stage per thread, only armed alarms fire, order, counts within a block, no tracing outside of all regions |
| `ControllerRegions` | two threads; stop after 3, a precondition chain waiting for it; for one thread no records or one of three lists (apart and out of order, overlapping, nested, at count zero), or no file at all, warmup and epilog of 1; 5 instructions a thread | types, waiting chains, the default start once and first, region events on time and in order |
| `ControllerBcastUniform` | two threads, broadcast start and stop for ever, beside `uniform:2:1:2` restricted to one thread; no bound on the run (the log is off, counters wrap at 3) | the chain is never lost, tracing always ends, exact cycles, completion |
| `ControllerUniformRace` (violation) | two threads, same uniform alarm | the cycle count wraps |
| `CacheSet` | two threads, three ways, four lines | types, copies bounded by threads, implements `FifoSet` until accesses overlap |
| `CacheHierarchy` | il1 direct mapped with two sets, dl1 two by two, dl2 four by two, five aligned accesses, four calls, tracing switched at any step | agreement of the levels, residency, fills per miss, agreement of the report |
| `CacheSectors` (violation) | same caches, two sectors a line | flags overlap |
| `BufferPool` | two application and two pool threads, two buffers each, one fill and the exit of each thread, early exit or not | buffers conserved, references processed, representatives alive, semaphores sound, every wait ends |
| `BufferPoolExit` (violation) | same | a buffer stranded |
| `FixedLifo` | three threads, two elements, two objects, a counter of four values; no bound on the run | links, elements, implements `BoundedStack` |
| `MultiMap` | two threads, two keys, two slots; no bound on the run | one holder, the mark, complete scans, no waiting |
| `MultiMapRemove` (violation) | two threads, one key, two slots | `Remove` gives up too early |

Why these bounds are enough for what they check: most races need two threads, since every shared item is
handed from one thread to one other or written by two; the queue has three, so that one can hold a stale
head while two others pop and push its element. Two repetitions, blocks that step over a target
and a second chain are the least in which the arithmetic of the controller can be off by one. Three ways
tell first, middle and last in the replacement order, and a fourth line makes every line leave the set.
Four calls fill a set, evict from it and access the evicted line again, and any of them may be torn.
Two buffers let a thread fill one while the other is processed, and reclaim at exit. Two slots give the
mark a place to go down to and a slot above it; four counter values let the counter wrap. A region of
one thread is enough as counts and lists are each thread's own. The theorems below
remove the bounds for the properties they cover. `CHECK_DEADLOCK FALSE` is where a bound ends the run or
the system really stops (all buffer threads ended).

Memory. A step is sequentially consistent: the atomic operations of `atomic/ops.hpp` carry barriers where
the containers ask for them, which are not modelled; elsewhere the races modelled are those of
interleaved loads and stores of single words.

Fairness. `Controller`: every application thread keeps executing blocks and an analysis call that has
begun returns; the blocks are chosen by the application without fairness. `BufferPool`: each thread that
can run is run by the operating system; nothing is assumed of the application, which need not fill
buffers, leave or exit. Weak fairness suffices for the semaphores: a free list has one waiting thread,
and a pool thread that loses the race for a full buffer only leaves it to another. `MultiMap`: the
property `NonBlocking` carries its premise: a thread that is run returns from its call even when all others stop
where they are, unless others take steps for ever (lock-free, not wait-free).

### What the violations show

* `ControllerUniformRace`: `ALARM_MANAGER::Fire` tests the remaining cycles and
  `SetNextUniformEvent` decrements them with nothing between to keep a second thread out.
* `CacheSectors`: the offset of a line's flags is `set * associativity + way`, without the number of
  sectors, though the array is allocated with it.
* `BufferPoolExit`: `PutBufferOnList` tests the exit event before it pushes; the pool may end between.
* `MultiMapRemove`: `Remove` returns what `RemoveAt` returned at the first match; when another thread
  took that one, a second match stays (`fixed-multimap.hpp:226` promises the removal of one).

Other departures of the code from its comments were met while modelling and have no run:

* An alarm with target zero is always past its target, so it fires although not armed (`ialarm.cpp:87`
  against `ialarm.H:87`; the theorems assume positive targets).
* With the length knob alone, a first block of that length raises the stop before the default start, which
  is instrumented later (`control_manager.cpp:280`): `DefaultStartFirst` is about first alarms whose target no single
  block reaches (`LateFirst`).
* If `_active` happens to be true with no region file, no default start is raised at all
  (`control_manager.cpp:447`); `DefaultStartFirst` says what holds when it is not.
* An access of at most a word goes to the routine for one line even when it is unaligned and crosses into
  the next (`cache.cpp:286`; the run has aligned accesses, as the comment there assumes).
* The overlap test looks for events inside the new span, so a record that lies wholly inside a sub-region
  of an earlier one, between two of its events, is accepted, against `regions_control.H:84`.
  `RegionsAsPictured` excepts that case (`Around`), and the run has it (a region from 3 to 4 in one from 1 to 6).
* `EventLessThan` answers true for equal events, which `sort` does not allow; only `overlap-ok` can put two
  equal events into a list.
* `Add` may return 0 although the map is not full, while a remover holds free slots below the
  mark reserved; and `ForEach` may visit an element added during the call (`fixed-multimap.hpp:275`).

## Proofs

All theorems hold for every value of the constants that satisfies the named assumptions of the modules.

* `ControllerProofs`: `TypeCorrect` needs nothing more. `OneStage`, `OnlyArmedFire` and `WaitingChains`
  are under `PerThreadChains`: no broadcast, no uniform alarm, and positive targets. None of the three
  is inductive. The invariant `Inv` adds `Counters` (a positive counter, or a positive sum in the hands
  of `Count`, belongs to an alarm armed for that thread, so that reaching a positive target implies being
  armed) and `Places` (a thread is at one place of a chain; a chain it has completed holds it nowhere; a
  waiting chain is untouched until the other is complete). The hard step is `FireArmNext`: it arms
  another alarm while the fired one leaves the flight, possibly of a waiting chain, whose first alarm
  must not be armed already; that is what the last conjunct is for.
* `ControllerEventProofs` goes on from `Inv`. Every theorem has the assumptions that the property needs, and the
  runs that check it satisfy them:
  * `TracingInRegion`: per-thread chains in which a stop follows each start in the same chain
    (`StopFollowsStart`) and no default start (`NoDefaultStart`; that start comes from no chain).
    `FiringInv` adds that a firing thread carries its alarm's event; with it, whoever set `doTrace` is shown to be
    in a region as long as it is set, and whoever leaves its region has cleared it.
  * `ChainOrder` and `RegionLengths`: one chain (`SingleChain`), because `AlarmOfEvent` numbers the events of a
    single chain. `Repeat[1] # 0` is part of it: a chain with `repeat:0` runs once. The invariant
    `OrderInv` ties the number of a thread's events to its place in the chain and its repetitions; the second
    theorem adds `Timed`, that an armed alarm's counter is the instructions since the thread's last event, up
    to the block in which that was raised, and `Summing` for the sum in the hands of `Count`; that block is where
    "give or take one block" comes from. It is about alarms that count instructions, and blocks of bounded size.
  * `DefaultStartOnce`: per-thread chains and blocks of bounded size, not all empty. `Early` says that until a thread's
    first block has run nothing in it can have come to its target.
  * `BcastNeverLost`: some chain is broadcast throughout, repeats for ever and waits for none (`BcastChain`); nothing is
    assumed of the others. Either a thread is firing in it or one of its alarms is armed for all.
  * `UniformAlternates` and `UniformCountBounded`: each uniform alarm is alone in its chain and restricted to one
    thread (`UniformChain`); the invariant gives, for each stage of its firing, what was raised, the cycles
    left and what is armed. Without the restriction the second fails, as the run `ControllerUniformRace` shows.
* `RegionsProofs`, for every file and every value of the knobs. `RegionsApart`: of any two accepted regions, one has no event in
  the other's span; `Sorted`: `ProcessEvents` is a list of the events, each once, in an order that is total
  because regions are apart. For the steps, `RegionsInv`: the count of the regions is that of the
  log (`InStep`), the events before the next have been fired and no others, and the count the If part
  compares with is that of the next event (`Progress`). `EventsOnTime` and `InPictureOrder` follow, and
  `ChainsBesideRegions` carries two theorems about the chains over to the composition. `LogOn` is assumed because it
  brings the bound `MaxIcount`: a thread whose count reached `ICOUNT_MAX`, 2^64 - 1 in the code, would go beyond
  the end of its list. `ProcessRegions` recurses over the records; the proof looks at the smallest
  number of records where the claim would fail (`SmallestNat`), since induction itself takes an
  operator that the provers cannot instantiate.
* `CacheSetProofs`, for any number of threads: `TypeCorrect`; `CopiesPerThread` (finite `Threads`):
  each copy of a line is charged to the thread that wrote it, an owner function kept by
  witness in the invariant: a thread about to write a line has seen none of its own copies in the ways it has scanned.
  `NoLineTwice` and `RoundRobinIsFifo` speak of the time until two accesses overlap; the second
  proves the refinement step by step.
* `CacheProofs`: `DL2Served` and `MissesFill` for every geometry, access set and switching of tracing. The
  invariant bounds what dl2 counted beyond the misses of dl1 by the torn calls that are over (`Slack`) plus,
  in a call that is torn and has reached dl2, the one count that may be missing (`DL2Balance`); it rests on
  `recording` being `doTrace` until the call is torn (`Seam`).
  The invariants are balances that hold inside a call too: what dl2 has counted plus what it still owes
  is what dl1 has missed; misses counted plus the one to be counted are at most the evictions.
  `CacheTyped` is for every geometry: flag offsets, though they overlap, stay inside the array, and a call is torn
  once at most. `LinesStayResident` assumes what the code does: an access of at most
  a word stays in a line (`WordsAligned`), and an access spans no more lines than the cache has sets
  (`AccessesFit`), so that its lines fall into different sets; its invariant `LinesInv` says where in its
  lines an access is (`Walking`) and that those before are resident. `ReportFits` is the two balances of the report:
  evictions are at most the misses times the lines of the longest access (`FillInv`; `LongestExists` says that there is one,
  `ModulusAligned` that taking an instruction's address modulo `AddrMod` moves it by whole lines), and a profile differs from its cache's
  counters by one for each torn call at most (`ProfileInv`).
* `BufferPoolProofs`, for any finite sets of threads and every number of buffers: the five safety
  invariants of the run. Its invariant `IInv` says what is known of a thread from where it is (`Shape`),
  that a buffer is at one place (`Apart`), that a thread's buffers elsewhere are as many as it allocated,
  one more while it has given one away (`Balance`), which buffer a thread has before it allocates
  (`Virgin`), that a list's length is its semaphore's value plus those let through and those about to
  release (`FullCounted`, `FreeCounted`), and where unprocessed buffers are (`Recorded`).
  `RepresentativesAlive` is where they meet: a thread that has reclaimed as many buffers as it allocated
  has none left with the pool, by `Balance`, and no pool thread about to release its semaphore, by
  `FreeCounted`.
* `FixedLifoProofs`, for any threads, capacity and counter: the four invariants, and
  `BoundedStackImplemented`, the refinement. The invariant adds `Tracked`: the counter in the head has gone on
  by `age` since the load, modulo `CounterMod`, so that an unchanged head means that nothing has changed and
  what was read of the element, its `_next`, is still so. That is the whole argument against reuse.
* `MultiMapProofs`, for any threads, keys and capacity: types, one holder, the mark, complete scans. The invariant
  adds that a thread's loaded mark and slot are what its stage needs (`Working`), that an element not
  yet added is in its thread's slot alone (`Fresh`), and that what a scan must still meet lies between
  its position and its limit (`ScanInv`).

Only model-checked: liveness (`TracingStops`, `UniformCompletes`, the three returns of `BufferPool`, `NonBlocking`),
which is out of the prover's reach, and what the theorems' assumptions leave out: `DefaultStartFirst` beside a controller of
regions. Every safety property of the passing runs is stated by a theorem.

## Not modelled

Text (knobs, log, reports, csv); the choice of an analysis routine per instruction beyond size and kind; Pin's
own scheduling and locks (callbacks are atomic where Pin's client lock makes them so); counters
incremented by several threads at once, which need the composition below; statistics of the buffers; `overlap-ok`; memory barriers; and the parts marked planned. Most
of the tree is not the program's own logic: Pin's binaries, headers of xed and the C++ runtimes, and
hundreds of short example tools and tests of Pin's interface.

## Plan

What is left, in order: `CacheTool`, controller and cache composed with several threads, lost updates of
counters; `CallStack` against a reference stack with longjmp;
`IdSet`; the interactive listener against exit and fork; theorems that delimit the violations, as `UniformCountBounded` does:
no stranded buffer when the process does not exit early, sector flags with one sector a line; and `MissesFill` and
`ReportFits` for racing threads once `CacheTool` is there.
