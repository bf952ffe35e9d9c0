----------------------------- MODULE Controller -----------------------------
(***************************************************************************)
(* The region controller of InstLib: control chains of alarms, the alarm   *)
(* managers that fire them, and the handler of the cache tool that turns   *)
(* tracing on and off.  Analysis routines of several application threads   *)
(* run without a common lock, so the If part (Count) and the stages of the *)
(* Then part (Fire) of different threads interleave.                       *)
(*                                                                         *)
(* An alarm is a pair <<c, i>>: the i-th alarm of chain c.  Its parsed     *)
(* configuration is Alarm[c][i], a record with the fields                  *)
(*   kind    "icount", or the mark (address, ssc, itext ...) it waits for  *)
(*   ev      the event it raises                                           *)
(*   tid     the thread it is restricted to, or AllThreads                 *)
(*   bcast   whether the event is broadcast                                *)
(*   count   the target count after parsing                                *)
(*   uniform whether it is the uniform alarm, with period, length, cycles  *)
(***************************************************************************)
EXTENDS Integers, Sequences, FiniteSets

CONSTANTS
    Threads,     \* application thread ids
    AllThreads,  \* ALL_THREADS
    Alarm,       \* the parsed chains, in the order of their _id
    Repeat,      \* _repeat_token of every chain
    Indefinite,  \* REPEAT_INDEFINITELY
    WaitFor,     \* _wait_for_id of every chain, or NoWait
    NoWait,      \* NO_WAIT
    Blocks,      \* basic blocks and marked instructions of the application
    DefaultStart,\* the controller-default-start knob
    LogOn,       \* the controller-log knob
    WordMod,     \* modulus of the unsigned counters that may wrap
    MaxIcount    \* bound: instructions a thread executes when logging

Chains == DOMAIN Alarm
AlarmIds == UNION {{c} \X DOMAIN Alarm[c] : c \in Chains}
Conf(a) == Alarm[a[1]][a[2]]
Start == "start"
Stop == "stop"
Precond == "precond"
SubRegionEvents == {"warmup-start", "warmup-end", "prolog-start", "prolog-end",
                    "epilog-start", "epilog-end"}

AlarmConf ==
    [kind : STRING, ev : {Start, Stop, Precond}, tid : Threads \cup {AllThreads},
     bcast : BOOLEAN, count : Nat, uniform : BOOLEAN,
     period : Nat, length : Nat, cycles : Nat]

\* The configurations the cache tool accepts: its handler asserts on any event
\* but start and stop, and precond never reaches it.  ParseUniform asserts that
\* the period is no shorter than the length.
ASSUME ConfAssumption ==
    /\ Alarm \in Seq(Seq(AlarmConf))
    /\ \A c \in Chains : Len(Alarm[c]) > 0
    /\ \A a \in AlarmIds : Conf(a).period >= Conf(a).length

ASSUME ChainAssumption ==
    /\ Repeat \in [Chains -> Nat \cup {Indefinite}]
    /\ WaitFor \in [Chains -> Chains \cup {NoWait}]
    /\ NoWait \notin Chains /\ AllThreads \notin Threads /\ Indefinite \notin Nat
    /\ \A c \in Chains : WaitFor[c] \in Chains => WaitFor[c] < c

ASSUME BoundAssumption ==
    /\ Blocks \subseteq [size : Nat, marks : SUBSET STRING]
    /\ DefaultStart \in BOOLEAN /\ LogOn \in BOOLEAN
    /\ WordMod \in Nat \ {0, 1} /\ MaxIcount \in Nat
    /\ \A c \in Chains : Repeat[c] # Indefinite => Repeat[c] < WordMod

VARIABLES
    armed,          \* IALARM::_armed
    thread_count,   \* IALARM::_thread_count
    target_count,   \* IALARM::_target_count
    event_type,     \* ALARM_MANAGER::_event_type
    uniform_count,  \* ALARM_MANAGER::_uniform_count
    arm_next,       \* ALARM_MANAGER::_arm_next
    repeat,         \* CONTROL_CHAIN::_repeat
    start_thread,   \* INIT_ALARM::_start_thread
    iregions,       \* _iregions; of its state only _active matters here
    icount,         \* CONTROL_MANAGER::_icount
    out,            \* CONTROL_MANAGER::_out, the event log
    doTrace,        \* cache.cpp: whether statistics are recorded
    raised,         \* history: the events each uniform alarm has raised
    pc,             \* where a thread is in its analysis calls
    todo, ninst,    \* the alarms to call at the thread's block, its instructions
    cur,            \* the alarm being called
    sum, ev, bcast  \* locals of Count and of ALARM_MANAGER::Fire

alarmVars == <<armed, thread_count, target_count>>
managerVars == <<event_type, uniform_count, arm_next, repeat>>
logVars == <<icount, out, doTrace, raised>>
localVars == <<sum, ev, bcast>>
vars == <<alarmVars, managerVars, start_thread, iregions, logVars,
          pc, todo, ninst, cur, localVars>>
-----------------------------------------------------------------------------
\* The default start event is added when no chain has a start event and the
\* region controller says it is inactive.
HasStartEvent == \/ \E a \in AlarmIds : Conf(a).ev = Start
                 \/ iregions.active
InitAlarmOn == DefaultStart /\ ~HasStartEvent

\* Thread t passes the thread filter of alarm a.
CorrectTid(a, t) == Conf(a).tid \in {t, AllThreads}

\* Alarm a is counting for thread t.
ShouldCountUnarmed(a, t) == CorrectTid(a, t)
ShouldCount(a, t) == armed[a][t] /\ CorrectTid(a, t)

\* CONTROL_CHAIN::Activate: the first alarm of a chain that waits for no other.
ActivatedEarly(a, t) == a[2] = 1 /\ CorrectTid(a, t)
Activated(a, t) == a[2] = 1 /\ WaitFor[a[1]] = NoWait /\ CorrectTid(a, t)

\* The pseudo alarm of INIT_ALARM, instrumented after every chain's alarms.
InitAlarm == <<Len(Alarm) + 1, 1>>

\* The analysis calls at an instruction come in the order in which the alarms
\* were created.
Before(a, b) == a[1] < b[1] \/ (a[1] = b[1] /\ a[2] <= b[2])

\* The alarms instrumented at block b: an icount alarm counts the instructions
\* of a block at its head, another alarm counts one at each of its marks.
Instrumented(b) ==
    {a \in AlarmIds : IF Conf(a).kind = "icount" THEN b.size > 0
                                                 ELSE Conf(a).kind \in b.marks}
Weight(a, n) == IF Conf(a).kind = "icount" THEN n ELSE 1

InitChains ==
    /\ armed = [a \in AlarmIds |-> [t \in Threads |-> Activated(a, t)]]
    /\ thread_count = [a \in AlarmIds |-> [t \in Threads |-> 0]]
    /\ target_count = [a \in AlarmIds |-> Conf(a).count]
    /\ event_type = [a \in AlarmIds |-> Conf(a).ev]
    /\ uniform_count = [a \in AlarmIds |-> Conf(a).cycles]
    /\ arm_next = [a \in AlarmIds |-> ~Conf(a).uniform]
    /\ repeat = [c \in Chains |-> [t \in Threads |-> 0]]
    /\ start_thread = [t \in Threads |-> FALSE]
    /\ icount = [t \in Threads |-> 0]
    /\ out = << >>
    /\ doTrace = FALSE
    /\ raised = [a \in AlarmIds |-> << >>]
    /\ pc = [t \in Threads |-> "unborn"]
    /\ todo = [t \in Threads |-> {}]
    /\ ninst = [t \in Threads |-> 0]
    /\ cur = [t \in Threads |-> InitAlarm]
    /\ sum = [t \in Threads |-> 0]
    /\ ev = [t \in Threads |-> Start]
    /\ bcast = [t \in Threads |-> FALSE]

\* Without a regions file, what the constructor left uninitialised.
Init == InitChains /\ iregions \in [active : BOOLEAN]
-----------------------------------------------------------------------------
At(t, stage) == pc[t] = stage
Goto(t, stage) == pc' = [pc EXCEPT ![t] = stage]
NextCall(t, a) == a \in todo[t] /\ \A b \in todo[t] : Before(a, b)
Return(t, a) == todo' = [todo EXCEPT ![t] = @ \ {a}] /\ Goto(t, "run")

\* INIT_ALARM::ThreadStart.
BeginThread(t) ==
    /\ At(t, "unborn")
    /\ Goto(t, "run")
    /\ start_thread' = [start_thread EXCEPT ![t] = InitAlarmOn]
    /\ UNCHANGED <<alarmVars, managerVars, logVars, todo, ninst, cur, localVars>>
ThreadStart(t) == BeginThread(t) /\ UNCHANGED iregions

\* The thread reaches block b: the log's instruction count is advanced, and the
\* analysis calls of the block are due.
ReachBlock(t, b) ==
    /\ At(t, "run") /\ todo[t] = {}
    /\ LogOn => icount[t] + b.size <= MaxIcount
    /\ icount' = IF LogOn THEN [icount EXCEPT ![t] = @ + b.size] ELSE icount
    /\ todo' = [todo EXCEPT ![t] = Instrumented(b) \cup
                   IF start_thread[t] THEN {InitAlarm} ELSE {}]
    /\ ninst' = [ninst EXCEPT ![t] = b.size]
    /\ UNCHANGED <<alarmVars, managerVars, start_thread, out, doTrace, raised, pc, cur,
                   localVars>>
Exec(t, b) == ReachBlock(t, b) /\ UNCHANGED iregions

\* IALARM::Count, reading: the counter with the instructions added when the
\* alarm is armed for this thread and not restricted to another.
CountRead(t) ==
    /\ At(t, "run")
    /\ \E a \in AlarmIds :
           /\ NextCall(t, a)
           /\ cur' = [cur EXCEPT ![t] = a]
           /\ sum' = [sum EXCEPT ![t] = thread_count[a][t] +
                         IF ShouldCount(a, t) THEN Weight(a, ninst[t]) ELSE 0]
    /\ Goto(t, "count")
    /\ UNCHANGED <<alarmVars, managerVars, start_thread, iregions, logVars,
                   todo, ninst, ev, bcast>>

\* IALARM::Count, writing the counter and comparing it with the target.
CountWrite(t) ==
    /\ At(t, "count")
    /\ LET a == cur[t]
       IN  /\ thread_count' = [thread_count EXCEPT ![a][t] = sum[t]]
           /\ IF sum[t] >= target_count[a]
              THEN Goto(t, "disarm") /\ UNCHANGED todo
              ELSE Return(t, a)
    /\ UNCHANGED <<armed, target_count, managerVars, start_thread, iregions,
                   logVars, ninst, cur, localVars>>

\* IALARM::Disarm of the threads in ts.
DisarmForKeepingCount(a, ts) ==
    /\ armed' = [armed EXCEPT ![a] = [t \in Threads |-> IF t \in ts THEN FALSE ELSE @[t]]]
    /\ UNCHANGED thread_count
DisarmFor(a, ts) ==
    /\ armed' = [armed EXCEPT ![a] = [t \in Threads |-> IF t \in ts THEN FALSE ELSE @[t]]]
    /\ thread_count' = [thread_count EXCEPT ![a] =
                           [t \in Threads |-> IF t \in ts THEN 0 ELSE @[t]]]

\* The uniform alarm has cycles left, and what one more cycle leaves of them.
UniformActive(a) == Conf(a).uniform /\ uniform_count[a] # 0
UniformLeftUncounted(a) == uniform_count[a]
UniformLeft(a) == (uniform_count[a] - 1) % WordMod

\* ALARM_MANAGER::Fire: disarm, then save the event, which a uniform alarm is
\* about to change.
FireDisarm(t) ==
    /\ At(t, "disarm")
    /\ LET a == cur[t]
       IN  /\ DisarmFor(a, IF Conf(a).bcast THEN Threads ELSE {t})
           /\ ev' = [ev EXCEPT ![t] = event_type[a]]
           /\ bcast' = [bcast EXCEPT ![t] = Conf(a).bcast]
           /\ Goto(t, IF UniformActive(a) THEN "uniform" ELSE "handlers")
    /\ UNCHANGED <<target_count, managerVars, start_thread, iregions, logVars,
                   todo, ninst, cur, sum>>

\* IALARM::Arm, for all threads.
ArmNobody(a) == armed[a]
Arm(a) == [u \in Threads |-> TRUE]

\* SetNextUniformEvent, after all counters are reset: a start is followed by a
\* stop after length instructions; a stop ends a cycle, and unless it is the
\* last one the next start comes after period - length instructions.
FireUniform(t) ==
    /\ At(t, "uniform")
    /\ LET a == cur[t]
           left == UniformLeft(a)
           rearm(next, n) ==
               /\ event_type' = [event_type EXCEPT ![a] = next]
               /\ target_count' = [target_count EXCEPT ![a] = n]
               /\ armed' = [armed EXCEPT ![a] = Arm(a)]
       IN  /\ thread_count' = [thread_count EXCEPT ![a] = [u \in Threads |-> 0]]
           /\ bcast' = [bcast EXCEPT ![t] = TRUE]
           /\ \/ /\ event_type[a] = Start
                 /\ rearm(Stop, Conf(a).length)
                 /\ UNCHANGED <<uniform_count, arm_next>>
              \/ /\ event_type[a] = Stop
                 /\ uniform_count' = [uniform_count EXCEPT ![a] = left]
                 /\ \/ /\ left = 0
                       /\ arm_next' = [arm_next EXCEPT ![a] = TRUE]
                       /\ armed' = [armed EXCEPT ![a] = [u \in Threads |-> FALSE]]
                       /\ UNCHANGED <<event_type, target_count>>
                    \/ /\ left # 0
                       /\ rearm(Start, Conf(a).period - Conf(a).length)
                       /\ UNCHANGED arm_next
    /\ Goto(t, "handlers")
    /\ UNCHANGED <<repeat, start_thread, iregions, logVars, todo, ninst, cur,
                   sum, ev>>

\* CONTROL_MANAGER::Fire: the log entry, then the cache tool's Handler.
LogEvent(t, e) ==
    out' = IF LogOn THEN Append(out, [tid |-> t, ev |-> e, at |-> icount[t]]) ELSE out
HandlersNeverStopping(t, e) == LogEvent(t, e) /\ doTrace' = (doTrace \/ e = Start)
Handlers(t, e) == LogEvent(t, e) /\ doTrace' = (e = Start)

\* A precondition is not passed to the tool.
VisibleAlways(e) == TRUE
Visible(e) == e # Precond

\* CONTROL_CHAIN::Fire, first half.
FireHandlers(t) ==
    /\ At(t, "handlers")
    /\ IF Visible(ev[t]) THEN Handlers(t, ev[t]) ELSE UNCHANGED <<out, doTrace>>
    /\ raised' = IF Conf(cur[t]).uniform THEN [raised EXCEPT ![cur[t]] = Append(@, ev[t])]
                                         ELSE raised
    /\ Goto(t, "armnext")
    /\ UNCHANGED <<alarmVars, managerVars, start_thread, iregions, icount,
                   todo, ninst, cur, localVars>>

\* n completed repetitions are not enough for chain c.
NeedToRepeatOnceMore(c, n) == Repeat[c] = Indefinite \/ n <= Repeat[c]
NeedToRepeat(c, n) == Repeat[c] = Indefinite \/ n < Repeat[c]

LastAlarmTooEarly(a) == a[2] >= Len(Alarm[a[1]]) - 1
LastAlarm(a) == a[2] = Len(Alarm[a[1]])

\* The threads for which a firing in thread t arms the next alarm.
AudienceAll(t) == Threads
AudienceOne(t) == {t}
Audience(t) == IF bcast[t] THEN Threads ELSE {t}

\* The (alarm, thread) pairs ArmNextAlarm arms after alarm a fired in thread t,
\* n being the repetitions of the chain that t has completed.  Waiting chains
\* are armed for t alone.
NextArmed(a, t, n) ==
    CASE ~LastAlarm(a) -> {<<a[1], a[2] + 1>>} \X Audience(t)
      [] LastAlarm(a) /\ NeedToRepeat(a[1], n) -> {<<a[1], 1>>} \X Audience(t)
      [] OTHER -> {<<c, 1>> : c \in {c \in Chains : WaitFor[c] = a[1]}} \X {t}

\* _repeat of thread t in the chain of a, after a fired: the last alarm counts it.
Repetitions(a, t) == IF LastAlarm(a) THEN (repeat[a[1]][t] + 1) % WordMod
                                     ELSE repeat[a[1]][t]

\* CONTROL_CHAIN::Fire, second half: ArmNextAlarm unless a uniform alarm still
\* has cycles to go.
FireArmNext(t) ==
    /\ At(t, "armnext")
    /\ LET a == cur[t]
           n == Repetitions(a, t)
       IN  \/ /\ arm_next[a]
              /\ repeat' = [repeat EXCEPT ![a[1]][t] = n]
              /\ armed' = [b \in AlarmIds |-> [u \in Threads |->
                     armed[b][u] \/ <<b, u>> \in NextArmed(a, t, n)]]
           \/ /\ ~arm_next[a]
              /\ UNCHANGED <<repeat, armed>>
    /\ Return(t, cur[t])
    /\ UNCHANGED <<thread_count, target_count, event_type, uniform_count, arm_next,
                   start_thread, iregions, logVars, ninst, cur, localVars>>

\* INIT_ALARM::Start, the start event of a thread when no chain has one.
InitStartForEver(t) ==
    /\ At(t, "run") /\ NextCall(t, InitAlarm)
    /\ Handlers(t, Start)
    /\ Return(t, InitAlarm)
    /\ UNCHANGED <<alarmVars, managerVars, start_thread, iregions, icount, raised, ninst,
                   cur, localVars>>
InitStart(t) ==
    /\ At(t, "run") /\ NextCall(t, InitAlarm)
    /\ start_thread' = [start_thread EXCEPT ![t] = FALSE]
    /\ Handlers(t, Start)
    /\ Return(t, InitAlarm)
    /\ UNCHANGED <<alarmVars, managerVars, iregions, icount, raised, ninst, cur,
                   localVars>>

Analysis(t) == \/ CountRead(t) \/ CountWrite(t)
               \/ FireDisarm(t) \/ FireUniform(t) \/ FireHandlers(t) \/ FireArmNext(t)
               \/ InitStart(t)

Next == \E t \in Threads : \/ ThreadStart(t)
                           \/ \E b \in Blocks : Exec(t, b)
                           \/ Analysis(t)

Spec == Init /\ [][Next]_vars
-----------------------------------------------------------------------------
Stages == {"unborn", "run", "count", "disarm", "uniform", "handlers", "armnext"}

\* Type invariant.
TypeOK ==
    /\ armed \in [AlarmIds -> [Threads -> BOOLEAN]]
    /\ thread_count \in [AlarmIds -> [Threads -> Nat]]
    /\ target_count \in [AlarmIds -> Nat]
    /\ event_type \in [AlarmIds -> {Start, Stop, Precond}]
    /\ uniform_count \in [AlarmIds -> Nat]
    /\ arm_next \in [AlarmIds -> BOOLEAN]
    /\ repeat \in [Chains -> [Threads -> Nat]]
    /\ start_thread \in [Threads -> BOOLEAN]
    /\ iregions.active \in BOOLEAN
    /\ icount \in [Threads -> Nat]
    /\ out \in Seq([tid : Threads, ev : {Start, Stop} \cup SubRegionEvents, at : Nat])
    /\ doTrace \in BOOLEAN
    /\ raised \in [AlarmIds -> Seq({Start, Stop, Precond})]
    /\ pc \in [Threads -> Stages]
    /\ todo \in [Threads -> SUBSET (AlarmIds \cup {InitAlarm})]
    /\ ninst \in [Threads -> Nat]
    /\ cur \in [Threads -> AlarmIds \cup {InitAlarm}]
    /\ \A t \in Threads : pc[t] \notin {"unborn", "run"} => cur[t] \in AlarmIds
    /\ sum \in [Threads -> Nat]
    /\ ev \in [Threads -> {Start, Stop, Precond}]
    /\ bcast \in [Threads -> BOOLEAN]

\* Thread t has taken alarm a out of the armed state and not yet armed the next.
InFlight(a, t) == pc[t] \in {"uniform", "handlers", "armnext"} /\ cur[t] = a

\* A chain that every thread runs for itself.
PerThreadChains == \A a \in AlarmIds : ~Conf(a).bcast /\ ~Conf(a).uniform /\ Conf(a).count > 0

\* In a chain without broadcast a thread is at one place only: it waits for one
\* alarm, or is between firing one and arming the next, never both (control_chain.H:43).
OneStagePerThread ==
    \A t \in Threads : \A a, b \in AlarmIds : a[1] = b[1] =>
        /\ armed[a][t] => ~InFlight(b, t)
        /\ armed[a][t] /\ armed[b][t] => a = b

\* Count returns true only for an alarm that is armed for this thread and not
\* restricted to another one (ialarm.H:87-89).
FiresOnlyIfArmed ==
    \A t \in Threads : At(t, "disarm") =>
        armed[cur[t]][t] /\ CorrectTid(cur[t], t)

\* A chain with waitfor is entered by a thread only after that thread has
\* completed the chain it waits for (control_chain.H:46).
Completed(c, t) == repeat[c][t] > 0 /\ ~NeedToRepeat(c, repeat[c][t])
WaitsForCompletion ==
    \A t \in Threads : \A a \in AlarmIds :
        WaitFor[a[1]] \in Chains /\ (armed[a][t] \/ InFlight(a, t)) =>
            Completed(WaitFor[a[1]], t)

\* The number of the event at index j of the log among those of its thread.
EventNumber(j) == Cardinality({i \in 1..j : out[i].tid = out[j].tid})

\* The alarm of a single chain that raises the k-th event of a thread.
AlarmOfEvent(k) == Alarm[1][((k - 1) % Len(Alarm[1])) + 1]

\* A thread's events are those of its chain, in the order of the chain, repeated
\* at most as often as the repeat token says.
EventsInChainOrder ==
    \A j \in DOMAIN out :
        /\ out[j].ev = AlarmOfEvent(EventNumber(j)).ev
        /\ Repeat[1] # Indefinite => EventNumber(j) <= Len(Alarm[1]) * Repeat[1]

\* The instructions between two consecutive events of a thread are the target of
\* the later alarm, give or take one block: the target is met at the head of a
\* block, before the block runs.
MaxBlock == CHOOSE n \in {b.size : b \in Blocks} : \A b \in Blocks : b.size <= n
WithinBlock(measured, wanted) == measured - wanted \in -MaxBlock .. (MaxBlock - 1)
PreviousEvent(j) ==
    {i \in 1..(j - 1) : /\ out[i].tid = out[j].tid
                        /\ \A k \in (i + 1)..(j - 1) : out[k].tid # out[j].tid}
RegionWithinBlock ==
    \A j \in DOMAIN out :
        LET wanted == AlarmOfEvent(EventNumber(j)).count
        IN  /\ EventNumber(j) = 1 => WithinBlock(out[j].at, wanted)
            /\ \A i \in PreviousEvent(j) : WithinBlock(out[j].at - out[i].at, wanted)

\* Thread t has raised a start event and not yet its stop event.
InRegion(t) == \/ \E a \in AlarmIds : Conf(a).ev = Stop /\ armed[a][t]
               \/ At(t, "armnext") /\ ev[t] = Start
               \/ At(t, "handlers") /\ ev[t] = Stop

\* doTrace is one flag for all threads: whoever cleared it last, it is never on
\* while no thread is between its start and its stop event.
TracingOnlyInsideARegion == doTrace => \E t \in Threads : InRegion(t)

\* A chain of broadcast alarms that repeats for ever is never lost in a race of
\* its firings: when no thread is firing, some alarm is armed for all threads.
BcastKeepsAllArmed ==
    \/ \E t \in Threads : pc[t] \in {"disarm", "uniform", "handlers", "armnext"}
    \/ \E a \in AlarmIds : \A t \in Threads : armed[a][t]

\* A uniform alarm raises start and stop in turn, each no more often than its
\* cycle count, and hands over to the next alarm after the last stop only.
UniformCycles ==
    \A a \in AlarmIds : Conf(a).uniform =>
        /\ \A k \in DOMAIN raised[a] : raised[a][k] = (IF k % 2 = 1 THEN Start ELSE Stop)
        /\ Len(raised[a]) <= 2 * Conf(a).cycles
        /\ arm_next[a] /\ (\A t \in Threads : ~InFlight(a, t)) =>
               Len(raised[a]) = 2 * Conf(a).cycles

\* A uniform alarm counts its cycles down and never past zero
\* (alarm_manager.cpp:167, uniform:<period>:<length>:<count>).
UniformCountNeverWraps == \A a \in AlarmIds : uniform_count[a] <= Conf(a).cycles

\* With the default start, each thread raises it once and before any stop, unless
\* its first block reaches a target: the alarms are called before INIT_ALARM.
LateFirst == \A c \in Chains : WaitFor[c] = NoWait => Conf(<<c, 1>>).count > MaxBlock
DefaultStartFirst ==
    InitAlarmOn /\ LateFirst => \A j \in DOMAIN out : out[j].ev = Start <=> EventNumber(j) = 1
-----------------------------------------------------------------------------
\* Application threads keep executing and their analysis calls return.
Fairness == \A t \in Threads :
    /\ WF_vars(ThreadStart(t))
    /\ WF_vars(\E b \in Blocks : Exec(t, b))
    /\ WF_vars(Analysis(t))
FairSpec == Spec /\ Fairness

\* Tracing that was started is stopped again.
TracingStops == doTrace ~> ~doTrace

\* A uniform alarm completes its cycles.
UniformCompletes == <>(\A a \in AlarmIds : Conf(a).uniform => arm_next[a])
=============================================================================
