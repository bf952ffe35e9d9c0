------------------------------- MODULE Regions -------------------------------
(***************************************************************************)
(* The regions controller of InstLib beside the chains of alarms: a file   *)
(* lists regions of every thread, each of which raises up to eight events  *)
(* at given instruction counts,                                            *)
(*     warmup -- prolog -- region -- epilog,                               *)
(* and a record that overlaps an earlier one is skipped (overlap-ok 0).    *)
(* The events go to the tool's handler as those of the alarms do; the tool *)
(* here ignores all but start and stop.                                    *)
(***************************************************************************)
EXTENDS Controller, SequencesExt

CONSTANTS
    Warmup, Prolog, Epilog, \* the knobs of these names
    RegionFiles,  \* what a file may hold: a sequence of records per thread
    ICOUNT_MAX    \* the largest count, for no event

ASSUME RegionAssumption ==
    /\ Warmup \in Nat /\ Prolog \in Nat /\ Epilog \in Nat
    /\ RegionFiles \subseteq [Threads -> Seq([start : Nat, end : Nat])]
    /\ \A f \in RegionFiles, t \in Threads : \A i \in DOMAIN f[t] : f[t][i].start < f[t][i].end
    /\ ICOUNT_MAX \in Nat /\ ICOUNT_MAX > MaxIcount

\* Besides active, iregions has the fields
\*   given             whether regions:in names a file
\*   events            _events: the sorted events of every thread
\*   count, next_event_count  the fields of THREAD_DATA of every thread
\*   nextevent         _nextevent
\*   last_triggered_region    _last_triggered_region
\*   stage             where the thread is in the analysis call of a block
\*   fired             history: the events fired, of every thread
chainVars == <<alarmVars, managerVars, start_thread, logVars, pc, todo, ninst, cur, localVars>>
NoRegion == [start |-> 0, end |-> 0]
-----------------------------------------------------------------------------
(* ProcessRegions and ProcessEvents, before the program runs *)

\* The warmup and the prolog of a region that starts too early are left out.
WarmupStart(r) == r.start - Prolog - Warmup
PrologStart(r) == r.start - Prolog
HasWarmup(r) == Warmup > 0 /\ WarmupStart(r) > 0
HasProlog(r) == Prolog > 0 /\ PrologStart(r) > 0
SpanBegin(r) == CASE HasWarmup(r) -> WarmupStart(r)
                  [] ~HasWarmup(r) /\ HasProlog(r) -> PrologStart(r)
                  [] OTHER -> r.start
SpanEnd(r) == r.end + Epilog

Event(r, n, e) == [icount |-> n, type |-> e, region |-> r]
EventsOfRegion(r) ==
    {Event(r, r.start, Start), Event(r, r.end, Stop)}
    \cup (IF HasWarmup(r) THEN {Event(r, WarmupStart(r), "warmup-start"),
                                Event(r, PrologStart(r), "warmup-end")} ELSE {})
    \cup (IF HasProlog(r) THEN {Event(r, PrologStart(r), "prolog-start"),
                                Event(r, r.start, "prolog-end")} ELSE {})
    \cup (IF Epilog > 0 THEN {Event(r, r.end, "epilog-start"),
                              Event(r, SpanEnd(r), "epilog-end")} ELSE {})

\* A record is skipped when an event of those before it falls into its span.
RegionHasOverlap(E, r) == \E e \in E : SpanBegin(r) <= e.icount /\ e.icount <= SpanEnd(r)
ProcessRegions(s) ==
    LET accepted[i \in 0..Len(s)] ==
            IF i = 0 THEN {}
            ELSE IF RegionHasOverlap(accepted[i - 1], s[i]) THEN accepted[i - 1]
            ELSE accepted[i - 1] \cup EventsOfRegion(s[i])
    IN  accepted[Len(s)]

Picture == <<"warmup-start", "warmup-end", "prolog-start", "prolog-end", Start, Stop,
             "epilog-start", "epilog-end">>
Rank(e) == CHOOSE i \in DOMAIN Picture : Picture[i] = e
EventLessThanLatestFirst(a, b) == \/ a.icount < b.icount
                                  \/ a.icount = b.icount /\ Rank(a.type) >= Rank(b.type)
EventLessThan(a, b) == \/ a.icount < b.icount
                       \/ a.icount = b.icount /\ Rank(a.type) <= Rank(b.type)
ProcessEvents(E) ==
    [i \in 1..Cardinality(E) |->
        CHOOSE e \in E : Cardinality({d \in E \ {e} : EventLessThan(d, e)}) = i - 1]

\* Activate makes the controller active; without a file it stays what the
\* constructor left.
RegionsInit ==
    /\ InitChains
    /\ \E given, active \in BOOLEAN, f \in RegionFiles :
           /\ given => active
           /\ iregions =
                  [active |-> active,
                   given |-> given,
                   events |-> [t \in Threads |->
                                  IF given THEN ProcessEvents(ProcessRegions(f[t])) ELSE << >>],
                   count |-> [t \in Threads |-> 0],
                   next_event_count |-> [t \in Threads |-> ICOUNT_MAX],
                   nextevent |-> [t \in Threads |-> 1],
                   last_triggered_region |-> [t \in Threads |-> NoRegion],
                   stage |-> [t \in Threads |-> "done"],
                   fired |-> [t \in Threads |-> << >>]]
-----------------------------------------------------------------------------
\* The count of the event at index i.
CountOf(t, i) == IF i > Len(iregions.events[t]) THEN ICOUNT_MAX ELSE iregions.events[t][i].icount

RegionsThreadStart(t) ==
    /\ BeginThread(t)
    /\ iregions' = [iregions EXCEPT !.next_event_count[t] = CountOf(t, 1)]

\* The call of the regions comes after those of the chains' alarms.
RegionsExec(t, b) ==
    /\ iregions.stage[t] = "done"
    /\ ReachBlock(t, b)
    /\ iregions' = [iregions EXCEPT !.stage[t] = IF iregions.given THEN "if" ELSE "done"]

ReachedLate(n, at) == n > at
Reached(n, at) == n >= at

AdvanceIf(t) ==
    /\ At(t, "run") /\ todo[t] = {}
    /\ iregions.stage[t] = "if"
    /\ LET n == iregions.count[t] + ninst[t]
           due == Reached(n, iregions.next_event_count[t])
       IN  iregions' = [iregions EXCEPT !.count[t] = n,
                                        !.stage[t] = IF due THEN "then" ELSE "done"]
    /\ UNCHANGED chainVars

\* AdvanceThen: the events that are due, one by one ...
NextEvent(t) == iregions.events[t][iregions.nextevent[t]]
NextEventCount(t) == CountOf(t, iregions.nextevent[t])
AdvanceThenFire(t) ==
    /\ iregions.stage[t] = "then"
    /\ NextEventCount(t) <= iregions.count[t]
    /\ LET e == NextEvent(t)
       IN  /\ \/ e.type \in {Start, Stop} /\ Handlers(t, e.type)
              \/ e.type \in SubRegionEvents /\ LogEvent(t, e.type) /\ UNCHANGED doTrace
           /\ iregions' = [iregions EXCEPT !.last_triggered_region[t] = e.region,
                                           !.nextevent[t] = @ + 1,
                                           !.fired[t] = Append(@, e)]
    /\ UNCHANGED <<alarmVars, managerVars, start_thread, icount, raised, pc, todo, ninst, cur,
                   localVars>>
\* ... and then the count of the next one.
AdvanceThenReturn(t) ==
    /\ iregions.stage[t] = "then"
    /\ NextEventCount(t) > iregions.count[t]
    /\ iregions' = [iregions EXCEPT !.next_event_count[t] = NextEventCount(t),
                                    !.stage[t] = "done"]
    /\ UNCHANGED chainVars

RegionsNext == \E t \in Threads :
    \/ RegionsThreadStart(t)
    \/ \E b \in Blocks : RegionsExec(t, b)
    \/ Analysis(t)
    \/ AdvanceIf(t) \/ AdvanceThenFire(t) \/ AdvanceThenReturn(t)

RegionsSpec == RegionsInit /\ [][RegionsNext]_vars
-----------------------------------------------------------------------------
\* Between blocks the events that a thread has fired are those of its list whose
\* count it has reached: none is late, missed or fired twice, however many fall
\* into one block (AdvanceIf, AdvanceThen).
EventsFiredOnTime ==
    \A t \in Threads : iregions.stage[t] = "done" /\ iregions.count[t] > 0 =>
        /\ ToSet(iregions.fired[t]) =
               {e \in ToSet(iregions.events[t]) : e.icount <= iregions.count[t]}
        /\ IsInjective(iregions.fired[t])

\* The sub-regions of r, as the file and the knobs give them, contain the span of s.
Around(r, s) == \E i, j \in {SpanBegin(r), PrologStart(r), r.start, r.end, SpanEnd(r)} :
                    i < SpanBegin(s) /\ SpanEnd(s) < j

\* The events of a region come in the order of the picture, and those of another
\* accepted region do not come between them, unless that region lies inside.
RegionsAsPictured ==
    \A t \in Threads : \A i, j \in DOMAIN iregions.fired[t] :
        LET a == iregions.fired[t][i]
            b == iregions.fired[t][j]
        IN  i < j => /\ a.region = b.region => Rank(a.type) < Rank(b.type)
                     /\ a.region # b.region /\ ~Around(a.region, b.region) =>
                            \A k \in DOMAIN iregions.fired[t] :
                                iregions.fired[t][k].region = a.region => k < j
=============================================================================
