------------------------- MODULE ControllerEventProofs -------------------------
(***************************************************************************)
(* Theorems about the events that Controller raises: their order, their    *)
(* instruction counts, tracing, the default start, broadcast chains and    *)
(* uniform alarms.                                                         *)
(***************************************************************************)
EXTENDS ControllerProofs, FiniteSetTheorems

(* What an action does to each thread when every alarm counts for the thread  *)
(* that it is armed for.  No alarm changes its event or its target, and a     *)
(* firing thread carries the event of its alarm.                              *)
Firing ==
    /\ \A a \in AlarmIds : /\ event_type[a] = Conf(a).ev /\ arm_next[a]
                           /\ target_count[a] = Conf(a).count
    /\ \A t \in Threads : At(t, "handlers") \/ At(t, "armnext") => ev[t] = Conf(cur[t]).ev
FiringInv == Inv /\ Firing

\* Thread t alone goes to stage s.
Alone(t, s) == \A u \in Threads : pc'[u] = IF u = t THEN s ELSE pc[u]

LEMMA GotoAlone == ASSUME TypeOK, NEW t \in Threads, NEW s, Goto(t, s) PROVE Alone(t, s)
BY DEF Goto, Alone, TypeOK

LEMMA StartStep ==
    ASSUME FiringInv, NEW t \in Threads, ThreadStart(t)
    PROVE  /\ pc[t] = "unborn" /\ Alone(t, "run")
           /\ start_thread' = [start_thread EXCEPT ![t] = InitAlarmOn]
           /\ UNCHANGED <<armed, thread_count, target_count, event_type, arm_next, repeat,
                          iregions, icount, out, doTrace, todo, ninst, cur, sum, ev>>
BY GotoAlone DEF FiringInv, Inv, At, ThreadStart, BeginThread, alarmVars, managerVars, logVars,
                 localVars

LEMMA ExecStep ==
    ASSUME FiringInv, NEW t \in Threads, NEW b \in Blocks, Exec(t, b)
    PROVE  /\ pc[t] = "run" /\ todo[t] = {}
           /\ icount' = IF LogOn THEN [icount EXCEPT ![t] = @ + b.size] ELSE icount
           /\ \A u \in Threads :
                  /\ todo'[u] = IF u = t THEN Instrumented(b) \cup
                                              IF start_thread[t] THEN {InitAlarm} ELSE {}
                                         ELSE todo[u]
                  /\ ninst'[u] = IF u = t THEN b.size ELSE ninst[u]
           /\ UNCHANGED <<armed, thread_count, target_count, event_type, arm_next, repeat,
                          iregions, start_thread, out, doTrace, pc, cur, sum, ev>>
BY DEF FiringInv, Inv, TypeOK, At, Exec, ReachBlock, alarmVars, managerVars, localVars

LEMMA ReadStep ==
    ASSUME FiringInv, NEW t \in Threads, CountRead(t)
    PROVE  \E a \in AlarmIds :
               /\ pc[t] = "run" /\ NextCall(t, a) /\ Alone(t, "count")
               /\ \A u \in Threads :
                      /\ cur'[u] = IF u = t THEN a ELSE cur[u]
                      /\ sum'[u] = IF u = t THEN thread_count[a][t] +
                                                 IF ShouldCount(a, t) THEN Weight(a, ninst[t]) ELSE 0
                                            ELSE sum[u]
               /\ UNCHANGED <<armed, thread_count, target_count, event_type, arm_next, repeat,
                              start_thread, iregions, icount, out, doTrace, todo, ninst, ev>>
<1>1. PICK a \in AlarmIds :
          /\ NextCall(t, a)
          /\ cur' = [cur EXCEPT ![t] = a]
          /\ sum' = [sum EXCEPT ![t] = thread_count[a][t] +
                         IF ShouldCount(a, t) THEN Weight(a, ninst[t]) ELSE 0]
  BY DEF CountRead
<1>2. /\ pc[t] = "run" /\ Alone(t, "count")
      /\ UNCHANGED <<armed, thread_count, target_count, event_type, arm_next, repeat,
                     start_thread, iregions, icount, out, doTrace, todo, ninst, ev>>
  BY GotoAlone DEF FiringInv, Inv, At, CountRead, alarmVars, managerVars, logVars
<1>3. \A u \in Threads :
          /\ cur'[u] = IF u = t THEN a ELSE cur[u]
          /\ sum'[u] = IF u = t THEN thread_count[a][t] +
                                     IF ShouldCount(a, t) THEN Weight(a, ninst[t]) ELSE 0
                                ELSE sum[u]
  BY <1>1 DEF FiringInv, Inv, TypeOK
<1> QED BY <1>1, <1>2, <1>3

LEMMA WriteStep ==
    ASSUME FiringInv, NEW t \in Threads, CountWrite(t)
    PROVE  /\ pc[t] = "count" /\ cur[t] \in AlarmIds
           /\ \A a \in AlarmIds, u \in Threads :
                  thread_count'[a][u] = IF a = cur[t] /\ u = t THEN sum[t] ELSE thread_count[a][u]
           /\ \/ sum[t] >= target_count[cur[t]] /\ Alone(t, "disarm") /\ UNCHANGED todo
              \/ /\ ~(sum[t] >= target_count[cur[t]]) /\ Alone(t, "run")
                 /\ \A u \in Threads :
                        todo'[u] = IF u = t THEN todo[t] \ {cur[t]} ELSE todo[u]
           /\ UNCHANGED <<armed, target_count, event_type, arm_next, repeat, start_thread,
                          iregions, icount, out, doTrace, ninst, cur, sum, ev>>
<1>1. pc[t] = "count" /\ cur[t] \in AlarmIds /\ TypeOK
  BY DEF CountWrite, At, FiringInv, Inv, TypeOK
<1>2. \A a \in AlarmIds, u \in Threads :
          thread_count'[a][u] = IF a = cur[t] /\ u = t THEN sum[t] ELSE thread_count[a][u]
  BY <1>1 DEF CountWrite, TypeOK
<1>3. CASE sum[t] >= target_count[cur[t]]
  BY <1>1, <1>2, <1>3, GotoAlone DEF CountWrite, managerVars, logVars, localVars
<1>4. CASE ~(sum[t] >= target_count[cur[t]])
  <2>1. Goto(t, "run") /\ todo' = [todo EXCEPT ![t] = @ \ {cur[t]}]
    BY <1>4 DEF CountWrite, Return
  <2>2. \A u \in Threads : todo'[u] = IF u = t THEN todo[t] \ {cur[t]} ELSE todo[u]
    BY <1>1, <2>1 DEF TypeOK
  <2> QED BY <1>1, <1>2, <1>4, <2>1, <2>2, GotoAlone DEF CountWrite, managerVars, logVars, localVars
<1> QED BY <1>3, <1>4

LEMMA DisarmStep ==
    ASSUME PerThreadChains, FiringInv, NEW t \in Threads, FireDisarm(t)
    PROVE  /\ pc[t] = "disarm" /\ Alone(t, "handlers")
           /\ cur[t] \in AlarmIds /\ armed[cur[t]][t] /\ CorrectTid(cur[t], t)
           /\ \A a \in AlarmIds, u \in Threads :
                  /\ armed'[a][u] <=> (armed[a][u] /\ ~(a = cur[t] /\ u = t))
                  /\ thread_count'[a][u] = IF a = cur[t] /\ u = t THEN 0 ELSE thread_count[a][u]
           /\ \A u \in Threads : ev'[u] = IF u = t THEN Conf(cur[t]).ev ELSE ev[u]
           /\ UNCHANGED <<target_count, event_type, arm_next, repeat, start_thread, iregions,
                          icount, out, doTrace, todo, ninst, cur, sum>>
<1> DEFINE a == cur[t]
<1>1. a \in AlarmIds /\ pc[t] = "disarm" /\ armed[a][t] /\ CorrectTid(a, t) /\ TypeOK
  BY DEF FireDisarm, At, FiringInv, Inv, TypeOK, Counters, FiresOnlyIfArmed
<1>2. Conf(a).bcast = FALSE /\ ~UniformActive(a)
  BY <1>1, ConfType DEF PerThreadChains, UniformActive
<1>3. /\ DisarmFor(a, {t}) /\ Goto(t, "handlers")
      /\ ev' = [ev EXCEPT ![t] = Conf(a).ev]
      /\ UNCHANGED <<target_count, event_type, arm_next, repeat, start_thread, iregions,
                     icount, out, doTrace, todo, ninst, cur, sum>>
  BY <1>1, <1>2 DEF FireDisarm, FiringInv, Firing, managerVars, logVars
<1>4. \A b \in AlarmIds, u \in Threads :
          /\ armed'[b][u] <=> (armed[b][u] /\ ~(b = a /\ u = t))
          /\ thread_count'[b][u] = IF b = a /\ u = t THEN 0 ELSE thread_count[b][u]
  <2>1. \A b \in AlarmIds, u \in Threads :
            /\ b = a /\ u = t => ~armed'[b][u] /\ thread_count'[b][u] = 0
            /\ ~(b = a /\ u = t) => /\ armed'[b][u] = armed[b][u]
                                    /\ thread_count'[b][u] = thread_count[b][u]
    BY <1>1, <1>3 DEF DisarmFor, TypeOK
  <2>2. armed' \in [AlarmIds -> [Threads -> BOOLEAN]] /\ armed \in [AlarmIds -> [Threads -> BOOLEAN]]
    BY <1>1, <1>3, DisarmType DEF TypeOK
  <2> QED BY <2>1, <2>2
<1>5. \A u \in Threads : ev'[u] = IF u = t THEN Conf(a).ev ELSE ev[u]
  BY <1>1, <1>3 DEF TypeOK
<1> QED BY <1>1, <1>3, <1>4, <1>5, GotoAlone

LEMMA HandlersStep ==
    ASSUME FiringInv, NEW t \in Threads, FireHandlers(t)
    PROVE  /\ pc[t] = "handlers" /\ Alone(t, "armnext")
           /\ cur[t] \in AlarmIds /\ ev[t] = Conf(cur[t]).ev
           /\ IF ev[t] # Precond THEN Handlers(t, ev[t]) ELSE UNCHANGED <<out, doTrace>>
           /\ UNCHANGED <<armed, thread_count, target_count, event_type, arm_next, repeat,
                          start_thread, iregions, icount, todo, ninst, cur, sum, ev>>
<1>1. pc[t] = "handlers" /\ cur[t] \in AlarmIds /\ ev[t] = Conf(cur[t]).ev /\ TypeOK
  BY DEF FireHandlers, At, FiringInv, Firing, Inv, TypeOK
<1> QED BY <1>1, GotoAlone DEF FireHandlers, Visible, alarmVars, managerVars, localVars

LEMMA ArmNextStep ==
    ASSUME FiringInv, NEW t \in Threads, FireArmNext(t)
    PROVE  LET a == cur[t]
               n == Repetitions(a, t)
           IN  /\ pc[t] = "armnext" /\ Alone(t, "run")
               /\ a \in AlarmIds /\ a[1] \in Chains /\ bcast[t] = FALSE /\ n \in Nat
               /\ \A c \in Chains, u \in Threads :
                      repeat'[c][u] = IF c = a[1] /\ u = t THEN n ELSE repeat[c][u]
               /\ \A b \in AlarmIds, u \in Threads :
                      armed'[b][u] <=> (armed[b][u] \/ <<b, u>> \in NextArmed(a, t, n))
               /\ \A u \in Threads : todo'[u] = IF u = t THEN todo[t] \ {a} ELSE todo[u]
               /\ UNCHANGED <<thread_count, target_count, event_type, arm_next, start_thread,
                              iregions, icount, out, doTrace, ninst, cur, sum, ev>>
<1> DEFINE a == cur[t]
           n == Repetitions(a, t)
<1>1. /\ a \in AlarmIds /\ a[1] \in Chains /\ pc[t] = "armnext" /\ TypeOK /\ arm_next[a]
      /\ bcast[t] = FALSE
  BY AlarmId DEF FireArmNext, At, FiringInv, Firing, Inv, Counters, TypeOK
<1>2. n \in Nat
  <2>1. repeat[a[1]][t] \in Nat
    BY <1>1 DEF TypeOK
  <2> QED BY <2>1, BoundAssumption DEF Repetitions
<1>3. /\ Goto(t, "run") /\ todo' = [todo EXCEPT ![t] = @ \ {a}]
      /\ repeat' = [repeat EXCEPT ![a[1]][t] = n]
      /\ armed' = [b \in AlarmIds |-> [u \in Threads |->
                      armed[b][u] \/ <<b, u>> \in NextArmed(a, t, n)]]
      /\ UNCHANGED <<thread_count, target_count, event_type, arm_next, start_thread,
                     iregions, icount, out, doTrace, ninst, cur, sum, ev>>
  BY <1>1 DEF FireArmNext, Return, logVars, localVars
<1> HIDE DEF n
<1>4. /\ \A c \in Chains, u \in Threads :
             repeat'[c][u] = IF c = a[1] /\ u = t THEN n ELSE repeat[c][u]
      /\ \A u \in Threads : todo'[u] = IF u = t THEN todo[t] \ {a} ELSE todo[u]
  BY <1>1, <1>3 DEF TypeOK
<1>5. \A b \in AlarmIds, u \in Threads :
          armed'[b][u] <=> (armed[b][u] \/ <<b, u>> \in NextArmed(a, t, n))
  BY <1>3
<1>6. Alone(t, "run")
  BY <1>1, <1>3, GotoAlone
<1> QED BY <1>1, <1>2, <1>3, <1>4, <1>5, <1>6 DEF n

LEMMA InitStartStep ==
    ASSUME FiringInv, NEW t \in Threads, InitStart(t)
    PROVE  /\ pc[t] = "run" /\ NextCall(t, InitAlarm) /\ Alone(t, "run")
           /\ Handlers(t, Start)
           /\ \A u \in Threads : todo'[u] = IF u = t THEN todo[t] \ {InitAlarm} ELSE todo[u]
           /\ start_thread' = [start_thread EXCEPT ![t] = FALSE]
           /\ UNCHANGED <<armed, thread_count, target_count, event_type, arm_next, repeat,
                          iregions, icount, ninst, cur, sum, ev>>
<1>1. Goto(t, "run") /\ todo' = [todo EXCEPT ![t] = @ \ {InitAlarm}] /\ TypeOK
  BY DEF InitStart, Return, FiringInv, Inv
<1>2. \A u \in Threads : todo'[u] = IF u = t THEN todo[t] \ {InitAlarm} ELSE todo[u]
  BY <1>1 DEF TypeOK
<1> QED BY <1>1, <1>2, GotoAlone DEF InitStart, At, alarmVars, managerVars, localVars

LEMMA InitFiring == PerThreadChains /\ Init => FiringInv
BY InitInv, ZenonT(30) DEF FiringInv, Firing, Init, InitChains, PerThreadChains, At

LEMMA StepFiring == PerThreadChains /\ FiringInv /\ [Next]_vars => FiringInv'
<1> SUFFICES ASSUME PerThreadChains, FiringInv, [Next]_vars PROVE Firing'
  BY StepInv DEF FiringInv
<1>1. CASE UNCHANGED vars
  BY <1>1 DEF FiringInv, Firing, At, vars, alarmVars, managerVars, localVars
<1> SUFFICES ASSUME NEW t \in Threads,
                    \/ ThreadStart(t)
                    \/ \E b \in Blocks : Exec(t, b)
                    \/ Analysis(t)
             PROVE  Firing'
  BY <1>1 DEF Next
<1>2. CASE ThreadStart(t)
  BY <1>2, StartStep DEF FiringInv, Firing, At, Alone
<1>3. CASE \E b \in Blocks : Exec(t, b)
  BY <1>3, ExecStep DEF FiringInv, Firing, At
<1>4. CASE CountRead(t)
  <2>1. PICK a \in AlarmIds :
            /\ Alone(t, "count") /\ UNCHANGED <<target_count, event_type, arm_next, ev>>
            /\ \A u \in Threads : u # t => cur'[u] = cur[u]
    BY <1>4, ReadStep
  <2> QED BY <2>1 DEF FiringInv, Firing, At, Alone
<1>5. CASE CountWrite(t)
  BY <1>5, WriteStep, ZenonT(30) DEF FiringInv, Firing, At, Alone
<1>6. CASE FireDisarm(t)
  BY <1>6, DisarmStep DEF FiringInv, Firing, At, Alone
<1>7. CASE FireUniform(t)
  BY <1>7 DEF FireUniform, FiringInv, Inv, Counters
<1>8. CASE FireHandlers(t)
  BY <1>8, HandlersStep DEF FiringInv, Firing, At, Alone
<1>9. CASE FireArmNext(t)
  BY <1>9, ArmNextStep, ZenonT(30) DEF FiringInv, Firing, At, Alone
<1>10. CASE InitStart(t)
  BY <1>10, InitStartStep DEF FiringInv, Firing, At, Alone
<1> QED BY <1>2, <1>3, <1>4, <1>5, <1>6, <1>7, <1>8, <1>9, <1>10 DEF Analysis
-----------------------------------------------------------------------------
(* Without the default start, INIT_ALARM is never called.                     *)
NoDefaultStart == ~DefaultStart \/ \E a \in AlarmIds : Conf(a).ev = Start

NoInitStart == \A t \in Threads : ~start_thread[t] /\ InitAlarm \notin todo[t]
PlainInv == FiringInv /\ NoInitStart

LEMMA InitPlain == PerThreadChains /\ NoDefaultStart /\ Init => PlainInv
BY InitFiring DEF PlainInv, NoInitStart, Init, InitChains

LEMMA StepPlain ==
    ASSUME PerThreadChains, NoDefaultStart, PlainInv, [Next]_vars
    PROVE  PlainInv' /\ \A t \in Threads : ~InitStart(t) /\ ~FireUniform(t)
<1> USE DEF At
<1>1. FiringInv /\ FiringInv' /\ NoInitStart
  BY StepFiring DEF PlainInv
<1>2. \A t \in Threads : ~InitStart(t) /\ ~FireUniform(t)
  BY <1>1, InitStartStep DEF NextCall, NoInitStart, FireUniform, FiringInv, Inv, Counters
<1>3. CASE UNCHANGED vars
  BY <1>1, <1>2, <1>3 DEF PlainInv, NoInitStart, vars
<1>4. ASSUME NEW t \in Threads, ThreadStart(t) PROVE NoInitStart'
  <2>1. ~InitAlarmOn
    BY DEF NoDefaultStart, InitAlarmOn, HasStartEvent
  <2> QED BY <1>1, <1>4, <2>1, StartStep DEF NoInitStart, FiringInv, Inv, TypeOK
<1>5. ASSUME NEW t \in Threads, NEW b \in Blocks, Exec(t, b) PROVE NoInitStart'
  BY <1>1, <1>5, ExecStep, InitAlarmOutside DEF Instrumented, NoInitStart
<1>6. ASSUME NEW t \in Threads, CountRead(t) PROVE NoInitStart'
  BY <1>1, <1>6, ReadStep DEF NoInitStart
<1>7. ASSUME NEW t \in Threads, CountWrite(t) PROVE NoInitStart'
  BY <1>1, <1>7, WriteStep, ZenonT(30) DEF NoInitStart
<1>8. ASSUME NEW t \in Threads, FireDisarm(t) PROVE NoInitStart'
  BY <1>1, <1>8, DisarmStep DEF NoInitStart
<1>9. ASSUME NEW t \in Threads, FireHandlers(t) PROVE NoInitStart'
  BY <1>1, <1>9, HandlersStep DEF NoInitStart
<1>10. ASSUME NEW t \in Threads, FireArmNext(t) PROVE NoInitStart'
  <2>1. /\ \A u \in Threads : todo'[u] = IF u = t THEN todo[t] \ {cur[t]} ELSE todo[u]
        /\ start_thread' = start_thread
    BY <1>1, <1>10, ArmNextStep
  <2> QED BY <1>1, <2>1 DEF NoInitStart
<1> QED BY <1>1, <1>2, <1>3, <1>4, <1>5, <1>6, <1>7, <1>8, <1>9, <1>10 DEF PlainInv, Next, Analysis
-----------------------------------------------------------------------------
(* Tracing.  Every start alarm hands over to a stop alarm.                    *)
StopFollowsStart ==
    \A a \in AlarmIds : Conf(a).ev = Start =>
        ~LastAlarm(a) /\ Conf(<<a[1], a[2] + 1>>).ev = Stop

TracingInv == PlainInv /\ TracingOnlyInsideARegion

LEMMA NextAlarm == ASSUME NEW a \in AlarmIds, ~LastAlarm(a)
                   PROVE  <<a[1], a[2] + 1>> \in AlarmIds
<1>1. a[2] + 1 \in DOMAIN Alarm[a[1]]
  BY AlarmId, ConfAssumption DEF LastAlarm, Chains
<1> QED BY <1>1, AlarmId, AlarmIdIntro

LEMMA StepTracing ==
    ASSUME PerThreadChains, StopFollowsStart, NoDefaultStart, TracingInv, [Next]_vars
    PROVE  TracingInv'
<1> USE DEF At
<1>0. FiringInv /\ PlainInv' /\ \A t \in Threads : ~InitStart(t) /\ ~FireUniform(t)
  BY StepPlain DEF TracingInv, PlainInv
<1> SUFFICES TracingOnlyInsideARegion'
  BY <1>0 DEF TracingInv
<1>1. CASE UNCHANGED vars
  BY <1>1 DEF TracingInv, TracingOnlyInsideARegion, InRegion, vars, alarmVars, logVars, localVars
\* Where a step leaves the flag alone, a thread that is in a region stays in it.
<1>2. ASSUME doTrace' = doTrace, \A u \in Threads : InRegion(u) => InRegion(u)'
      PROVE  TracingOnlyInsideARegion'
  BY <1>2 DEF TracingInv, TracingOnlyInsideARegion
<1>3. ASSUME NEW t \in Threads, ThreadStart(t) PROVE TracingOnlyInsideARegion'
  BY <1>0, <1>2, <1>3, StartStep DEF InRegion, Alone
<1>4. ASSUME NEW t \in Threads, NEW b \in Blocks, Exec(t, b)
      PROVE  TracingOnlyInsideARegion'
  BY <1>0, <1>2, <1>4, ExecStep DEF InRegion
<1>5. ASSUME NEW t \in Threads, CountRead(t) PROVE TracingOnlyInsideARegion'
  <2>1. pc[t] = "run" /\ Alone(t, "count") /\ UNCHANGED <<armed, doTrace, ev>>
    BY <1>0, <1>5, ReadStep
  <2> QED BY <1>0, <1>2, <2>1 DEF InRegion, Alone
<1>6. ASSUME NEW t \in Threads, CountWrite(t) PROVE TracingOnlyInsideARegion'
  BY <1>0, <1>2, <1>6, WriteStep DEF InRegion, Alone
<1>7. ASSUME NEW t \in Threads, FireDisarm(t) PROVE TracingOnlyInsideARegion'
  <2>1. ASSUME NEW u \in Threads, InRegion(u) PROVE InRegion(u)'
    <3>1. ASSUME NEW a \in AlarmIds, Conf(a).ev = Stop, armed[a][u] PROVE InRegion(u)'
      <4>1. CASE a = cur[t] /\ u = t
        BY <1>0, <1>7, <3>1, <4>1, DisarmStep DEF InRegion, Alone
      <4>2. CASE ~(a = cur[t] /\ u = t)
        <5>1. armed'[a][u]
          BY <1>0, <1>7, <3>1, <4>2, DisarmStep
        <5> QED BY <3>1, <5>1 DEF InRegion
      <4> QED BY <4>1, <4>2
    <3>2. CASE (pc[u] = "armnext" /\ ev[u] = Start) \/ (pc[u] = "handlers" /\ ev[u] = Stop)
      BY <1>0, <1>7, <3>2, DisarmStep DEF InRegion, Alone
    <3> QED BY <2>1, <3>1, <3>2 DEF InRegion
  <2> QED BY <1>0, <1>2, <1>7, <2>1, DisarmStep
<1>8. ASSUME NEW t \in Threads, FireHandlers(t) PROVE TracingOnlyInsideARegion'
  <2>1. CASE ev[t] = Start
    BY <1>0, <1>8, <2>1, HandlersStep DEF TracingOnlyInsideARegion, InRegion, Alone
  <2>2. CASE ev[t] = Stop
    BY <1>0, <1>8, <2>2, HandlersStep DEF TracingOnlyInsideARegion, Handlers, Start, Stop, Precond
  <2>3. CASE ev[t] = Precond
    <3>1. doTrace' = doTrace
      BY <1>0, <1>8, <2>3, HandlersStep
    <3>2. \A u \in Threads : InRegion(u) => InRegion(u)'
      BY <1>0, <1>8, <2>3, HandlersStep DEF InRegion, Alone, Stop, Precond
    <3> QED BY <1>2, <3>1, <3>2
  <2> QED BY <1>0, <2>1, <2>2, <2>3 DEF FiringInv, Inv, TypeOK
<1>9. ASSUME NEW t \in Threads, FireArmNext(t) PROVE TracingOnlyInsideARegion'
  <2> DEFINE a == cur[t]
             n == Repetitions(a, t)
  <2>1. a \in AlarmIds /\ ev[t] = Conf(a).ev
    BY <1>0, <1>9, ArmNextStep DEF FiringInv, Firing
  <2>2. CASE ev[t] = Start
    <3> DEFINE b == <<a[1], a[2] + 1>>
    <3>1. ~LastAlarm(a) /\ b \in AlarmIds /\ Conf(b).ev = Stop
      BY <2>1, <2>2, NextAlarm DEF StopFollowsStart
    <3>2. <<b, t>> \in NextArmed(a, t, n)
      BY <3>1 DEF NextArmed, Audience
    <3>3. armed'[b][t]
      BY <1>0, <1>9, <3>1, <3>2, ArmNextStep
    <3> QED BY <3>1, <3>3 DEF TracingOnlyInsideARegion, InRegion
  <2>3. CASE ev[t] # Start
    <3>1. \A u \in Threads : InRegion(u) => InRegion(u)'
      BY <1>0, <1>9, <2>3, ArmNextStep DEF InRegion, Alone
    <3> QED BY <1>0, <1>2, <1>9, <3>1, ArmNextStep
  <2> QED BY <2>2, <2>3
<1> QED BY <1>0, <1>1, <1>3, <1>4, <1>5, <1>6, <1>7, <1>8, <1>9 DEF Next, Analysis

(* The flag that turns recording on is one for all threads, so a thread's stop *)
(* clears it for the others; but it is never on while no thread is between its *)
(* start and its stop event.                                                   *)
THEOREM TracingInRegion ==
    ASSUME PerThreadChains, StopFollowsStart, NoDefaultStart
    PROVE  Spec => []TracingOnlyInsideARegion
<1>1. TracingInv => TracingOnlyInsideARegion
  BY DEF TracingInv
<1>2. Init => TracingInv
  BY InitPlain DEF TracingInv, TracingOnlyInsideARegion, Init, InitChains
<1>3. TracingInv /\ [Next]_vars => TracingInv'
  BY StepTracing
<1> QED BY <1>1, <1>2, <1>3, PTL DEF Spec
-----------------------------------------------------------------------------
(* The event log.                                                             *)
EventsOf(t) == {i \in 1 .. Len(out) : out[i].tid = t}
NumEvents(t) == Cardinality(EventsOf(t))

LEMMA LogFinite ==
    ASSUME TypeOK
    PROVE  /\ \A t \in Threads : IsFiniteSet(EventsOf(t)) /\ NumEvents(t) \in Nat
           /\ \A j \in DOMAIN out : EventNumber(j) \in Nat
<1>1. Len(out) \in Nat /\ DOMAIN out = 1 .. Len(out)
  BY DEF TypeOK
<1>2. ASSUME NEW t \in Threads PROVE IsFiniteSet(EventsOf(t)) /\ NumEvents(t) \in Nat
  <2>1. IsFiniteSet(1 .. Len(out)) /\ EventsOf(t) \subseteq 1 .. Len(out)
    BY <1>1, FS_Interval DEF EventsOf
  <2> QED BY <2>1, FS_Subset, FS_CardinalityType DEF NumEvents
<1>3. ASSUME NEW j \in DOMAIN out PROVE EventNumber(j) \in Nat
  <2> DEFINE E == {i \in 1 .. j : out[i].tid = out[j].tid}
  <2>1. IsFiniteSet(1 .. j) /\ E \subseteq 1 .. j
    BY <1>1, FS_Interval
  <2>2. Cardinality(E) \in Nat
    BY <2>1, FS_Subset, FS_CardinalityType
  <2> QED BY <2>2 DEF EventNumber
<1> QED BY <1>2, <1>3

LEMMA AppendEvent ==
    ASSUME TypeOK, NEW t \in Threads, NEW e, LogOn, LogEvent(t, e)
    PROVE  /\ DOMAIN out' = DOMAIN out \cup {Len(out) + 1} /\ Len(out) + 1 \notin DOMAIN out
           /\ Len(out') = Len(out) + 1 /\ DOMAIN out = 1 .. Len(out) /\ Len(out) \in Nat
           /\ \A j \in DOMAIN out : out'[j] = out[j] /\ EventNumber(j)' = EventNumber(j)
           /\ out'[Len(out) + 1] = [tid |-> t, ev |-> e, at |-> icount[t]]
           /\ \A j : j = Len(out) + 1 => EventNumber(j)' = NumEvents(t) + 1
           /\ \A u \in Threads : NumEvents(u)' = IF u = t THEN NumEvents(u) + 1 ELSE NumEvents(u)
<1> DEFINE L == Len(out)
           r == [tid |-> t, ev |-> e, at |-> icount[t]]
<1>1. /\ out' = Append(out, r) /\ L \in Nat
      /\ Len(out') = L + 1 /\ DOMAIN out = 1 .. L /\ DOMAIN out' = 1 .. L + 1
      /\ \A j \in 1 .. L : out'[j] = out[j]
      /\ out'[L + 1] = r
  BY DEF TypeOK, LogEvent
<1>2. ASSUME NEW j \in 1 .. L PROVE EventNumber(j)' = EventNumber(j)
  <2>1. {i \in 1 .. j : out[i].tid = out[j].tid} = {i \in 1 .. j : out'[i].tid = out'[j].tid}
    BY <1>1
  <2> QED BY <2>1 DEF EventNumber
<1>3. EventsOf(t)' = EventsOf(t) \cup {L + 1} /\ L + 1 \notin EventsOf(t)
  BY <1>1 DEF EventsOf
<1>4. NumEvents(t)' = NumEvents(t) + 1
  BY <1>3, LogFinite, FS_AddElement DEF NumEvents
<1>5. ASSUME NEW j, j = L + 1 PROVE EventNumber(j)' = NumEvents(t) + 1
  <2>1. {i \in 1 .. j : out'[i].tid = out'[j].tid} = EventsOf(t)'
    BY <1>1, <1>5 DEF EventsOf
  <2> QED BY <1>4, <2>1 DEF EventNumber, NumEvents
<1>6. ASSUME NEW u \in Threads, u # t PROVE NumEvents(u)' = NumEvents(u)
  <2>1. EventsOf(u)' = EventsOf(u)
    BY <1>1, <1>6 DEF EventsOf
  <2> QED BY <2>1 DEF NumEvents
<1> QED BY <1>1, <1>2, <1>4, <1>5, <1>6

LEMMA SameLog == ASSUME out' = out
                 PROVE  /\ \A j : EventNumber(j)' = EventNumber(j)
                        /\ \A t : NumEvents(t)' = NumEvents(t)
BY DEF EventNumber, NumEvents, EventsOf

LEMMA MultMono == ASSUME NEW n \in Nat, NEW k \in Nat, k >= 1 PROVE k * n >= n
OBVIOUS

LEMMA ModUnique == ASSUME NEW n \in Nat \ {0}, NEW q \in Nat, NEW r \in 0 .. n - 1
                   PROVE  (q * n + r) % n = r
<1> DEFINE x == q * n + r
           d == x \div n
           m == x % n
<1>1. x \in Nat /\ q * n \in Nat
  OBVIOUS
<1>2. d \in Int /\ m \in 0 .. n - 1 /\ x = n * d + m
  BY <1>1
<1> HIDE DEF x, d, m
<1>3. (q - d) * n = m - r
  BY <1>2 DEF x
<1>4. q - d = 0
  <2>1. CASE q - d >= 1
    BY <1>2, <1>3, <2>1, MultMono
  <2>2. CASE d - q >= 1
    <3>1. (d - q) * n = r - m
      BY <1>2, <1>3
    <3> QED BY <1>2, <3>1, <2>2, MultMono
  <2> QED BY <1>2, <2>1, <2>2
<1> QED BY <1>2, <1>3, <1>4 DEF m, x

LEMMA OneMore == ASSUME NEW n \in Nat, NEW q \in Nat
                 PROVE  q * n + n = (q + 1) * n /\ (q + 1) * n \in Nat
OBVIOUS

LEMMA MultLess ==
    ASSUME NEW n \in Nat, NEW q \in Nat, NEW p \in Nat, q < p, NEW i \in 1 .. n
    PROVE  q * n + i <= n * p
<1>1. (p - q) * n >= n
  BY MultMono
<1>2. (p - q) * n = p * n - q * n /\ p * n \in Nat /\ q * n \in Nat
  OBVIOUS
<1> QED BY <1>1, <1>2
-----------------------------------------------------------------------------
(* The order of the events of a single chain, whose alarms are all logged.    *)
(* When an alarm is armed for a thread, the thread has raised the events of   *)
(* the q rounds it completed and of the alarms before that one.               *)
SingleChain ==
    /\ Len(Alarm) = 1 /\ Repeat[1] # 0
    /\ \A a \in AlarmIds : Conf(a).ev # Precond

Progress(t, q) ==
    /\ Repeat[1] # Indefinite => q = repeat[1][t]
    /\ \A a \in AlarmIds : armed[a][t] => NumEvents(t) = q * Len(Alarm[1]) + a[2] - 1
    /\ pc[t] = "handlers" => NumEvents(t) = q * Len(Alarm[1]) + cur[t][2] - 1
    /\ pc[t] = "armnext" => NumEvents(t) = q * Len(Alarm[1]) + cur[t][2]

OrderInv ==
    /\ PlainInv
    /\ EventsInChainOrder
    /\ IF LogOn THEN \A t \in Threads : \E q \in Nat : Progress(t, q) ELSE out = << >>

LEMMA SingleChainId ==
    ASSUME SingleChain
    PROVE  /\ Chains = {1} /\ Len(Alarm[1]) \in Nat \ {0}
           /\ \A a \in AlarmIds : a[1] = 1 /\ a[2] \in 1 .. Len(Alarm[1]) /\ Conf(a) = Alarm[1][a[2]]
           /\ \A c \in Chains : WaitFor[c] # 1
<1>1. Chains = {1}
  BY ConfAssumption DEF SingleChain, Chains
<1>2. Len(Alarm[1]) \in Nat \ {0}
  BY <1>1, ConfAssumption DEF Chains
<1> QED BY <1>1, <1>2, AlarmId, ChainAssumption DEF Conf

LEMMA NotCompleted ==
    ASSUME SingleChain, Inv, NEW t \in Threads, NEW a \in AlarmIds, armed[a][t] \/ InFlight(a, t)
    PROVE  Repeat[1] # Indefinite =>
               /\ Repeat[1] \in Nat /\ repeat[1][t] \in Nat /\ repeat[1][t] < Repeat[1]
               /\ (repeat[1][t] + 1) % WordMod = repeat[1][t] + 1
<1> SUFFICES ASSUME Repeat[1] # Indefinite
             PROVE  /\ Repeat[1] \in Nat /\ repeat[1][t] \in Nat /\ repeat[1][t] < Repeat[1]
                    /\ (repeat[1][t] + 1) % WordMod = repeat[1][t] + 1
  OBVIOUS
<1>1. Repeat[1] \in Nat \ {0} /\ Repeat[1] < WordMod /\ WordMod \in Nat /\ repeat[1][t] \in Nat
  BY SingleChainId, ChainAssumption, BoundAssumption DEF SingleChain, Inv, TypeOK
<1>2. ~Completed(1, t)
  BY SingleChainId DEF Inv, Places
<1>3. repeat[1][t] < Repeat[1]
  BY <1>1, <1>2 DEF Completed, NeedToRepeat
<1> QED BY <1>1, <1>3

LEMMA AlarmOfRound ==
    ASSUME SingleChain, NEW q \in Nat, NEW i \in 1 .. Len(Alarm[1])
    PROVE  AlarmOfEvent(q * Len(Alarm[1]) + i) = Alarm[1][i]
<1> DEFINE n == Len(Alarm[1])
           m == q * n
<1>1. n \in Nat \ {0} /\ i - 1 \in 0 .. n - 1 /\ m \in Nat
  BY SingleChainId
<1>2. (m + (i - 1)) % n = i - 1
  BY <1>1, ModUnique
<1> HIDE DEF m
<1>3. (m + i) - 1 = m + (i - 1) /\ (i - 1) + 1 = i
  BY <1>1
<1>4. AlarmOfEvent(m + i) = Alarm[1][i]
  BY <1>2, <1>3 DEF AlarmOfEvent
<1> QED BY <1>4 DEF m

LEMMA InitOrder == PerThreadChains /\ NoDefaultStart /\ SingleChain /\ Init => OrderInv
<1> SUFFICES ASSUME PerThreadChains, NoDefaultStart, SingleChain, Init PROVE OrderInv
  OBVIOUS
<1>1. out = << >> /\ DOMAIN out = {} /\ Len(out) = 0
  BY DEF Init, InitChains
<1>2. \A t \in Threads : NumEvents(t) = 0
  BY <1>1, FS_EmptySet DEF NumEvents, EventsOf
<1>3. \A t \in Threads : Progress(t, 0)
  <2>1. ASSUME NEW t \in Threads, NEW a \in AlarmIds, armed[a][t] PROVE a[2] = 1
    BY <2>1 DEF Init, InitChains, Activated
  <2>2. \A t \in Threads : repeat[1][t] = 0 /\ pc[t] = "unborn"
    BY SingleChainId DEF Init, InitChains
  <2> QED BY <1>2, <2>1, <2>2, SingleChainId DEF Progress
<1> QED BY <1>1, <1>3, InitPlain DEF OrderInv, EventsInChainOrder

LEMMA HandlersOrder ==
    ASSUME SingleChain, OrderInv, LogOn, NEW t \in Threads, FireHandlers(t)
    PROVE  EventsInChainOrder' /\ \A u \in Threads : \E q \in Nat : Progress(u, q)'
<1> DEFINE a == cur[t]
           n == Len(Alarm[1])
           L == Len(out)
<1>0. FiringInv /\ TypeOK
  BY DEF OrderInv, PlainInv, FiringInv, Inv
<1>1. /\ pc[t] = "handlers" /\ Alone(t, "armnext") /\ a \in AlarmIds /\ ev[t] = Conf(a).ev
      /\ LogEvent(t, ev[t]) /\ UNCHANGED <<armed, repeat, cur>>
  BY <1>0, HandlersStep DEF SingleChain, Handlers
<1>2. PICK q \in Nat : Progress(t, q)
  BY DEF OrderInv
<1>3. NumEvents(t) = q * n + a[2] - 1
  BY <1>1, <1>2 DEF Progress
<1>4. /\ DOMAIN out' = DOMAIN out \cup {L + 1} /\ DOMAIN out = 1 .. L /\ L \in Nat
      /\ \A j \in DOMAIN out : out'[j] = out[j] /\ EventNumber(j)' = EventNumber(j)
      /\ out'[L + 1] = [tid |-> t, ev |-> ev[t], at |-> icount[t]]
      /\ \A j : j = L + 1 => EventNumber(j)' = NumEvents(t) + 1
      /\ \A u \in Threads : NumEvents(u)' = IF u = t THEN NumEvents(u) + 1 ELSE NumEvents(u)
  BY <1>0, <1>1, AppendEvent
<1>5. n \in Nat \ {0} /\ a[2] \in 1 .. n /\ q * n \in Nat /\ Conf(a) = Alarm[1][a[2]]
  BY <1>1, SingleChainId
<1>6. EventsInChainOrder'
  <2> SUFFICES ASSUME NEW j \in DOMAIN out'
               PROVE  /\ out'[j].ev = AlarmOfEvent(EventNumber(j)').ev
                      /\ Repeat[1] # Indefinite => EventNumber(j)' <= n * Repeat[1]
    BY DEF EventsInChainOrder, AlarmOfEvent
  <2>1. CASE j \in DOMAIN out
    BY <1>4, <2>1 DEF OrderInv, EventsInChainOrder
  <2>2. CASE j = L + 1
    <3>1. EventNumber(j)' = q * n + a[2]
      BY <1>3, <1>4, <1>5, <2>2
    <3>2. AlarmOfEvent(q * n + a[2]) = Conf(a)
      BY <1>5, AlarmOfRound
    <3>3. Repeat[1] # Indefinite => q * n + a[2] <= n * Repeat[1]
      <4>1. InFlight(a, t)
        BY <1>1 DEF InFlight
      <4> QED BY <1>0, <1>1, <1>2, <1>5, <4>1, NotCompleted, MultLess DEF Progress, FiringInv
    <3> QED BY <1>1, <1>4, <2>2, <3>1, <3>2, <3>3
  <2> QED BY <1>4, <2>1, <2>2
<1>7. Progress(t, q)'
  <2>1. \A b \in AlarmIds : ~armed'[b][t]
    BY <1>0, <1>1, SingleChainId DEF FiringInv, Inv, Places, OneStagePerThread, InFlight
  <2> QED BY <1>1, <1>2, <1>3, <1>4, <1>5, <2>1, SMTT(30) DEF Progress, Alone
<1>8. ASSUME NEW u \in Threads, u # t, NEW p \in Nat, Progress(u, p) PROVE Progress(u, p)'
  BY <1>1, <1>4, <1>8 DEF Progress, Alone
<1> QED BY <1>6, <1>7, <1>8 DEF OrderInv

LEMMA NextArmedId == ASSUME NEW b, NEW u, NEW i, NEW t, <<b, u>> \in {<<1, i>>} \X {t}
                     PROVE  b[2] = i
OBVIOUS

LEMMA ArmNextOrder ==
    ASSUME SingleChain, OrderInv, LogOn, NEW t \in Threads, FireArmNext(t)
    PROVE  EventsInChainOrder' /\ \A u \in Threads : \E q \in Nat : Progress(u, q)'
<1> DEFINE a == cur[t]
           n == Len(Alarm[1])
           r == Repetitions(a, t)
<1>0. FiringInv /\ TypeOK
  BY DEF OrderInv, PlainInv, FiringInv, Inv
<1>1. /\ pc[t] = "armnext" /\ Alone(t, "run") /\ a \in AlarmIds /\ bcast[t] = FALSE /\ r \in Nat
      /\ \A c \in Chains, u \in Threads :
             repeat'[c][u] = IF c = a[1] /\ u = t THEN r ELSE repeat[c][u]
      /\ \A b \in AlarmIds, u \in Threads :
             armed'[b][u] <=> (armed[b][u] \/ <<b, u>> \in NextArmed(a, t, r))
      /\ UNCHANGED <<out, cur>>
  BY <1>0, ArmNextStep
<1>2. PICK q \in Nat : Progress(t, q)
  BY DEF OrderInv
<1>3. /\ n \in Nat \ {0} /\ a[1] = 1 /\ a[2] \in 1 .. n /\ q * n \in Nat /\ 1 \in Chains
      /\ \A b \in AlarmIds : b[1] = 1 /\ b[2] \in 1 .. n
  BY <1>1, SingleChainId
<1>4. NumEvents(t) = q * n + a[2] /\ InFlight(a, t)
  BY <1>1, <1>2 DEF Progress, InFlight
<1>5. \A b \in AlarmIds : ~armed[b][t]
  BY <1>0, <1>1, <1>3, <1>4 DEF FiringInv, Inv, Places, OneStagePerThread
<1>6. EventsInChainOrder' /\ \A u \in Threads : NumEvents(u)' = NumEvents(u)
  BY <1>1, SameLog DEF OrderInv, EventsInChainOrder, AlarmOfEvent
<1>7. \E p \in Nat : Progress(t, p)'
  <2>1. CASE ~LastAlarm(a)
    <3>1. r = repeat[1][t] /\ NextArmed(a, t, r) = {<<1, a[2] + 1>>} \X {t}
      BY <1>1, <1>3, <2>1 DEF Repetitions, NextArmed, Audience
    <3>2. \A b \in AlarmIds : armed'[b][t] => b[2] = a[2] + 1
      <4>1. ASSUME NEW b \in AlarmIds, armed'[b][t] PROVE b[2] = a[2] + 1
        <5>1. <<b, t>> \in {<<1, a[2] + 1>>} \X {t}
          BY <1>1, <1>5, <3>1, <4>1
        <5>2. b = <<1, a[2] + 1>>
          BY <5>1
        <5> QED BY <5>2
      <4> QED BY <4>1
    <3>3. repeat'[1][t] = repeat[1][t]
      BY <1>1, <1>3, <3>1
    <3>4. Progress(t, q)'
      BY <1>1, <1>2, <1>3, <1>4, <1>6, <3>2, <3>3 DEF Progress, Alone
    <3> QED BY <3>4
  <2>2. CASE LastAlarm(a)
    <3>1. a[2] = n
      BY <1>3, <2>2 DEF LastAlarm
    <3>2. \A b \in AlarmIds : armed'[b][t] => b[2] = 1
      <4>1. {c \in Chains : WaitFor[c] = a[1]} = {}
        BY <1>3, SingleChainId
      <4>2. NextArmed(a, t, r) = IF NeedToRepeat(a[1], r) THEN {<<1, 1>>} \X {t} ELSE {}
        <5>1. CASE NeedToRepeat(a[1], r)
          BY <1>1, <1>3, <2>2, <5>1 DEF NextArmed, Audience
        <5>2. CASE ~NeedToRepeat(a[1], r)
          <6>1. NextArmed(a, t, r) = {<<c, 1>> : c \in {}} \X {t}
            BY <2>2, <4>1, <5>2 DEF NextArmed
          <6> QED BY <5>2, <6>1
        <5> QED BY <5>1, <5>2
      <4> QED BY <1>1, <1>5, <4>2, NextArmedId
    <3>3. Repeat[1] # Indefinite => repeat'[1][t] = q + 1
      BY <1>0, <1>1, <1>2, <1>3, <1>4, <2>2, NotCompleted DEF FiringInv, Repetitions, Progress
    <3>4. NumEvents(t) = (q + 1) * n /\ (q + 1) * n \in Nat
      BY <1>3, <1>4, <3>1, OneMore
    <3>5. PICK p \in Nat : p = q + 1
      OBVIOUS
    <3>6. NumEvents(t)' = p * n /\ p * n \in Nat
      BY <1>6, <3>4, <3>5
    <3>7. pc'[t] = "run"
      BY <1>1 DEF Alone
    <3>8. Progress(t, p)'
      <4>1. Repeat[1] # Indefinite => p = repeat'[1][t]
        BY <3>3, <3>5
      <4>2. ASSUME NEW b \in AlarmIds, armed'[b][t] PROVE NumEvents(t)' = p * n + b[2] - 1
        <5>1. b[2] = 1
          BY <3>2, <4>2
        <5>2. p * n + 1 - 1 = p * n
          BY <3>6
        <5> QED BY <3>6, <5>1, <5>2
      <4> QED BY <3>7, <4>1, <4>2 DEF Progress
    <3> QED BY <3>8
  <2> QED BY <2>1, <2>2
<1>8. \A b \in AlarmIds, u \in Threads : <<b, u>> \in NextArmed(a, t, r) => u = t
  <2>1. a \in AlarmIds /\ bcast[t] = FALSE /\ r \in Nat
    BY <1>1
  <2> HIDE DEF a, r
  <2> QED BY <2>1, NextArmedPerThread
<1>9. ASSUME NEW u \in Threads, u # t, NEW p \in Nat, Progress(u, p) PROVE Progress(u, p)'
  <2>1. \A b \in AlarmIds : <<b, u>> \notin NextArmed(a, t, r)
    BY <1>8, <1>9
  <2>2. pc'[u] = pc[u] /\ repeat'[1][u] = repeat[1][u] /\ cur'[u] = cur[u]
    BY <1>1, <1>3, <1>9 DEF Alone
  <2> QED BY <1>1, <1>6, <1>9, <2>1, <2>2 DEF Progress
<1> QED BY <1>6, <1>7, <1>9 DEF OrderInv
LEMMA FrameOrder ==
    ASSUME OrderInv, UNCHANGED <<out, repeat>>,
           \A u \in Threads : /\ \A a \in AlarmIds : armed'[a][u] => armed[a][u]
                              /\ \/ pc'[u] \notin {"handlers", "armnext"}
                                 \/ pc'[u] = pc[u] /\ cur'[u] = cur[u]
    PROVE  EventsInChainOrder' /\ \A u \in Threads, q \in Nat : Progress(u, q) => Progress(u, q)'
<1>1. EventsInChainOrder' /\ \A u : NumEvents(u)' = NumEvents(u)
  BY SameLog DEF OrderInv, EventsInChainOrder, AlarmOfEvent
<1> QED BY <1>1 DEF Progress

LEMMA DisarmOrder ==
    ASSUME PerThreadChains, SingleChain, OrderInv, LogOn, NEW t \in Threads, FireDisarm(t)
    PROVE  EventsInChainOrder' /\ \A u \in Threads, q \in Nat : Progress(u, q) => Progress(u, q)'
<1>1. EventsInChainOrder' /\ \A u : NumEvents(u)' = NumEvents(u)
  BY DisarmStep, SameLog DEF OrderInv, EventsInChainOrder, AlarmOfEvent, PlainInv
<1>2. /\ Alone(t, "handlers") /\ cur[t] \in AlarmIds /\ armed[cur[t]][t]
      /\ \A a \in AlarmIds, u \in Threads : armed'[a][u] => armed[a][u]
      /\ \A a \in AlarmIds : armed[a][t] => a = cur[t]
      /\ \A a \in AlarmIds : ~armed'[a][t]
      /\ UNCHANGED <<repeat, cur>>
  <2>1. FiringInv
    BY DEF OrderInv, PlainInv
  <2>2. /\ Alone(t, "handlers") /\ cur[t] \in AlarmIds /\ armed[cur[t]][t]
        /\ \A a \in AlarmIds, u \in Threads :
               armed'[a][u] <=> (armed[a][u] /\ ~(a = cur[t] /\ u = t))
        /\ UNCHANGED <<repeat, cur>>
    BY <2>1, DisarmStep
  <2>3. \A a \in AlarmIds : armed[a][t] => a = cur[t]
    BY <2>1, <2>2, SingleChainId DEF FiringInv, Inv, Places, OneStagePerThread
  <2> QED BY <2>2, <2>3
<1>3. ASSUME NEW q \in Nat, Progress(t, q) PROVE Progress(t, q)'
  BY <1>1, <1>2, <1>3 DEF Progress, Alone
<1>4. ASSUME NEW u \in Threads, u # t, NEW q \in Nat, Progress(u, q) PROVE Progress(u, q)'
  BY <1>1, <1>2, <1>4 DEF Progress, Alone
<1> QED BY <1>1, <1>3, <1>4

LEMMA StepOrder ==
    ASSUME PerThreadChains, NoDefaultStart, SingleChain, OrderInv, [Next]_vars
    PROVE  OrderInv'
<1>0. FiringInv /\ PlainInv' /\ \A t \in Threads : ~InitStart(t) /\ ~FireUniform(t)
  BY StepPlain DEF OrderInv, PlainInv
\* A step that logs nothing and arms nothing.
<1>1. ASSUME UNCHANGED <<out, repeat>>,
             \A u \in Threads : /\ \A a \in AlarmIds : armed'[a][u] => armed[a][u]
                                /\ \/ pc'[u] \notin {"handlers", "armnext"}
                                   \/ pc'[u] = pc[u] /\ cur'[u] = cur[u]
      PROVE  OrderInv'
  <2>1. EventsInChainOrder' /\ \A u \in Threads, q \in Nat : Progress(u, q) => Progress(u, q)'
    BY <1>1, FrameOrder
  <2> QED BY <1>0, <1>1, <2>1 DEF OrderInv
<1>2. CASE UNCHANGED vars
  BY <1>1, <1>2 DEF vars, alarmVars, managerVars, logVars
<1>3. ASSUME NEW t \in Threads, ThreadStart(t) PROVE OrderInv'
  BY <1>0, <1>1, <1>3, StartStep DEF Alone
<1>4. ASSUME NEW t \in Threads, NEW b \in Blocks, Exec(t, b) PROVE OrderInv'
  BY <1>0, <1>1, <1>4, ExecStep
<1>5. ASSUME NEW t \in Threads, CountRead(t) PROVE OrderInv'
  <2>1. /\ Alone(t, "count") /\ UNCHANGED <<armed, repeat, out>>
        /\ \A u \in Threads : u # t => cur'[u] = cur[u]
    BY <1>0, <1>5, ReadStep
  <2> QED BY <1>1, <2>1 DEF Alone
<1>6. ASSUME NEW t \in Threads, CountWrite(t) PROVE OrderInv'
  <2>1. /\ Alone(t, "run") \/ Alone(t, "disarm") 
        /\ UNCHANGED <<armed, repeat, out, cur>>
    BY <1>0, <1>6, WriteStep
  <2> QED BY <1>1, <2>1 DEF Alone
<1>7. ASSUME NEW t \in Threads, FireDisarm(t) PROVE OrderInv'
  <2>1. out' = out
    BY <1>0, <1>7, DisarmStep
  <2>2. CASE LogOn
    BY <1>0, <1>7, <2>2, DisarmOrder DEF OrderInv
  <2>3. CASE ~LogOn
    BY <1>0, <2>1, <2>3 DEF OrderInv, EventsInChainOrder
  <2> QED BY <2>2, <2>3
<1>8. ASSUME NEW t \in Threads, FireHandlers(t) PROVE OrderInv'
  <2>1. CASE LogOn
    BY <1>0, <1>8, <2>1, HandlersOrder DEF OrderInv
  <2>2. CASE ~LogOn
    <3>1. out' = out
      BY <1>0, <1>8, <2>2, HandlersStep DEF Handlers, LogEvent
    <3> QED BY <1>0, <2>2, <3>1 DEF OrderInv, EventsInChainOrder
  <2> QED BY <2>1, <2>2
<1>9. ASSUME NEW t \in Threads, FireArmNext(t) PROVE OrderInv'
  <2>1. out' = out
    BY <1>0, <1>9, ArmNextStep
  <2>2. CASE LogOn
    BY <1>0, <1>9, <2>2, ArmNextOrder DEF OrderInv
  <2>3. CASE ~LogOn
    BY <1>0, <2>1, <2>3 DEF OrderInv, EventsInChainOrder
  <2> QED BY <2>2, <2>3
<1> QED BY <1>0, <1>2, <1>3, <1>4, <1>5, <1>6, <1>7, <1>8, <1>9 DEF Next, Analysis

(* Whatever the interleaving with the other threads, a thread's events are    *)
(* those of the chain, in its order and as often as the repeat token says.    *)
THEOREM ChainOrder ==
    ASSUME PerThreadChains, NoDefaultStart, SingleChain
    PROVE  Spec => []EventsInChainOrder
<1>1. OrderInv => EventsInChainOrder
  BY DEF OrderInv
<1>2. Init => OrderInv
  BY InitOrder
<1>3. OrderInv /\ [Next]_vars => OrderInv'
  BY StepOrder
<1> QED BY <1>1, <1>2, <1>3, PTL DEF Spec
-----------------------------------------------------------------------------
(* The instruction counts of the events of a single chain of icount alarms.   *)
(* An alarm armed since the thread's last event has counted what the thread   *)
(* executed since then, and at most one block more: the one in which the      *)
(* event was raised, when its call comes later in the block.                  *)
AllIcount == \A a \in AlarmIds : Conf(a).kind = "icount"
BlocksBounded == \E b \in Blocks : \A d \in Blocks : d.size <= b.size

LastEvent(t) == {i \in EventsOf(t) : \A k \in (i + 1) .. Len(out) : out[k].tid # t}
Origins(t) == IF EventsOf(t) = {} THEN {0} ELSE {out[i].at : i \in LastEvent(t)}

Due(a, t) == IF a \in todo[t] THEN ninst[t] ELSE 0
Window(a) == Conf(a).count - MaxBlock .. Conf(a).count + MaxBlock - 1

Timed(t, s) ==
    /\ pc[t] \in {"unborn", "run", "count"} =>
           \A a \in AlarmIds : Counting(a, t) =>
               /\ thread_count[a][t] < Conf(a).count
               /\ \E c \in 0 .. MaxBlock : thread_count[a][t] + Due(a, t) = icount[t] - s + c
    /\ pc[t] \in {"disarm", "handlers"} => icount[t] - s \in Window(cur[t])
    /\ pc[t] = "armnext" => icount[t] = s

Summing(t) == pc[t] = "count" =>
    cur[t] \in todo[t] /\ (Counting(cur[t], t) => sum[t] = thread_count[cur[t]][t] + ninst[t])

RegionInv ==
    /\ OrderInv
    /\ RegionWithinBlock
    /\ \A t \in Threads : ninst[t] <= MaxBlock /\ Summing(t)
    /\ LogOn => \A t \in Threads : \A s \in Origins(t) : Timed(t, s)

LEMMA MaxBlockBound == ASSUME BlocksBounded
                       PROVE  MaxBlock \in Nat /\ \A b \in Blocks : b.size \in Nat /\ b.size <= MaxBlock
<1>1. \A b \in Blocks : b.size \in Nat
  BY BoundAssumption
<1>2. \E n \in {b.size : b \in Blocks} : \A b \in Blocks : b.size <= n
  BY DEF BlocksBounded
<1>3. /\ MaxBlock \in {b.size : b \in Blocks}
      /\ \A b \in Blocks : b.size <= MaxBlock
  BY <1>2 DEF MaxBlock
<1> QED BY <1>1, <1>3

LEMMA WithinWindow ==
    ASSUME BlocksBounded, NEW a \in AlarmIds, NEW m \in Int, m \in Window(a)
    PROVE  WithinBlock(m, Conf(a).count)
BY MaxBlockBound, ConfType DEF Window, WithinBlock

LEMMA OriginsInt == ASSUME TypeOK, NEW t \in Threads, NEW s \in Origins(t) PROVE s \in Nat
<1>1. CASE EventsOf(t) = {}
  BY <1>1 DEF Origins
<1>2. CASE EventsOf(t) # {}
  <2>1. PICK i \in LastEvent(t) : s = out[i].at
    BY <1>2 DEF Origins
  <2> DEFINE E == [tid : Threads, ev : {Start, Stop} \cup SubRegionEvents, at : Nat]
  <2>2. out \in Seq(E) /\ i \in 1 .. Len(out)
    BY <2>1 DEF LastEvent, EventsOf, TypeOK
  <2> HIDE DEF E
  <2>3. out[i] \in E
    BY <2>2
  <2> QED BY <2>1, <2>3 DEF E
<1> QED BY <1>1, <1>2

LEMMA AppendOrigins ==
    ASSUME TypeOK, NEW t \in Threads, NEW e, LogOn, LogEvent(t, e)
    PROVE  /\ Origins(t)' = {icount[t]}
           /\ \A u \in Threads : u # t => Origins(u)' = Origins(u)
           /\ \A j \in DOMAIN out : /\ PreviousEvent(j)' = PreviousEvent(j)
                                    /\ \A i \in PreviousEvent(j) : out'[i] = out[i]
           /\ \A j : j = Len(out) + 1 =>
                  /\ EventNumber(j)' = 1 => 0 \in Origins(t)
                  /\ \A i \in PreviousEvent(j)' : out'[i].at \in Origins(t)
<1> DEFINE L == Len(out)
           r == [tid |-> t, ev |-> e, at |-> icount[t]]
<1>1. /\ L \in Nat /\ Len(out') = L + 1
      /\ DOMAIN out = 1 .. L
      /\ \A j \in 1 .. L : out'[j] = out[j]
      /\ out'[L + 1] = r
      /\ \A j : j = L + 1 => EventNumber(j)' = NumEvents(t) + 1
  BY AppendEvent
<1>2. Origins(t)' = {icount[t]}
  <2>1. EventsOf(t)' # {}
    <3>1. L + 1 \in EventsOf(t)'
      BY <1>1 DEF EventsOf
    <3> QED BY <3>1
  <2>2. LastEvent(t)' = {L + 1}
    <3>1. L + 1 \in LastEvent(t)'
      BY <1>1 DEF EventsOf, LastEvent
    <3>2. ASSUME NEW i \in LastEvent(t)' PROVE i = L + 1
      <4>1. /\ i \in 1 .. L + 1
            /\ \A k \in (i + 1) .. (L + 1) : out'[k].tid # t
        BY <1>1, <3>2 DEF EventsOf, LastEvent
      <4>2. CASE i < L + 1
        <5>1. L + 1 \in (i + 1) .. (L + 1)
          BY <1>1, <4>1, <4>2
        <5> QED BY <1>1, <4>1, <5>1
      <4> QED BY <1>1, <4>1, <4>2
    <3> QED BY <3>1, <3>2
  <2>3. Origins(t)' = {out'[i].at : i \in LastEvent(t)'}
    BY <2>1 DEF Origins
  <2> QED BY <1>1, <2>2, <2>3
<1>3. ASSUME NEW u \in Threads, u # t PROVE Origins(u)' = Origins(u)
  <2>1. EventsOf(u)' = EventsOf(u)
    BY <1>1, <1>3 DEF EventsOf
  <2>2. LastEvent(u)' = LastEvent(u)
    <3>1. ASSUME NEW i \in EventsOf(u)
          PROVE  (\A k \in (i + 1) .. (L + 1) : out'[k].tid # u) <=>
                 (\A k \in (i + 1) .. L : out[k].tid # u)
      <4>1. i \in 1 .. L
        BY DEF EventsOf
      <4>2. \A k \in (i + 1) .. (L + 1) : k = L + 1 \/ k \in (i + 1) .. L
        BY <1>1, <4>1
      <4>3. \A k \in (i + 1) .. L : k \in (i + 1) .. (L + 1) /\ k \in 1 .. L
        BY <1>1, <4>1
      <4> QED BY <1>1, <1>3, <4>2, <4>3
    <3> QED BY <1>1, <2>1, <3>1 DEF LastEvent
  <2>3. \A i \in LastEvent(u) : out'[i].at = out[i].at
    BY <1>1 DEF LastEvent, EventsOf
  <2>4. {out'[i].at : i \in LastEvent(u)} = {out[i].at : i \in LastEvent(u)}
    BY <2>3
  <2> QED BY <2>1, <2>2, <2>4 DEF Origins
<1>4. ASSUME NEW j \in DOMAIN out
      PROVE  PreviousEvent(j)' = PreviousEvent(j) /\ \A i \in PreviousEvent(j) : out'[i] = out[i]
  <2>1. j \in 1 .. L /\ \A i \in 1 .. (j - 1) : i \in 1 .. L
    BY <1>1
  <2>2. \A i \in 1 .. (j - 1) : \A k \in (i + 1) .. (j - 1) : k \in 1 .. L
    BY <2>1
  <2>3. PreviousEvent(j)' = PreviousEvent(j)
    BY <1>1, <2>1, <2>2 DEF PreviousEvent
  <2> QED BY <1>1, <2>1, <2>3 DEF PreviousEvent
<1>5. ASSUME NEW j, j = L + 1
      PROVE  /\ EventNumber(j)' = 1 => 0 \in Origins(t)
             /\ \A i \in PreviousEvent(j)' : out'[i].at \in Origins(t)
  <2>1. EventNumber(j)' = 1 => 0 \in Origins(t)
    <3>1. NumEvents(t) = 0 => EventsOf(t) = {}
      BY LogFinite, FS_EmptySet DEF NumEvents
    <3> QED BY <1>1, <1>5, <3>1, LogFinite DEF Origins
  <2>2. ASSUME NEW i \in PreviousEvent(j)' PROVE out'[i].at \in Origins(t)
    <3>1. /\ i \in 1 .. L /\ out'[i].tid = t
          /\ \A k \in (i + 1) .. L : out'[k].tid # t
      BY <1>1, <1>5, <2>2 DEF PreviousEvent
    <3>2. \A k \in (i + 1) .. L : k \in 1 .. L
      BY <3>1
    <3>3. i \in LastEvent(t)
      BY <1>1, <3>1, <3>2 DEF LastEvent, EventsOf
    <3> QED BY <1>1, <3>1, <3>3 DEF Origins, LastEvent
  <2> QED BY <2>1, <2>2
<1> QED BY <1>2, <1>3, <1>4, <1>5
LEMMA SameOrigins == ASSUME out' = out
                     PROVE  /\ \A t : Origins(t)' = Origins(t)
                            /\ RegionWithinBlock' <=> RegionWithinBlock
BY SameLog DEF Origins, EventsOf, LastEvent, RegionWithinBlock, AlarmOfEvent, PreviousEvent

(* A step that does not touch what Timed and Summing of thread u depend on.   *)
LEMMA FrameTimed ==
    ASSUME NEW u \in Threads, NEW s,
           \A a \in AlarmIds : (armed'[a][u] <=> armed[a][u]) /\ thread_count'[a][u] = thread_count[a][u],
           pc'[u] = pc[u], todo'[u] = todo[u], ninst'[u] = ninst[u], icount'[u] = icount[u],
           cur'[u] = cur[u], sum'[u] = sum[u]
    PROVE  /\ Timed(u, s) => Timed(u, s)'
           /\ Summing(u) /\ (pc[u] = "count" => cur[u] \in AlarmIds) => Summing(u)'
BY DEF Timed, Summing, Counting, CorrectTid, Due

LEMMA InitRegion ==
    PerThreadChains /\ NoDefaultStart /\ SingleChain /\ BlocksBounded /\ Init => RegionInv
<1> SUFFICES ASSUME PerThreadChains, NoDefaultStart, SingleChain, BlocksBounded, Init
             PROVE  RegionInv
  OBVIOUS
<1>1. out = << >> /\ DOMAIN out = {} /\ Len(out) = 0
  BY DEF Init, InitChains
<1>2. \A t \in Threads : Origins(t) = {0}
  <2>1. \A t \in Threads : EventsOf(t) = {}
    BY <1>1 DEF EventsOf
  <2> QED BY <2>1 DEF Origins
<1>3. MaxBlock \in Nat /\ 0 - 0 + 0 = 0
  BY MaxBlockBound
<1>4. \A t \in Threads : /\ ninst[t] = 0 /\ icount[t] = 0 /\ todo[t] = {} /\ pc[t] = "unborn"
                         /\ \A a \in AlarmIds : thread_count[a][t] = 0
  BY DEF Init, InitChains
<1>5. ASSUME NEW t \in Threads PROVE Timed(t, 0)
  <2>1. \A a \in AlarmIds : 0 < Conf(a).count
    BY ConfType DEF PerThreadChains
  <2>2. \A a \in AlarmIds : Due(a, t) = 0
    BY <1>4 DEF Due
  <2>3. 0 \in 0 .. MaxBlock
    BY <1>3
  <2> QED BY <1>4, <2>1, <2>2, <2>3 DEF Timed
<1> QED BY <1>1, <1>2, <1>3, <1>4, <1>5, InitOrder DEF RegionInv, RegionWithinBlock, Summing

LEMMA ExecTimed ==
    ASSUME AllIcount, BlocksBounded, LogOn, FiringInv, NEW t \in Threads, NEW b \in Blocks,
           Exec(t, b), NEW s \in Nat, Timed(t, s)
    PROVE  Timed(t, s)'
<1>1. /\ pc[t] = "run" /\ todo[t] = {} /\ pc' = pc /\ UNCHANGED <<armed, thread_count>>
      /\ icount'[t] = icount[t] + b.size /\ icount[t] \in Nat /\ b.size \in Nat
      /\ ninst'[t] = b.size
      /\ \A a \in AlarmIds : a \in todo'[t] <=> a \in Instrumented(b)
  <2>1. TypeOK /\ b.size \in Nat
    BY BoundAssumption DEF FiringInv, Inv
  <2>2. /\ pc[t] = "run" /\ todo[t] = {} /\ pc' = pc /\ UNCHANGED <<armed, thread_count>>
        /\ icount' = [icount EXCEPT ![t] = @ + b.size]
        /\ todo'[t] = Instrumented(b) \cup IF start_thread[t] THEN {InitAlarm} ELSE {}
        /\ ninst'[t] = b.size
    BY ExecStep
  <2>3. icount'[t] = icount[t] + b.size /\ icount[t] \in Nat
    BY <2>1, <2>2 DEF TypeOK
  <2> QED BY <2>1, <2>2, <2>3, InitAlarmOutside
<1>2. \A a \in AlarmIds : Due(a, t) = 0 /\ Due(a, t)' = b.size
  BY <1>1 DEF Due, Instrumented, AllIcount
<1> SUFFICES ASSUME NEW a \in AlarmIds, Counting(a, t)
             PROVE  /\ thread_count[a][t] < Conf(a).count
                    /\ \E c \in 0 .. MaxBlock :
                          thread_count[a][t] + Due(a, t)' = icount'[t] - s + c
  BY <1>1 DEF Timed, Counting, CorrectTid
<1>3. /\ thread_count[a][t] \in Nat
      /\ thread_count[a][t] < Conf(a).count
      /\ \E c \in 0 .. MaxBlock : thread_count[a][t] + Due(a, t) = icount[t] - s + c
  BY <1>1 DEF Timed, FiringInv, Inv, TypeOK
<1>4. PICK c \in 0 .. MaxBlock : thread_count[a][t] + 0 = icount[t] - s + c
  BY <1>2, <1>3
<1>5. thread_count[a][t] + b.size = (icount[t] + b.size) - s + c
  BY <1>1, <1>3, <1>4, MaxBlockBound
<1> QED BY <1>1, <1>2, <1>3, <1>5

LEMMA WriteTimed ==
    ASSUME BlocksBounded, FiringInv, NEW t \in Threads, CountWrite(t), NEW s \in Nat,
           Timed(t, s), Summing(t), ninst[t] <= MaxBlock
    PROVE  Timed(t, s)'
<1> DEFINE a == cur[t]
<1>1. /\ pc[t] = "count" /\ a \in AlarmIds
      /\ \A d \in AlarmIds : thread_count'[d][t] = IF d = a THEN sum[t] ELSE thread_count[d][t]
      /\ \/ sum[t] >= target_count[a] /\ Alone(t, "disarm") /\ UNCHANGED todo
         \/ /\ ~(sum[t] >= target_count[a]) /\ Alone(t, "run")
            /\ todo'[t] = todo[t] \ {a}
      /\ UNCHANGED <<armed, icount, ninst, cur>>
  <2>1. /\ pc[t] = "count" /\ cur[t] \in AlarmIds
        /\ UNCHANGED <<armed, icount, ninst, cur>>
    BY WriteStep
  <2>2. \A d \in AlarmIds : thread_count'[d][t] = IF d = cur[t] THEN sum[t] ELSE thread_count[d][t]
    <3>1. \A d \in AlarmIds, u \in Threads :
              thread_count'[d][u] = IF d = cur[t] /\ u = t THEN sum[t] ELSE thread_count[d][u]
      BY WriteStep
    <3> QED BY <3>1
  <2>3. \/ sum[t] >= target_count[cur[t]] /\ Alone(t, "disarm") /\ UNCHANGED todo
        \/ /\ ~(sum[t] >= target_count[cur[t]]) /\ Alone(t, "run")
           /\ todo'[t] = todo[t] \ {cur[t]}
    BY WriteStep
  <2> QED BY <2>1, <2>2, <2>3
<1>2. /\ a \in todo[t] /\ (Counting(a, t) => sum[t] = thread_count[a][t] + ninst[t])
      /\ target_count[a] = Conf(a).count /\ Conf(a).count \in Nat
      /\ thread_count[a][t] \in Nat /\ ninst[t] \in Nat /\ icount[t] \in Nat /\ sum[t] \in Nat
  BY <1>1, ConfType DEF Summing, FiringInv, Firing, Inv, TypeOK
<1>3. MaxBlock \in Nat
  BY MaxBlockBound
<1>4. ASSUME Counting(a, t)
      PROVE  /\ thread_count[a][t] < Conf(a).count
             /\ \E c \in 0 .. MaxBlock : sum[t] = icount[t] - s + c
  BY <1>1, <1>2, <1>4 DEF Timed, Due
<1>5. CASE sum[t] >= target_count[a]
  <2>1. Counting(a, t)
    BY <1>1, <1>2, <1>5 DEF FiringInv, Inv, Counters, At
  <2>2. PICK c \in 0 .. MaxBlock : sum[t] = icount[t] - s + c
    BY <1>4, <2>1
  <2>3. icount[t] - s \in Window(a)
    BY <1>2, <1>3, <1>4, <1>5, <2>1, <2>2 DEF Window
  <2> QED BY <1>1, <1>5, <2>3 DEF Timed, Alone
<1>6. CASE ~(sum[t] >= target_count[a])
  <2>1. pc'[t] = "run" /\ todo'[t] = todo[t] \ {a}
    BY <1>1, <1>6 DEF Alone
  <2> SUFFICES ASSUME NEW d \in AlarmIds, Counting(d, t)
               PROVE  /\ thread_count'[d][t] < Conf(d).count
                      /\ \E c \in 0 .. MaxBlock :
                            thread_count'[d][t] + Due(d, t)' = icount[t] - s + c
    BY <1>1, <2>1 DEF Timed, Counting, CorrectTid
  <2>2. CASE d = a
    <3>1. thread_count'[d][t] = sum[t] /\ Due(d, t)' = 0 /\ sum[t] + 0 = sum[t]
      BY <1>1, <1>2, <2>1, <2>2 DEF Due
    <3> QED BY <1>2, <1>4, <1>6, <2>2, <3>1
  <2>3. CASE d # a
    <3>1. thread_count'[d][t] = thread_count[d][t] /\ Due(d, t)' = Due(d, t)
      BY <1>1, <2>1, <2>3 DEF Due
    <3> QED BY <1>1, <3>1 DEF Timed
  <2> QED BY <2>2, <2>3
<1> QED BY <1>5, <1>6

LEMMA ArmNextTimed ==
    ASSUME PerThreadChains, SingleChain, BlocksBounded, FiringInv, NEW t \in Threads,
           FireArmNext(t), NEW s \in Nat, Timed(t, s), ninst[t] <= MaxBlock
    PROVE  Timed(t, s)'
<1>1. /\ pc[t] = "armnext" /\ pc'[t] = "run" /\ UNCHANGED <<thread_count, icount, ninst>>
      /\ cur[t] \in AlarmIds
  BY ArmNextStep DEF Alone
<1>2. \A a \in AlarmIds : ~armed[a][t] /\ thread_count[a][t] = 0
  <2>1. \A a \in AlarmIds : ~armed[a][t]
    BY <1>1, SingleChainId DEF FiringInv, Inv, Places, OneStagePerThread, InFlight
  <2>2. \A a \in AlarmIds : thread_count[a][t] \in Nat /\ (thread_count[a][t] > 0 => armed[a][t])
    BY DEF FiringInv, Inv, TypeOK, Counters, Counting
  <2> QED BY <2>1, <2>2
<1>3. icount[t] = s /\ ninst[t] \in Nat /\ MaxBlock \in Nat
  BY <1>1, MaxBlockBound DEF Timed, FiringInv, Inv, TypeOK
<1>4. \A a \in AlarmIds : Due(a, t)' \in 0 .. MaxBlock /\ 0 + Due(a, t)' = s - s + Due(a, t)'
  BY <1>1, <1>3 DEF Due
<1>5. \A a \in AlarmIds : 0 < Conf(a).count
  BY ConfType DEF PerThreadChains
<1> QED BY <1>1, <1>2, <1>3, <1>4, <1>5 DEF Timed
LEMMA HandlersRegion ==
    ASSUME BlocksBounded, SingleChain, RegionInv, OrderInv', LogOn, NEW t \in Threads, FireHandlers(t)
    PROVE  RegionWithinBlock' /\ \A u \in Threads : \A s \in Origins(u)' : Timed(u, s)'
<1> DEFINE a == cur[t]
           L == Len(out)
<1>0. FiringInv /\ TypeOK
  BY DEF RegionInv, OrderInv, PlainInv, FiringInv, Inv
<1>1. /\ pc[t] = "handlers" /\ Alone(t, "armnext") /\ a \in AlarmIds
      /\ LogEvent(t, ev[t])
      /\ UNCHANGED <<armed, thread_count, icount, ninst, todo, cur, sum>>
  BY <1>0, HandlersStep DEF SingleChain, Handlers
<1>2. icount[t] \in Nat
  BY <1>0 DEF TypeOK
<1>3. /\ DOMAIN out' = DOMAIN out \cup {L + 1} /\ DOMAIN out = 1 .. L
      /\ \A j \in DOMAIN out : out'[j] = out[j] /\ EventNumber(j)' = EventNumber(j)
      /\ out'[L + 1] = [tid |-> t, ev |-> ev[t], at |-> icount[t]]
      /\ \A j : j = L + 1 => EventNumber(j)' = NumEvents(t) + 1
  BY <1>0, <1>1, AppendEvent
<1>4. /\ Origins(t)' = {icount[t]}
      /\ \A u \in Threads : u # t => Origins(u)' = Origins(u)
      /\ \A j \in DOMAIN out : /\ PreviousEvent(j)' = PreviousEvent(j)
                               /\ \A i \in PreviousEvent(j) : out'[i] = out[i]
      /\ \A j : j = L + 1 => /\ EventNumber(j)' = 1 => 0 \in Origins(t)
                             /\ \A i \in PreviousEvent(j)' : out'[i].at \in Origins(t)
  BY <1>0, <1>1, AppendOrigins
\* The alarm that raises the new event is the one the chain order says.
<1>5. \A j : j = L + 1 => AlarmOfEvent(EventNumber(j)') = Conf(a)
  <2>1. PICK q \in Nat : Progress(t, q)
    BY DEF RegionInv, OrderInv
  <2>2. NumEvents(t) = q * Len(Alarm[1]) + a[2] - 1
    BY <1>1, <2>1 DEF Progress
  <2>3. /\ a[2] \in 1 .. Len(Alarm[1]) /\ q * Len(Alarm[1]) \in Nat /\ Conf(a) = Alarm[1][a[2]]
    BY <1>1, SingleChainId
  <2>4. NumEvents(t) + 1 = q * Len(Alarm[1]) + a[2]
    BY <2>2, <2>3
  <2>5. AlarmOfEvent(q * Len(Alarm[1]) + a[2]) = Conf(a)
    BY <2>3, AlarmOfRound
  <2> QED BY <1>3, <2>4, <2>5
<1>6. \A s \in Origins(t) : s \in Nat /\ WithinBlock(icount[t] - s, Conf(a).count)
  <2>1. ASSUME NEW s \in Origins(t) PROVE s \in Nat /\ icount[t] - s \in Window(a)
    BY <1>0, <1>1, <2>1, OriginsInt DEF RegionInv, Timed
  <2> QED BY <1>1, <1>2, <2>1, WithinWindow
<1>7. RegionWithinBlock'
  <2> SUFFICES ASSUME NEW j \in DOMAIN out'
               PROVE  LET wanted == AlarmOfEvent(EventNumber(j)').count
                      IN  /\ EventNumber(j)' = 1 => WithinBlock(out'[j].at, wanted)
                          /\ \A i \in PreviousEvent(j)' :
                                 WithinBlock(out'[j].at - out'[i].at, wanted)
    BY DEF RegionWithinBlock, AlarmOfEvent, WithinBlock
  <2>1. CASE j \in DOMAIN out
    BY <1>3, <1>4, <2>1 DEF RegionInv, RegionWithinBlock
  <2>2. CASE j = L + 1
    <3>1. EventNumber(j)' = 1 => WithinBlock(icount[t], Conf(a).count)
      BY <1>2, <1>4, <1>6, <2>2 DEF WithinBlock
    <3>2. \A i \in PreviousEvent(j)' : WithinBlock(icount[t] - out'[i].at, Conf(a).count)
      BY <1>4, <1>6, <2>2
    <3> QED BY <1>3, <1>5, <2>2, <3>1, <3>2
  <2> QED BY <1>3, <2>1, <2>2
<1>8. ASSUME NEW u \in Threads, NEW s \in Origins(u)' PROVE Timed(u, s)'
  <2>1. CASE u = t
    BY <1>1, <1>4, <1>8, <2>1 DEF Timed, Alone
  <2>2. CASE u # t
    <3>1. s \in Origins(u) /\ Timed(u, s)
      BY <1>4, <1>8, <2>2 DEF RegionInv
    <3>2. pc'[u] = pc[u]
      BY <1>1, <2>2 DEF Alone
    <3> QED BY <1>1, <3>1, <3>2, FrameTimed
  <2> QED BY <2>1, <2>2
<1> QED BY <1>7, <1>8
(* No action of thread t touches what the counting of another thread uses.    *)
LEMMA OtherThreads ==
    ASSUME PerThreadChains, FiringInv, NEW t \in Threads,
           \/ ThreadStart(t)
           \/ \E b \in Blocks : Exec(t, b)
           \/ CountRead(t) \/ CountWrite(t) \/ FireDisarm(t) \/ FireHandlers(t) \/ FireArmNext(t)
           \/ InitStart(t),
           NEW u \in Threads, u # t
    PROVE  /\ \A a \in AlarmIds : /\ armed'[a][u] <=> armed[a][u]
                                  /\ thread_count'[a][u] = thread_count[a][u]
           /\ pc'[u] = pc[u] /\ todo'[u] = todo[u] /\ ninst'[u] = ninst[u]
           /\ icount'[u] = icount[u] /\ cur'[u] = cur[u] /\ sum'[u] = sum[u]
           /\ start_thread'[u] = start_thread[u]
<1>1. CASE ThreadStart(t)
  BY <1>1, StartStep, SMTT(30) DEF Alone, FiringInv, Inv, TypeOK
<1>2. CASE \E b \in Blocks : Exec(t, b)
  <2>1. PICK b \in Blocks : Exec(t, b)
    BY <1>2
  <2>2. /\ icount' = IF LogOn THEN [icount EXCEPT ![t] = @ + b.size] ELSE icount
        /\ todo'[u] = todo[u] /\ ninst'[u] = ninst[u]
        /\ UNCHANGED <<armed, thread_count, pc, cur, sum, start_thread>>
    BY <2>1, ExecStep
  <2>3. icount'[u] = icount[u]
    BY <2>2 DEF FiringInv, Inv, TypeOK
  <2> QED BY <2>2, <2>3
<1>3. CASE CountRead(t)
  BY <1>3, ReadStep DEF Alone
<1>4. CASE CountWrite(t)
  <2>1. /\ cur[t] \in AlarmIds
        /\ \A a \in AlarmIds, v \in Threads :
               thread_count'[a][v] = IF a = cur[t] /\ v = t THEN sum[t] ELSE thread_count[a][v]
        /\ Alone(t, "disarm") \/ Alone(t, "run")
        /\ \A v \in Threads : v # t => todo'[v] = todo[v]
        /\ UNCHANGED <<armed, ninst, icount, cur, sum, start_thread>>
    BY <1>4, WriteStep
  <2> QED BY <2>1 DEF Alone
<1>5. CASE FireDisarm(t)
  BY <1>5, DisarmStep DEF Alone
<1>6. CASE FireHandlers(t)
  BY <1>6, HandlersStep DEF Alone
<1>7. CASE FireArmNext(t)
  <2> DEFINE a == cur[t]
             n == Repetitions(a, t)
  <2>1. /\ Alone(t, "run") /\ a \in AlarmIds /\ bcast[t] = FALSE /\ n \in Nat
        /\ \A b \in AlarmIds, v \in Threads :
               armed'[b][v] <=> (armed[b][v] \/ <<b, v>> \in NextArmed(a, t, n))
        /\ \A v \in Threads : v # t => todo'[v] = todo[v]
        /\ UNCHANGED <<thread_count, ninst, icount, cur, sum, start_thread>>
    BY <1>7, ArmNextStep
  <2> HIDE DEF a, n
  <2>2. \A b \in AlarmIds, v \in Threads : <<b, v>> \in NextArmed(a, t, n) => v = t
    <3>1. a \in AlarmIds /\ bcast[t] = FALSE /\ n \in Nat
      BY <2>1
    <3> QED BY <3>1, NextArmedPerThread
  <2> QED BY <2>1, <2>2 DEF Alone
<1>8. CASE InitStart(t)
  BY <1>8, InitStartStep DEF Alone, FiringInv, Inv, TypeOK
<1> QED BY <1>1, <1>2, <1>3, <1>4, <1>5, <1>6, <1>7, <1>8

LEMMA StepRegion ==
    ASSUME PerThreadChains, NoDefaultStart, SingleChain, AllIcount, BlocksBounded,
           RegionInv, [Next]_vars
    PROVE  RegionInv'
<1>0. /\ FiringInv /\ TypeOK /\ OrderInv /\ OrderInv'
      /\ \A t \in Threads : ~InitStart(t) /\ ~FireUniform(t)
  BY StepOrder, StepPlain DEF RegionInv, OrderInv, PlainInv, FiringInv, Inv
<1>1. CASE UNCHANGED vars
  <2>1. UNCHANGED <<armed, thread_count, pc, todo, ninst, icount, cur, sum, out>>
    BY <1>1 DEF vars, alarmVars, logVars, localVars
  <2>2. \A u \in Threads : Summing(u)'
    BY <2>1 DEF RegionInv, Summing, Counting, CorrectTid
  <2>3. ASSUME NEW u \in Threads, NEW s, Timed(u, s) PROVE Timed(u, s)'
    BY <2>1, <2>3 DEF Timed, Counting, CorrectTid, Due
  <2> QED BY <1>0, <2>1, <2>2, <2>3, SameOrigins DEF RegionInv
<1> SUFFICES ASSUME NEW t \in Threads,
                    \/ ThreadStart(t)
                    \/ \E b \in Blocks : Exec(t, b)
                    \/ CountRead(t) \/ CountWrite(t) \/ FireDisarm(t) \/ FireHandlers(t)
                    \/ FireArmNext(t)
             PROVE  RegionInv'
  BY <1>0, <1>1 DEF Next, Analysis
<1>2. ASSUME NEW u \in Threads, u # t
      PROVE  /\ ninst'[u] <= MaxBlock /\ Summing(u)'
             /\ \A s : Timed(u, s) => Timed(u, s)'
  <2>1. pc[u] = "count" => cur[u] \in AlarmIds
    BY <1>0 DEF TypeOK
  <2> QED BY <1>0, <1>2, <2>1, OtherThreads, FrameTimed DEF RegionInv
<1>3. ninst[t] <= MaxBlock /\ Summing(t) /\ \A s \in Origins(t) : s \in Nat /\ (LogOn => Timed(t, s))
  BY <1>0, OriginsInt DEF RegionInv
\* A step that logs nothing.
<1>4. ASSUME out' = out, ninst'[t] <= MaxBlock, Summing(t)',
             \A s \in Nat : LogOn /\ Timed(t, s) => Timed(t, s)'
      PROVE  RegionInv'
  <2>1. \A u \in Threads : ninst'[u] <= MaxBlock /\ Summing(u)'
    BY <1>2, <1>4
  <2>2. \A u \in Threads : Origins(u)' = Origins(u)
    BY <1>4, SameOrigins
  <2>3. RegionWithinBlock'
    BY <1>4, SameOrigins DEF RegionInv
  <2>4. ASSUME LogOn, NEW u \in Threads, NEW s \in Origins(u)' PROVE Timed(u, s)'
    <3>1. Timed(u, s) /\ s \in Nat
      BY <1>0, <2>2, <2>4, OriginsInt DEF RegionInv
    <3> QED BY <1>2, <1>4, <2>4, <3>1
  <2> QED BY <1>0, <2>1, <2>3, <2>4 DEF RegionInv
<1>5. CASE ThreadStart(t)
  <2>1. /\ pc[t] = "unborn" /\ pc'[t] = "run"
        /\ UNCHANGED <<armed, thread_count, todo, ninst, icount, out>>
    BY <1>0, <1>5, StartStep DEF Alone
  <2> QED BY <1>3, <1>4, <2>1 DEF Timed, Summing, Counting, CorrectTid, Due
<1>6. ASSUME NEW b \in Blocks, Exec(t, b) PROVE RegionInv'
  <2>1. pc'[t] = "run" /\ ninst'[t] = b.size /\ out' = out
    BY <1>0, <1>6, ExecStep
  <2>2. ninst'[t] <= MaxBlock /\ Summing(t)'
    BY <2>1, MaxBlockBound DEF Summing
  <2> QED BY <1>0, <1>4, <1>6, <2>1, <2>2, ExecTimed
<1>7. CASE CountRead(t)
  <2>1. PICK a \in AlarmIds :
            /\ pc[t] = "run" /\ pc'[t] = "count" /\ a \in todo[t] /\ cur'[t] = a
            /\ sum'[t] = thread_count[a][t] +
                             IF ShouldCount(a, t) THEN Weight(a, ninst[t]) ELSE 0
            /\ UNCHANGED <<armed, thread_count, todo, ninst, icount, out>>
    BY <1>0, <1>7, ReadStep DEF Alone, NextCall
  <2>2. Counting(a, t)' => sum'[t] = thread_count[a][t] + ninst[t]
    BY <2>1 DEF Counting, CorrectTid, ShouldCount, Weight, AllIcount
  <2>3. Summing(t)'
    BY <2>1, <2>2 DEF Summing, Counting, CorrectTid
  <2>4. \A s : Timed(t, s) => Timed(t, s)'
    BY <2>1 DEF Timed, Counting, CorrectTid, Due
  <2> QED BY <1>3, <1>4, <2>1, <2>3, <2>4
<1>8. CASE CountWrite(t)
  <2>1. pc'[t] # "count" /\ UNCHANGED <<out, ninst>>
    BY <1>0, <1>8, WriteStep DEF Alone
  <2>2. \A s \in Nat : Timed(t, s) => Timed(t, s)'
    BY <1>0, <1>3, <1>8, WriteTimed
  <2> QED BY <1>3, <1>4, <2>1, <2>2 DEF Summing
<1>9. CASE FireDisarm(t)
  <2>1. pc[t] = "disarm" /\ pc'[t] = "handlers" /\ UNCHANGED <<out, ninst, icount, cur>>
    BY <1>0, <1>9, DisarmStep DEF Alone
  <2> QED BY <1>3, <1>4, <2>1 DEF Summing, Timed
<1>10. CASE FireHandlers(t)
  <2>1. pc'[t] = "armnext" /\ UNCHANGED ninst
    BY <1>0, <1>10, HandlersStep DEF Alone
  <2>2. \A u \in Threads : ninst'[u] <= MaxBlock /\ Summing(u)'
    BY <1>2, <1>3, <2>1 DEF Summing
  <2>3. CASE LogOn
    BY <1>0, <1>10, <2>2, <2>3, HandlersRegion DEF RegionInv
  <2>4. CASE ~LogOn
    <3>1. out' = << >>
      BY <1>0, <2>4 DEF OrderInv
    <3>2. RegionWithinBlock'
      BY <3>1 DEF RegionWithinBlock
    <3> QED BY <1>0, <2>2, <2>4, <3>2 DEF RegionInv
  <2> QED BY <2>3, <2>4
<1>11. CASE FireArmNext(t)
  <2>1. pc'[t] = "run" /\ UNCHANGED <<out, ninst>>
    BY <1>0, <1>11, ArmNextStep DEF Alone
  <2>2. \A s \in Nat : Timed(t, s) => Timed(t, s)'
    BY <1>0, <1>3, <1>11, ArmNextTimed
  <2> QED BY <1>3, <1>4, <2>1, <2>2 DEF Summing
<1> QED BY <1>5, <1>6, <1>7, <1>8, <1>9, <1>10, <1>11

(* Between two consecutive events of a thread it executes as many             *)
(* instructions as the later alarm's target says, give or take one block.     *)
THEOREM RegionLengths ==
    ASSUME PerThreadChains, NoDefaultStart, SingleChain, AllIcount, BlocksBounded
    PROVE  Spec => []RegionWithinBlock
<1>1. RegionInv => RegionWithinBlock
  BY DEF RegionInv
<1>2. Init => RegionInv
  BY InitRegion
<1>3. RegionInv /\ [Next]_vars => RegionInv'
  BY StepRegion
<1> QED BY <1>1, <1>2, <1>3, PTL DEF Spec
-----------------------------------------------------------------------------
(* The default start.  Before a thread has run its first block it has counted *)
(* nothing, and in that block it reaches no target before INIT_ALARM is       *)
(* called; afterwards it raises no start event again.                         *)
SomeInstruction == \E b \in Blocks : b.size > 0

Fresh(t) == pc[t] = "unborn" \/ start_thread[t]
Early(t) ==
    /\ ninst[t] <= MaxBlock
    /\ IF Fresh(t)
       THEN /\ NumEvents(t) = 0 /\ pc[t] \in {"unborn", "run", "count"}
            /\ \A a \in AlarmIds : armed[a][t] => Conf(a).count > MaxBlock
            /\ \A a \in AlarmIds : todo[t] = {} \/ a \in todo[t] => thread_count[a][t] = 0
            /\ todo[t] # {} => InitAlarm \in todo[t]
            /\ pc[t] = "count" => cur[t] \in todo[t] /\ sum[t] <= MaxBlock
       ELSE NumEvents(t) > 0 /\ InitAlarm \notin todo[t]

DefaultInv ==
    /\ FiringInv
    /\ DefaultStartFirst
    /\ ~LogOn => out = << >>
    /\ LogOn /\ InitAlarmOn /\ LateFirst => \A t \in Threads : Early(t)

LEMMA InitDefault == PerThreadChains /\ BlocksBounded /\ Init => DefaultInv
<1> SUFFICES ASSUME PerThreadChains, BlocksBounded, Init PROVE DefaultInv
  OBVIOUS
<1>1. out = << >> /\ DOMAIN out = {} /\ Len(out) = 0
  BY DEF Init, InitChains
<1>2. \A t \in Threads : NumEvents(t) = 0
  BY <1>1, FS_EmptySet DEF NumEvents, EventsOf
<1>3. ASSUME LateFirst, NEW t \in Threads PROVE Early(t)
  <2>1. ASSUME NEW a \in AlarmIds, armed[a][t] PROVE Conf(a).count > MaxBlock
    <3>1. a[2] = 1 /\ WaitFor[a[1]] = NoWait
      BY <2>1 DEF Init, InitChains, Activated
    <3>2. Conf(<<a[1], 1>>).count > MaxBlock /\ a = <<a[1], 1>>
      BY <1>3, <3>1, AlarmId DEF LateFirst
    <3> QED BY <3>2
  <2>2. /\ ninst[t] = 0 /\ todo[t] = {} /\ pc[t] = "unborn"
        /\ \A a \in AlarmIds : thread_count[a][t] = 0
    BY DEF Init, InitChains
  <2> QED BY <1>2, <2>1, <2>2, MaxBlockBound DEF Early, Fresh
<1> QED BY <1>1, <1>3, InitFiring DEF DefaultInv, DefaultStartFirst

LEMMA LogDefault ==
    ASSUME DefaultInv, FiringInv', iregions' = iregions, LogOn, InitAlarmOn, LateFirst,
           NEW t \in Threads, NEW e, LogEvent(t, e), e = Start <=> NumEvents(t) = 0
    PROVE  DefaultStartFirst'
<1> DEFINE L == Len(out)
<1>1. /\ DOMAIN out' = DOMAIN out \cup {L + 1}
      /\ \A j \in DOMAIN out : out'[j] = out[j] /\ EventNumber(j)' = EventNumber(j)
      /\ out'[L + 1].ev = e
      /\ \A j : j = L + 1 => EventNumber(j)' = NumEvents(t) + 1
      /\ NumEvents(t) \in Nat
  <2>1. TypeOK
    BY DEF DefaultInv, FiringInv, Inv
  <2>2. /\ DOMAIN out' = DOMAIN out \cup {L + 1}
        /\ \A j \in DOMAIN out : out'[j] = out[j] /\ EventNumber(j)' = EventNumber(j)
        /\ out'[L + 1] = [tid |-> t, ev |-> e, at |-> icount[t]]
        /\ \A j : j = L + 1 => EventNumber(j)' = NumEvents(t) + 1
    BY <2>1, AppendEvent
  <2> QED BY <2>1, <2>2, LogFinite
<1>2. ASSUME NEW j \in DOMAIN out' PROVE out'[j].ev = Start <=> EventNumber(j)' = 1
  <2>1. CASE j \in DOMAIN out
    BY <1>1, <2>1 DEF DefaultInv, DefaultStartFirst
  <2>2. CASE j = L + 1
    BY <1>1, <2>2
  <2> QED BY <1>1, <1>2, <2>1, <2>2
<1> QED BY <1>2 DEF DefaultStartFirst

(* The steps of a thread that has not run its first block.                    *)
LEMMA FreshSteps ==
    ASSUME PerThreadChains, BlocksBounded, SomeInstruction, FiringInv, InitAlarmOn,
           NEW t \in Threads, Early(t), out' = out,
           \/ ThreadStart(t)
           \/ \E b \in Blocks : Exec(t, b)
           \/ CountRead(t) \/ CountWrite(t)
    PROVE  Early(t)'
<1>0. MaxBlock \in Nat /\ MaxBlock > 0
  <2>1. PICK b \in Blocks : b.size > 0
    BY DEF SomeInstruction
  <2> QED BY <2>1, MaxBlockBound
<1>1. NumEvents(t)' = NumEvents(t)
  BY SameLog
<1>2. CASE ThreadStart(t)
  BY <1>1, <1>2, StartStep DEF Early, Fresh, Alone, FiringInv, Inv, TypeOK
<1>3. ASSUME NEW b \in Blocks, Exec(t, b) PROVE Early(t)'
  <2>1. /\ pc[t] = "run" /\ todo[t] = {} /\ ninst'[t] = b.size
        /\ todo'[t] = Instrumented(b) \cup IF start_thread[t] THEN {InitAlarm} ELSE {}
        /\ UNCHANGED <<armed, thread_count, start_thread, pc, sum>>
    BY <1>3, ExecStep
  <2>2. InitAlarm \notin Instrumented(b)
    BY InitAlarmOutside DEF Instrumented
  <2> QED BY <1>1, <2>1, <2>2, MaxBlockBound DEF Early, Fresh
<1>4. CASE CountRead(t)
  <2>1. PICK a \in AlarmIds :
            /\ pc[t] = "run" /\ a \in todo[t] /\ cur'[t] = a /\ pc'[t] = "count"
            /\ sum'[t] = thread_count[a][t] +
                             IF ShouldCount(a, t) THEN Weight(a, ninst[t]) ELSE 0
            /\ UNCHANGED <<armed, thread_count, start_thread, todo, ninst>>
    BY <1>4, ReadStep DEF Alone, NextCall
  <2>2. ninst[t] \in Nat /\ ninst[t] <= MaxBlock
    BY DEF Early, FiringInv, Inv, TypeOK
  <2>3. Fresh(t) => sum'[t] <= MaxBlock
    BY <1>0, <2>1, <2>2 DEF Early, Weight
  <2> QED BY <1>1, <2>1, <2>3 DEF Early, Fresh
<1>5. CASE CountWrite(t)
  <2> DEFINE a == cur[t]
  <2>1. /\ pc[t] = "count" /\ a \in AlarmIds
        /\ \A d \in AlarmIds : thread_count'[d][t] = IF d = a THEN sum[t] ELSE thread_count[d][t]
        /\ \/ sum[t] >= target_count[a] /\ Alone(t, "disarm") /\ UNCHANGED todo
           \/ Alone(t, "run") /\ todo'[t] = todo[t] \ {a}
        /\ UNCHANGED <<armed, start_thread, ninst, sum>>
    <3>1. /\ \/ sum[t] >= target_count[a] /\ Alone(t, "disarm") /\ UNCHANGED todo
             \/ /\ Alone(t, "run")
                /\ \A u \in Threads : todo'[u] = IF u = t THEN todo[t] \ {a} ELSE todo[u]
          /\ pc[t] = "count" /\ a \in AlarmIds
      BY <1>5, WriteStep
    <3>2. \A d \in AlarmIds : thread_count'[d][t] = IF d = a THEN sum[t] ELSE thread_count[d][t]
      <4>1. \A d \in AlarmIds, u \in Threads :
                thread_count'[d][u] = IF d = cur[t] /\ u = t THEN sum[t] ELSE thread_count[d][u]
        BY <1>5, WriteStep
      <4> QED BY <4>1
    <3>3. UNCHANGED <<armed, start_thread, ninst, sum>>
      BY <1>5, WriteStep
    <3> QED BY <3>1, <3>2, <3>3
  <2>2. Fresh(t) => ~(sum[t] >= target_count[a])
    <3>1. sum[t] \in Nat /\ Conf(a).count \in Nat /\ Conf(a).count > 0 /\ target_count[a] = Conf(a).count
      BY <2>1, ConfType DEF FiringInv, Inv, TypeOK, Firing, PerThreadChains
    <3>2. sum[t] > 0 => armed[a][t]
      BY <2>1 DEF FiringInv, Inv, Counters, At, Counting
    <3> QED BY <1>0, <2>1, <3>1, <3>2 DEF Early
  <2>3. CASE Fresh(t)
    <3>1. pc'[t] = "run" /\ todo'[t] = todo[t] \ {a} /\ InitAlarm # a
      BY <2>1, <2>2, <2>3, InitAlarmOutside DEF Alone
    <3>2. InitAlarm \in todo'[t]
      BY <2>1, <2>3, <3>1 DEF Early
    <3> QED BY <1>1, <2>1, <2>3, <3>1, <3>2 DEF Early, Fresh
  <2>4. CASE ~Fresh(t)
    BY <1>1, <2>1, <2>4 DEF Early, Fresh, Alone
  <2> QED BY <2>3, <2>4
<1> QED BY <1>2, <1>3, <1>4, <1>5
LEMMA StepDefault ==
    ASSUME PerThreadChains, BlocksBounded, SomeInstruction, DefaultInv, [Next]_vars
    PROVE  DefaultInv'
<1>0. FiringInv /\ FiringInv' /\ TypeOK
  BY StepFiring DEF DefaultInv, FiringInv, Inv
<1>1. CASE UNCHANGED vars
  <2>1. /\ UNCHANGED <<armed, thread_count, iregions, start_thread, pc, todo, ninst, cur, sum, out>>
        /\ \A t : NumEvents(t)' = NumEvents(t)
    BY <1>1, SameLog DEF vars, alarmVars, logVars, localVars
  <2>2. DefaultStartFirst'
    BY <2>1, SameLog DEF DefaultInv, DefaultStartFirst, InitAlarmOn, HasStartEvent
  <2>3. \A t \in Threads : Early(t) => Early(t)'
    BY <2>1 DEF Early, Fresh
  <2> QED BY <1>0, <2>1, <2>2, <2>3 DEF DefaultInv, InitAlarmOn, HasStartEvent
<1> SUFFICES ASSUME NEW t \in Threads,
                    \/ ThreadStart(t)
                    \/ \E b \in Blocks : Exec(t, b)
                    \/ CountRead(t) \/ CountWrite(t) \/ FireDisarm(t) \/ FireHandlers(t)
                    \/ FireArmNext(t) \/ InitStart(t)
             PROVE  DefaultInv'
  BY <1>0, <1>1 DEF Next, Analysis, FireUniform, FiringInv, Inv, Counters
<1>2. iregions' = iregions
  BY <1>0, StartStep, ExecStep, ReadStep, WriteStep, DisarmStep, HandlersStep, ArmNextStep,
     InitStartStep
<1>3. InitAlarmOn' <=> InitAlarmOn
  BY <1>2 DEF InitAlarmOn, HasStartEvent
<1>4. CASE ~(LogOn /\ InitAlarmOn /\ LateFirst)
  <2>1. ~LogOn => out' = out
    BY <1>0, StartStep, ExecStep, ReadStep, WriteStep, DisarmStep, HandlersStep, ArmNextStep,
       InitStartStep DEF Handlers, LogEvent
  <2>2. ~LogOn => out' = << >>
    BY <2>1 DEF DefaultInv
  <2> QED BY <1>0, <1>3, <1>4, <2>2 DEF DefaultInv, DefaultStartFirst
<1> SUFFICES ASSUME LogOn, InitAlarmOn, LateFirst
             PROVE  DefaultStartFirst' /\ \A u \in Threads : Early(u)'
  BY <1>0, <1>3, <1>4 DEF DefaultInv
<1>5. Early(t) /\ \A u \in Threads : Early(u)
  BY DEF DefaultInv
<1>6. ASSUME \A u \in Threads : u # t => NumEvents(u)' = NumEvents(u),
             NEW u \in Threads, u # t
      PROVE  Early(u)'
  <2>1. pc[u] = "count" => cur[u] \in AlarmIds
    BY <1>0 DEF TypeOK
  <2>2. /\ \A a \in AlarmIds : /\ armed'[a][u] <=> armed[a][u]
                               /\ thread_count'[a][u] = thread_count[a][u]
        /\ pc'[u] = pc[u] /\ todo'[u] = todo[u] /\ ninst'[u] = ninst[u]
        /\ cur'[u] = cur[u] /\ sum'[u] = sum[u] /\ start_thread'[u] = start_thread[u]
    BY <1>0, <1>6, OtherThreads
  <2> QED BY <1>5, <1>6, <2>1, <2>2 DEF Early, Fresh
\* A step that logs nothing.
<1>7. ASSUME out' = out, Early(t)' PROVE DefaultStartFirst' /\ \A u \in Threads : Early(u)'
  <2>1. DefaultStartFirst'
    BY <1>7, SameLog DEF DefaultInv, DefaultStartFirst
  <2>2. \A u \in Threads : NumEvents(u)' = NumEvents(u)
    BY <1>7, SameLog
  <2> QED BY <1>6, <1>7, <2>1, <2>2
\* A step that logs the thread's first event when it is fresh, and is not fresh after it.
<1>8. ASSUME NEW e, LogEvent(t, e), e = Start <=> NumEvents(t) = 0, ninst'[t] = ninst[t],
             pc'[t] # "unborn", ~start_thread'[t], InitAlarm \notin todo'[t]
      PROVE  DefaultStartFirst' /\ \A u \in Threads : Early(u)'
  <2>1. DefaultStartFirst'
    BY <1>0, <1>2, <1>8, LogDefault
  <2>2. \A u \in Threads : NumEvents(u)' = IF u = t THEN NumEvents(u) + 1 ELSE NumEvents(u)
    BY <1>0, <1>8, AppendEvent
  <2>3. NumEvents(t) \in Nat
    BY <1>0, LogFinite
  <2>4. Early(t)'
    BY <1>5, <1>8, <2>2, <2>3 DEF Early, Fresh
  <2> QED BY <1>6, <2>1, <2>2, <2>4
<1>9. CASE \/ ThreadStart(t)
           \/ \E b \in Blocks : Exec(t, b)
           \/ CountRead(t) \/ CountWrite(t)
  <2>1. out' = out
    BY <1>0, <1>9, StartStep, ExecStep, ReadStep, WriteStep
  <2> QED BY <1>0, <1>5, <1>7, <1>9, <2>1, FreshSteps
<1>10. CASE FireDisarm(t)
  <2>1. /\ pc[t] = "disarm" /\ pc'[t] = "handlers"
        /\ UNCHANGED <<out, start_thread, todo, ninst>>
    BY <1>0, <1>10, DisarmStep DEF Alone
  <2>2. NumEvents(t)' = NumEvents(t)
    BY <2>1, SameLog
  <2> QED BY <1>5, <1>7, <2>1, <2>2 DEF Early, Fresh
<1>11. CASE FireHandlers(t)
  <2>1. /\ pc[t] = "handlers" /\ pc'[t] = "armnext" /\ cur[t] \in AlarmIds /\ ev[t] = Conf(cur[t]).ev
        /\ IF ev[t] # Precond THEN Handlers(t, ev[t]) ELSE UNCHANGED <<out, doTrace>>
        /\ UNCHANGED <<start_thread, todo, ninst>>
    BY <1>0, <1>11, HandlersStep DEF Alone
  <2>2. ~Fresh(t) /\ NumEvents(t) > 0 /\ ev[t] # Start
    BY <1>5, <2>1 DEF Early, InitAlarmOn, HasStartEvent
  <2>3. CASE ev[t] = Precond
    <3>1. NumEvents(t)' = NumEvents(t) /\ out' = out
      BY <2>1, <2>3, SameLog
    <3> QED BY <1>5, <1>7, <2>1, <2>2, <3>1 DEF Early, Fresh
  <2>4. CASE ev[t] # Precond
    <3>1. NumEvents(t) # 0
      BY <2>2
    <3> QED BY <1>5, <1>8, <2>1, <2>2, <2>4, <3>1 DEF Early, Fresh, Handlers
  <2> QED BY <2>3, <2>4
<1>12. CASE FireArmNext(t)
  <2>1. /\ pc[t] = "armnext" /\ pc'[t] = "run" /\ todo'[t] = todo[t] \ {cur[t]}
        /\ UNCHANGED <<out, start_thread, ninst>>
    BY <1>0, <1>12, ArmNextStep DEF Alone
  <2>2. NumEvents(t)' = NumEvents(t)
    BY <2>1, SameLog
  <2> QED BY <1>5, <1>7, <2>1, <2>2 DEF Early, Fresh
<1>13. CASE InitStart(t)
  <2>1. /\ pc[t] = "run" /\ InitAlarm \in todo[t] /\ pc'[t] = "run" /\ Handlers(t, Start)
        /\ todo'[t] = todo[t] \ {InitAlarm} /\ ~start_thread'[t] /\ ninst' = ninst
    <3>1. /\ pc[t] = "run" /\ InitAlarm \in todo[t] /\ pc'[t] = "run" /\ Handlers(t, Start)
          /\ todo'[t] = todo[t] \ {InitAlarm} /\ ninst' = ninst
          /\ start_thread' = [start_thread EXCEPT ![t] = FALSE]
      BY <1>0, <1>13, InitStartStep DEF Alone, NextCall
    <3>2. ~start_thread'[t]
      BY <1>0, <3>1 DEF TypeOK
    <3> QED BY <3>1, <3>2
  <2>2. NumEvents(t) = 0
    BY <1>5, <2>1 DEF Early
  <2> QED BY <1>8, <2>1, <2>2 DEF Handlers
<1> QED BY <1>9, <1>10, <1>11, <1>12, <1>13

(* With the default start, when no alarm can fire in a thread's first block,  *)
(* each thread raises one start event and before any other event.             *)
THEOREM DefaultStartOnce ==
    ASSUME PerThreadChains, BlocksBounded, SomeInstruction
    PROVE  Spec => []DefaultStartFirst
<1>1. DefaultInv => DefaultStartFirst
  BY DEF DefaultInv
<1>2. Init => DefaultInv
  BY InitDefault
<1>3. DefaultInv /\ [Next]_vars => DefaultInv'
  BY StepDefault
<1> QED BY <1>1, <1>2, <1>3, PTL DEF Spec
-----------------------------------------------------------------------------
(* Broadcast.  A chain of broadcast alarms for all threads that repeats for   *)
(* ever; the other chains are arbitrary.  Either some thread is in the course *)
(* of firing one of its alarms, and will arm the next one for all threads, or *)
(* one of them is armed for all threads.                                      *)
BcastChain(c) ==
    /\ c \in Chains /\ Repeat[c] = Indefinite /\ WaitFor[c] = NoWait
    /\ Conf(<<c, 1>>).tid = AllThreads
    /\ \A a \in AlarmIds : a[1] = c => Conf(a).bcast /\ ~Conf(a).uniform

FiringIn(c) == \E t \in Threads :
                   pc[t] \in {"disarm", "handlers", "armnext"} /\ cur[t][1] = c
AllArmed(c) == \E a \in AlarmIds : a[1] = c /\ \A t \in Threads : armed[a][t]

BcastInv(c) ==
    /\ TypeOK
    /\ \A a \in AlarmIds : a[1] = c => arm_next[a]
    /\ \A t \in Threads : /\ pc[t] = "uniform" => Conf(cur[t]).uniform
                          /\ pc[t] \in {"handlers", "armnext"} /\ cur[t][1] = c => bcast[t]
    /\ FiringIn(c) \/ AllArmed(c)

LEMMA InitBcast == ASSUME NEW c, BcastChain(c), Init PROVE BcastInv(c)
<1> DEFINE a == <<c, 1>>
<1>1. a \in AlarmIds /\ a[1] = c /\ a[2] = 1
  <2>1. 1 \in DOMAIN Alarm[c]
    BY ConfAssumption DEF BcastChain, Chains
  <2> QED BY <2>1, AlarmIdIntro DEF BcastChain
<1>2. \A t \in Threads : armed[a][t]
  BY <1>1 DEF Init, InitChains, Activated, CorrectTid, BcastChain
<1>3. /\ \A b \in AlarmIds : b[1] = c => arm_next[b]
      /\ \A t \in Threads : pc[t] = "unborn"
  BY DEF Init, InitChains, BcastChain
<1> QED BY <1>1, <1>2, <1>3, InitType DEF BcastInv, AllArmed

LEMMA StepBcast == ASSUME NEW c, BcastChain(c), BcastInv(c), [Next]_vars PROVE BcastInv(c)'
<1>0. TypeOK /\ TypeOK'
  BY StepType DEF BcastInv
<1> DEFINE Stage(t) == /\ pc'[t] = "uniform" => Conf(cur'[t]).uniform
                       /\ pc'[t] \in {"handlers", "armnext"} /\ cur'[t][1] = c => bcast'[t]
\* A step of thread t that leaves the firing of the other threads alone.
<1>1. ASSUME NEW t \in Threads, Stage(t), FiringIn(c)' \/ AllArmed(c)',
             \A a \in AlarmIds : a[1] = c => arm_next'[a],
             \A u \in Threads : u # t => pc'[u] = pc[u] /\ cur'[u] = cur[u] /\ bcast'[u] = bcast[u]
      PROVE  BcastInv(c)'
  BY <1>0, <1>1 DEF BcastInv
\* A step that starts or ends no firing.
<1>2. ASSUME NEW t \in Threads, UNCHANGED <<armed, arm_next, bcast>>,
             pc[t] \notin {"disarm", "uniform", "handlers", "armnext"},
             pc'[t] \notin {"uniform", "handlers", "armnext"},
             \A u \in Threads : u # t => pc'[u] = pc[u] /\ cur'[u] = cur[u]
      PROVE  BcastInv(c)'
  <2>1. FiringIn(c) => FiringIn(c)'
    BY <1>2 DEF FiringIn
  <2>2. AllArmed(c) => AllArmed(c)'
    BY <1>2 DEF AllArmed
  <2> QED BY <1>1, <1>2, <2>1, <2>2 DEF BcastInv
<1>3. CASE UNCHANGED vars
  BY <1>0, <1>3 DEF BcastInv, FiringIn, AllArmed, vars, alarmVars, managerVars, localVars
<1> SUFFICES ASSUME NEW t \in Threads,
                    \/ ThreadStart(t)
                    \/ \E b \in Blocks : Exec(t, b)
                    \/ Analysis(t)
             PROVE  BcastInv(c)'
  BY <1>3 DEF Next
<1>4. CASE ThreadStart(t)
  BY <1>0, <1>2, <1>4 DEF ThreadStart, BeginThread, At, Goto, TypeOK, alarmVars, managerVars,
                         localVars
<1>5. CASE \E b \in Blocks : Exec(t, b)
  BY <1>0, <1>2, <1>5 DEF Exec, ReachBlock, At, alarmVars, managerVars, localVars
<1>6. CASE CountRead(t)
  <2>1. PICK a \in AlarmIds : cur' = [cur EXCEPT ![t] = a]
    BY <1>6 DEF CountRead
  <2> QED BY <1>0, <1>2, <1>6, <2>1 DEF CountRead, At, Goto, TypeOK, alarmVars, managerVars
<1>7. CASE CountWrite(t)
  <2>1. /\ pc[t] = "count" /\ UNCHANGED <<armed, arm_next, bcast, cur>>
        /\ pc' = [pc EXCEPT ![t] = "disarm"] \/ pc' = [pc EXCEPT ![t] = "run"]
    BY <1>7 DEF CountWrite, At, Goto, Return, managerVars, localVars
  <2> QED BY <1>0, <1>2, <2>1 DEF TypeOK
<1>8. CASE InitStart(t)
  BY <1>0, <1>2, <1>8 DEF InitStart, At, Goto, Return, TypeOK, alarmVars, managerVars, localVars
<1>9. CASE FireDisarm(t)
  <2> DEFINE a == cur[t]
  <2>1. /\ pc[t] = "disarm" /\ a \in AlarmIds
        /\ DisarmFor(a, IF Conf(a).bcast THEN Threads ELSE {t})
        /\ bcast' = [bcast EXCEPT ![t] = Conf(a).bcast]
        /\ pc' = [pc EXCEPT ![t] = IF UniformActive(a) THEN "uniform" ELSE "handlers"]
        /\ UNCHANGED <<arm_next, cur>>
    BY <1>0, <1>9 DEF FireDisarm, At, Goto, managerVars, TypeOK
  <2>2. Stage(t)
    BY <1>0, <2>1 DEF BcastChain, UniformActive, TypeOK
  <2>3. CASE a[1] = c
    <3>1. pc'[t] = "handlers"
      BY <1>0, <2>1, <2>3 DEF BcastChain, UniformActive, TypeOK
    <3>2. FiringIn(c)'
      BY <2>1, <2>3, <3>1 DEF FiringIn
    <3> QED BY <1>0, <1>1, <2>1, <2>2, <3>2 DEF BcastInv, TypeOK
  <2>4. CASE a[1] # c
    <3>1. FiringIn(c) => FiringIn(c)'
      BY <1>0, <2>1, <2>4 DEF FiringIn, TypeOK
    <3>2. \A b \in AlarmIds : b # a => armed'[b] = armed[b]
      BY <1>0, <2>1 DEF DisarmFor, TypeOK
    <3>3. AllArmed(c) => AllArmed(c)'
      BY <2>4, <3>2 DEF AllArmed
    <3> QED BY <1>0, <1>1, <2>1, <2>2, <3>1, <3>3 DEF BcastInv, TypeOK
  <2> QED BY <2>3, <2>4
<1>10. CASE FireUniform(t)
  <2> DEFINE a == cur[t]
  <2>1. pc[t] = "uniform" /\ a \in AlarmIds /\ a[1] # c
    BY <1>0, <1>10 DEF FireUniform, At, BcastInv, BcastChain, TypeOK
  <2>2. /\ bcast' = [bcast EXCEPT ![t] = TRUE] /\ pc' = [pc EXCEPT ![t] = "handlers"] /\ cur' = cur
        /\ arm_next' = arm_next \/ arm_next' = [arm_next EXCEPT ![a] = TRUE]
        /\ \A b \in AlarmIds : b # a => armed'[b] = armed[b]
    BY <1>0, <1>10 DEF FireUniform, Goto, TypeOK
  <2>3. FiringIn(c) => FiringIn(c)'
    BY <1>0, <2>1, <2>2 DEF FiringIn, TypeOK
  <2>4. AllArmed(c) => AllArmed(c)'
    BY <2>1, <2>2 DEF AllArmed
  <2> QED BY <1>0, <1>1, <2>1, <2>2, <2>3, <2>4, ZenonT(30) DEF BcastInv, TypeOK
<1>11. CASE FireHandlers(t)
  <2>1. /\ pc[t] = "handlers" /\ pc' = [pc EXCEPT ![t] = "armnext"]
        /\ UNCHANGED <<armed, arm_next, cur, bcast>>
    BY <1>11 DEF FireHandlers, At, Goto, alarmVars, managerVars, localVars
  <2>2. FiringIn(c) => FiringIn(c)'
    BY <1>0, <2>1 DEF FiringIn, TypeOK
  <2>3. AllArmed(c) => AllArmed(c)'
    BY <2>1 DEF AllArmed
  <2> QED BY <1>0, <1>1, <2>1, <2>2, <2>3 DEF BcastInv, TypeOK
<1>12. CASE FireArmNext(t)
  <2> DEFINE a == cur[t]
             n == Repetitions(a, t)
  <2>1. /\ pc[t] = "armnext" /\ pc' = [pc EXCEPT ![t] = "run"] /\ a \in AlarmIds
        /\ UNCHANGED <<arm_next, cur, bcast>>
    BY <1>0, <1>12 DEF FireArmNext, At, Goto, Return, TypeOK, localVars
  <2>2. /\ arm_next[a] => armed' = [b \in AlarmIds |-> [u \in Threads |->
                                       armed[b][u] \/ <<b, u>> \in NextArmed(a, t, n)]]
        /\ ~arm_next[a] => armed' = armed
    BY <1>12 DEF FireArmNext
  <2> HIDE DEF n
  <2>3. CASE a[1] = c
    <3>1. arm_next[a] /\ bcast[t]
      BY <2>1, <2>3 DEF BcastInv
    <3>2. \E b \in AlarmIds : b[1] = c /\ \A u \in Threads : <<b, u>> \in NextArmed(a, t, n)
      <4>1. CASE ~LastAlarm(a)
        <5>1. <<a[1], a[2] + 1>> \in AlarmIds
          BY <2>1, <4>1, NextAlarm
        <5>2. \A u \in Threads : <<<<a[1], a[2] + 1>>, u>> \in NextArmed(a, t, n)
          BY <3>1, <4>1 DEF NextArmed, Audience
        <5> QED BY <2>3, <5>1, <5>2
      <4>2. CASE LastAlarm(a)
        <5>1. <<a[1], 1>> \in AlarmIds
          BY <2>1, AlarmId, AlarmIdIntro, ConfAssumption DEF Chains
        <5>2. \A u \in Threads : <<<<a[1], 1>>, u>> \in NextArmed(a, t, n)
          BY <2>3, <3>1, <4>2 DEF NextArmed, Audience, NeedToRepeat, BcastChain
        <5> QED BY <2>3, <5>1, <5>2
      <4> QED BY <4>1, <4>2
    <3>3. AllArmed(c)'
      <4>1. PICK b \in AlarmIds : b[1] = c /\ \A u \in Threads : <<b, u>> \in NextArmed(a, t, n)
        BY <3>2
      <4>2. \A u \in Threads : armed'[b][u]
        BY <2>2, <3>1, <4>1
      <4> QED BY <4>1, <4>2 DEF AllArmed
    <3> QED BY <1>0, <1>1, <2>1, <3>3 DEF BcastInv, TypeOK
  <2>4. CASE a[1] # c
    <3>1. FiringIn(c) => FiringIn(c)'
      BY <1>0, <2>1, <2>4 DEF FiringIn, TypeOK
    <3>2. \A b \in AlarmIds, u \in Threads : armed[b][u] => armed'[b][u]
      BY <2>2
    <3>3. AllArmed(c) => AllArmed(c)'
      BY <3>2 DEF AllArmed
    <3> QED BY <1>0, <1>1, <2>1, <3>1, <3>3 DEF BcastInv, TypeOK
  <2> QED BY <2>3, <2>4
<1> QED BY <1>4, <1>5, <1>6, <1>7, <1>8, <1>9, <1>10, <1>11, <1>12 DEF Analysis

(* A chain of broadcast alarms that repeats for ever is never lost, however   *)
(* its firings in several threads interleave and whatever other chains do.    *)
THEOREM BcastNeverLost ==
    ASSUME NEW c, BcastChain(c) PROVE Spec => []BcastKeepsAllArmed
<1>1. BcastInv(c) => BcastKeepsAllArmed
  BY DEF BcastInv, FiringIn, AllArmed, BcastKeepsAllArmed
<1>2. Init => BcastInv(c)
  BY InitBcast
<1>3. BcastInv(c) /\ [Next]_vars => BcastInv(c)'
  BY StepBcast
<1> QED BY <1>1, <1>2, <1>3, PTL DEF Spec
-----------------------------------------------------------------------------
(* Uniform alarms.  A uniform alarm alone in its chain and restricted to one  *)
(* thread, its owner; the other chains are arbitrary.  Only the owner fires   *)
(* it.  Expected is the number of events it has raised when the owner is not  *)
(* between choosing the next event and raising the last one.                  *)
UniformChain(a) ==
    /\ Len(Alarm[a[1]]) = 1 /\ WaitFor[a[1]] = NoWait /\ Repeat[a[1]] \in {0, 1}
    /\ Conf(a).tid \in Threads /\ Conf(a).ev = Start
    /\ Conf(a).count > 0 /\ Conf(a).length > 0 /\ Conf(a).period > Conf(a).length
    /\ 0 < Conf(a).cycles /\ Conf(a).cycles < WordMod

Owner(a) == Conf(a).tid
Busy(a, s) == pc[Owner(a)] = s /\ cur[Owner(a)] = a
Expected(a) == IF arm_next[a] THEN 2 * Conf(a).cycles
               ELSE 2 * (Conf(a).cycles - uniform_count[a]) + IF event_type[a] = Stop THEN 1 ELSE 0

UniformCounting(a) ==
    /\ target_count[a] > 0
    /\ \A t \in Threads : t # Owner(a) =>
           /\ thread_count[a][t] = 0
           /\ cur[t] = a => /\ pc[t] \in {"unborn", "run", "count"}
                            /\ pc[t] = "count" => sum[t] = 0
    /\ thread_count[a][Owner(a)] > 0 \/ (Busy(a, "count") /\ sum[Owner(a)] > 0) \/ Busy(a, "disarm") =>
           armed[a][Owner(a)]

UniformPhase(a) ==
    /\ IF arm_next[a]
       THEN /\ uniform_count[a] = 0 /\ ~armed[a][Owner(a)] /\ ~Busy(a, "uniform")
            /\ Busy(a, "handlers") => ev[Owner(a)] = Stop
            /\ Busy(a, "handlers") \/ Busy(a, "armnext") => repeat[a[1]][Owner(a)] = 0
       ELSE /\ uniform_count[a] \in 1 .. Conf(a).cycles /\ event_type[a] \in {Start, Stop}
            /\ repeat[a[1]][Owner(a)] = 0
            /\ Busy(a, "uniform") => ev[Owner(a)] = event_type[a]
            /\ Busy(a, "handlers") => ev[Owner(a)] = IF event_type[a] = Stop THEN Start ELSE Stop
    /\ Len(raised[a]) + (IF Busy(a, "handlers") THEN 1 ELSE 0) = Expected(a)
    /\ \A k \in DOMAIN raised[a] : raised[a][k] = (IF k % 2 = 1 THEN Start ELSE Stop)

UniformInv(a) == TypeOK /\ UniformCounting(a) /\ UniformPhase(a)

LEMMA UniformConf ==
    ASSUME NEW a \in AlarmIds, UniformChain(a)
    PROVE  /\ a[1] \in Chains /\ a = <<a[1], 1>> /\ Owner(a) \in Threads
           /\ \A b \in AlarmIds : b[1] = a[1] => b = a
           /\ Conf(a).cycles \in 1 .. WordMod - 1 /\ WordMod \in Nat /\ WordMod > 1
           /\ Conf(a).length \in Nat \ {0} /\ Conf(a).period - Conf(a).length \in Nat \ {0}
           /\ Repeat[a[1]] # Indefinite /\ WaitFor[a[1]] \notin Chains
<1>1. /\ a[1] \in Chains /\ a = <<a[1], 1>>
      /\ \A b \in AlarmIds : b[1] = a[1] => b = a
  BY AlarmId DEF UniformChain
<1>2. Conf(a).cycles \in 1 .. WordMod - 1 /\ WordMod \in Nat /\ WordMod > 1
  BY ConfType, BoundAssumption DEF UniformChain
<1>3. Conf(a).length \in Nat \ {0} /\ Conf(a).period - Conf(a).length \in Nat \ {0}
  BY ConfType DEF UniformChain
<1> QED BY <1>1, <1>2, <1>3, ChainAssumption DEF UniformChain, Owner

LEMMA InitUniform == ASSUME NEW a \in AlarmIds, Conf(a).uniform, UniformChain(a), Init
                     PROVE  UniformInv(a)
<1>1. /\ target_count[a] = Conf(a).count /\ event_type[a] = Start
      /\ uniform_count[a] = Conf(a).cycles /\ arm_next[a] = FALSE /\ raised[a] = << >>
  BY DEF Init, InitChains, UniformChain
<1>2. /\ repeat[a[1]][Owner(a)] = 0
      /\ \A t \in Threads : thread_count[a][t] = 0 /\ pc[t] = "unborn"
  BY UniformConf DEF Init, InitChains
<1>3. UniformCounting(a)
  BY <1>1, <1>2, UniformConf DEF UniformCounting, Busy, UniformChain
<1>4. Conf(a).cycles \in Nat /\ Conf(a).cycles \in 1 .. Conf(a).cycles
  BY UniformConf
<1>5. Len(raised[a]) = 0 /\ DOMAIN raised[a] = {} /\ Expected(a) = 0
  BY <1>1, <1>4 DEF Expected, Start, Stop
<1>6. UniformPhase(a)
  BY <1>1, <1>2, <1>4, <1>5, UniformConf DEF UniformPhase, Busy
<1> QED BY <1>3, <1>6, InitType DEF UniformInv

(* Another chain never arms the alarm, and its own chain not after its last   *)
(* cycle.                                                                     *)
LEMMA NeverRearmed ==
    ASSUME NEW a \in AlarmIds, UniformChain(a), NEW b \in AlarmIds, NEW t \in Threads, NEW n,
           b = a => n = 1
    PROVE  \A u : <<a, u>> \notin NextArmed(b, t, n)
<1>1. WaitFor[a[1]] # b[1]
  <2>1. b[1] \in Chains
    BY AlarmId
  <2>2. WaitFor[a[1]] \notin Chains
    BY UniformConf
  <2> QED BY <2>1, <2>2
<1>2. CASE ~LastAlarm(b)
  <2>1. b[1] # a[1]
    <3>1. b[1] = a[1] => b = a /\ a[2] = 1
      BY UniformConf
    <3>2. Len(Alarm[a[1]]) = 1
      BY DEF UniformChain
    <3> QED BY <1>2, <3>1, <3>2 DEF LastAlarm
  <2>2. NextArmed(b, t, n) = {<<b[1], b[2] + 1>>} \X Audience(t)
    BY <1>2 DEF NextArmed
  <2>3. <<b[1], b[2] + 1>> # a
    BY <2>1
  <2> QED BY <2>2, <2>3
<1>3. CASE LastAlarm(b) /\ NeedToRepeat(b[1], n)
  <2>1. b[1] # a[1]
    BY <1>3, UniformConf DEF NeedToRepeat, UniformChain
  <2>2. NextArmed(b, t, n) = {<<b[1], 1>>} \X Audience(t)
    BY <1>3 DEF NextArmed
  <2>3. <<b[1], 1>> # a
    BY <2>1
  <2> QED BY <2>2, <2>3
<1>4. CASE LastAlarm(b) /\ ~NeedToRepeat(b[1], n)
  <2>1. NextArmed(b, t, n) = {<<c, 1>> : c \in {c \in Chains : WaitFor[c] = b[1]}} \X {t}
    BY <1>4 DEF NextArmed
  <2>2. \A c \in {c \in Chains : WaitFor[c] = b[1]} : <<c, 1>> # a
    BY <1>1
  <2> QED BY <2>1, <2>2
<1> QED BY <1>2, <1>3, <1>4

(* A step that changes nothing of the alarm and in which no thread enters or  *)
(* leaves a stage of its firing.                                              *)
LEMMA FrameUniform ==
    ASSUME NEW a \in AlarmIds, UniformChain(a), UniformInv(a), TypeOK',
           armed'[a][Owner(a)] <=> armed[a][Owner(a)],
           thread_count'[a] = thread_count[a], target_count'[a] = target_count[a],
           event_type'[a] = event_type[a], uniform_count'[a] = uniform_count[a],
           arm_next'[a] = arm_next[a], raised'[a] = raised[a],
           repeat'[a[1]][Owner(a)] = repeat[a[1]][Owner(a)],
           \A u \in Threads :
               \/ pc'[u] = pc[u] /\ cur'[u] = cur[u] /\ sum'[u] = sum[u] /\ ev'[u] = ev[u]
               \/ (cur[u] # a \/ pc[u] \in {"unborn", "run"}) /\ cur'[u] # a
               \/ pc[u] \in {"unborn", "run"} /\ pc'[u] \in {"unborn", "run"}
    PROVE  UniformInv(a)'
<1> DEFINE o == Owner(a)
<1>1. o \in Threads
  BY UniformConf
<1>2. /\ Busy(a, "count")' => Busy(a, "count") /\ sum'[o] = sum[o]
      /\ Busy(a, "disarm")' => Busy(a, "disarm")
      /\ Busy(a, "uniform")' => Busy(a, "uniform") /\ ev'[o] = ev[o]
      /\ Busy(a, "handlers")' => ev'[o] = ev[o]
      /\ Busy(a, "handlers")' <=> Busy(a, "handlers")
      /\ Busy(a, "armnext")' => Busy(a, "armnext")
  BY <1>1 DEF Busy, Owner
<1>3. UniformCounting(a)'
  BY <1>1, <1>2 DEF UniformInv, UniformCounting, Owner
<1>4. Expected(a)' = Expected(a)
  BY DEF Expected
<1>5. UniformPhase(a)'
  BY <1>2, <1>4, ZenonT(30) DEF UniformInv, UniformPhase, Owner
<1> QED BY <1>3, <1>5 DEF UniformInv
LEMMA UniformCountRead ==
    ASSUME NEW a \in AlarmIds, UniformChain(a), UniformInv(a), TypeOK', NEW t \in Threads,
           CountRead(t)
    PROVE  UniformInv(a)'
<1>1. PICK b \in AlarmIds :
          /\ NextCall(t, b)
          /\ cur' = [cur EXCEPT ![t] = b]
          /\ sum' = [sum EXCEPT ![t] = thread_count[b][t] +
                        IF ShouldCount(b, t) THEN Weight(b, ninst[t]) ELSE 0]
  BY DEF CountRead
<1>2. /\ pc[t] = "run" /\ pc' = [pc EXCEPT ![t] = "count"]
      /\ UNCHANGED <<armed, thread_count, target_count, event_type, uniform_count, arm_next,
                     repeat, raised, ev>>
  BY DEF CountRead, At, Goto, alarmVars, managerVars, logVars
<1>3. TypeOK
  BY DEF UniformInv
<1>4. CASE b # a
  <2>1. \A u \in Threads :
            \/ pc'[u] = pc[u] /\ cur'[u] = cur[u] /\ sum'[u] = sum[u] /\ ev'[u] = ev[u]
            \/ pc[u] = "run" /\ cur'[u] # a
    BY <1>1, <1>2, <1>3, <1>4 DEF TypeOK
  <2> QED BY <1>2, <2>1, FrameUniform
<1>5. CASE b = a
  <2> DEFINE o == Owner(a)
  <2>1. /\ cur'[t] = a /\ pc'[t] = "count"
        /\ sum'[t] = thread_count[a][t] + IF ShouldCount(a, t) THEN Weight(a, ninst[t]) ELSE 0
    BY <1>1, <1>2, <1>3, <1>5 DEF TypeOK
  <2>2. \A u \in Threads : u # t => cur'[u] = cur[u] /\ pc'[u] = pc[u] /\ sum'[u] = sum[u]
    BY <1>1, <1>2, <1>3 DEF TypeOK
  <2>3. o \in Threads /\ thread_count[a][t] \in Nat /\ thread_count[a][o] \in Nat
    BY UniformConf, <1>3 DEF TypeOK
  <2>4. t # o => sum'[t] = 0
    <3>1. t # o => ~CorrectTid(a, t)
      BY <2>3, ChainAssumption DEF CorrectTid, Owner
    <3> QED BY <2>1, <3>1 DEF ShouldCount, UniformInv, UniformCounting
  <2>5. t = o /\ sum'[t] > 0 => armed[a][o]
    BY <2>1, <2>3 DEF ShouldCount, UniformInv, UniformCounting
  <2>6. UniformCounting(a)'
    <3>1. (target_count[a] > 0)'
      BY <1>2 DEF UniformInv, UniformCounting
    <3>2. ASSUME NEW u \in Threads, u # o
          PROVE  /\ thread_count'[a][u] = 0
                 /\ cur'[u] = a => /\ pc'[u] \in {"unborn", "run", "count"}
                                   /\ pc'[u] = "count" => sum'[u] = 0
      BY <1>2, <2>1, <2>2, <2>4, <3>2 DEF UniformInv, UniformCounting
    <3>3. Busy(a, "disarm")' => Busy(a, "disarm")
      BY <1>2, <2>1, <2>2, <2>3 DEF Busy, Owner
    <3>4. Busy(a, "count")' /\ sum'[o] > 0 => armed[a][o]
      BY <2>2, <2>3, <2>5 DEF Busy, Owner, UniformInv, UniformCounting
    <3> QED BY <1>2, <3>1, <3>2, <3>3, <3>4 DEF UniformInv, UniformCounting, Owner
  <2>7. /\ Busy(a, "uniform")' <=> Busy(a, "uniform")
        /\ Busy(a, "handlers")' <=> Busy(a, "handlers")
        /\ Busy(a, "armnext")' <=> Busy(a, "armnext")
    BY <1>2, <2>1, <2>2, <2>3 DEF Busy, Owner
  <2>8. UniformPhase(a)'
    BY <1>2, <2>7 DEF UniformInv, UniformPhase, Expected, Owner
  <2> QED BY <2>6, <2>8 DEF UniformInv
<1> QED BY <1>4, <1>5

LEMMA UniformCountWrite ==
    ASSUME NEW a \in AlarmIds, UniformChain(a), UniformInv(a), TypeOK', NEW t \in Threads,
           CountWrite(t)
    PROVE  UniformInv(a)'
<1>1. /\ pc[t] = "count" /\ cur[t] \in AlarmIds
      /\ thread_count' = [thread_count EXCEPT ![cur[t]][t] = sum[t]]
      /\ pc' = [pc EXCEPT ![t] = IF sum[t] >= target_count[cur[t]] THEN "disarm" ELSE "run"]
      /\ UNCHANGED <<armed, target_count, event_type, uniform_count, arm_next,
                     repeat, raised, cur, sum, ev>>
  BY DEF CountWrite, At, Goto, Return, managerVars, logVars, localVars, UniformInv, TypeOK
<1>2. TypeOK
  BY DEF UniformInv
<1>3. CASE cur[t] # a
  <2>1. thread_count'[a] = thread_count[a]
    BY <1>1, <1>2, <1>3 DEF TypeOK
  <2>2. \A u \in Threads :
            \/ pc'[u] = pc[u] /\ cur'[u] = cur[u] /\ sum'[u] = sum[u] /\ ev'[u] = ev[u]
            \/ cur[u] # a /\ cur'[u] # a
    BY <1>1, <1>2, <1>3 DEF TypeOK
  <2> QED BY <1>1, <2>1, <2>2, FrameUniform
<1>4. CASE cur[t] = a
  <2> DEFINE o == Owner(a)
  <2>1. o \in Threads /\ target_count[a] \in Nat /\ sum[t] \in Nat
    BY UniformConf, <1>2 DEF TypeOK
  <2>2. /\ pc'[t] = (IF sum[t] >= target_count[a] THEN "disarm" ELSE "run")
        /\ \A u \in Threads : u # t => pc'[u] = pc[u]
    BY <1>1, <1>2, <1>4 DEF TypeOK
  <2>3. thread_count'[a][t] = sum[t]
    BY <1>1, <1>2, <1>4 DEF TypeOK
  <2>4. \A u \in Threads : u # t => thread_count'[a][u] = thread_count[a][u]
    BY <1>1, <1>2, <1>4 DEF TypeOK
  <2>5. target_count[a] > 0
    BY DEF UniformInv, UniformCounting
  <2>6. t # o => sum[t] = 0 /\ pc'[t] = "run"
    BY <1>1, <1>4, <2>1, <2>2, <2>5 DEF UniformInv, UniformCounting
  <2>7. t = o /\ sum[t] > 0 => armed[a][o]
    BY <1>1, <1>4 DEF UniformInv, UniformCounting, Busy
  <2>8. UniformCounting(a)'
    <3>1. ASSUME NEW u \in Threads, u # o
          PROVE  /\ thread_count'[a][u] = 0
                 /\ cur'[u] = a => /\ pc'[u] \in {"unborn", "run", "count"}
                                   /\ pc'[u] = "count" => sum'[u] = 0
      BY <1>1, <2>2, <2>3, <2>4, <2>6, <3>1 DEF UniformInv, UniformCounting
    <3>2. thread_count'[a][o] > 0 => armed[a][o]
      BY <2>1, <2>3, <2>4, <2>7 DEF UniformInv, UniformCounting
    <3>3. Busy(a, "count")' => Busy(a, "count")
      BY <1>1, <2>1, <2>2, <2>6 DEF Busy, Owner
    <3>4. Busy(a, "disarm")' => armed[a][o]
      <4>1. CASE t = o
        BY <2>1, <2>2, <2>5, <2>7, <4>1 DEF Busy, Owner
      <4>2. CASE t # o
        BY <1>1, <2>1, <2>2, <4>2 DEF Busy, Owner, UniformInv, UniformCounting
      <4> QED BY <4>1, <4>2
    <3> QED BY <1>1, <3>1, <3>2, <3>3, <3>4 DEF UniformInv, UniformCounting, Owner
  <2>9. /\ Busy(a, "uniform")' <=> Busy(a, "uniform")
        /\ Busy(a, "handlers")' <=> Busy(a, "handlers")
        /\ Busy(a, "armnext")' <=> Busy(a, "armnext")
    BY <1>1, <2>1, <2>2, <2>6 DEF Busy, Owner
  <2>10. UniformPhase(a)'
    BY <1>1, <2>9 DEF UniformInv, UniformPhase, Expected, Owner
  <2> QED BY <2>8, <2>10 DEF UniformInv
<1> QED BY <1>3, <1>4
LEMMA UniformFireDisarm ==
    ASSUME NEW a \in AlarmIds, UniformChain(a), Conf(a).uniform, UniformInv(a), TypeOK',
           NEW t \in Threads, FireDisarm(t)
    PROVE  UniformInv(a)'
<1>1. /\ pc[t] = "disarm" /\ cur[t] \in AlarmIds
      /\ DisarmFor(cur[t], IF Conf(cur[t]).bcast THEN Threads ELSE {t})
      /\ ev' = [ev EXCEPT ![t] = event_type[cur[t]]]
      /\ pc' = [pc EXCEPT ![t] = IF UniformActive(cur[t]) THEN "uniform" ELSE "handlers"]
      /\ UNCHANGED <<target_count, event_type, uniform_count, arm_next, repeat, raised, cur, sum>>
  BY DEF FireDisarm, At, Goto, managerVars, logVars, UniformInv, TypeOK
<1>2. TypeOK
  BY DEF UniformInv
<1>3. CASE cur[t] # a
  <2>1. thread_count'[a] = thread_count[a] /\ armed'[a] = armed[a]
    BY <1>1, <1>2, <1>3 DEF TypeOK, DisarmFor
  <2>2. \A u \in Threads :
            \/ pc'[u] = pc[u] /\ cur'[u] = cur[u] /\ sum'[u] = sum[u] /\ ev'[u] = ev[u]
            \/ cur[u] # a /\ cur'[u] # a
    BY <1>1, <1>2, <1>3 DEF TypeOK
  <2> QED BY <1>1, <2>1, <2>2, FrameUniform
<1>4. CASE cur[t] = a
  <2> DEFINE o == Owner(a)
  <2>1. o \in Threads /\ t = o
    BY UniformConf, <1>1, <1>4 DEF UniformInv, UniformCounting
  <2>2. ~arm_next[a]
    <3>1. armed[a][o]
      BY <1>1, <1>4, <2>1 DEF UniformInv, UniformCounting, Busy
    <3> QED BY <3>1 DEF UniformInv, UniformPhase
  <2>3. /\ uniform_count[a] \in 1 .. Conf(a).cycles /\ event_type[a] \in {Start, Stop}
        /\ repeat[a[1]][o] = 0
    BY <2>2 DEF UniformInv, UniformPhase
  <2>4. pc'[t] = "uniform"
    BY <1>1, <1>2, <1>4, <2>3 DEF UniformActive, TypeOK
  <2>5. \A u \in Threads : u # t => pc'[u] = pc[u] /\ ev'[u] = ev[u]
    BY <1>1, <1>2
  <2>6. ev'[t] = event_type[a]
    BY <1>1, <1>2, <1>4 DEF TypeOK
  <2>7. \A u \in Threads :
            thread_count'[a][u] = thread_count[a][u] \/ thread_count'[a][u] = 0
    BY <1>1, <1>2, <1>4 DEF TypeOK, DisarmFor
  <2>8. thread_count'[a][t] = 0
    BY <1>1, <1>2, <1>4 DEF TypeOK, DisarmFor
  <2>9. UniformCounting(a)'
    <3>1. ASSUME NEW u \in Threads, u # o
          PROVE  /\ thread_count'[a][u] = 0
                 /\ cur'[u] = a => /\ pc'[u] \in {"unborn", "run", "count"}
                                   /\ pc'[u] = "count" => sum'[u] = 0
      BY <1>1, <2>1, <2>5, <2>7, <3>1 DEF UniformInv, UniformCounting
    <3>2. ~(thread_count'[a][o] > 0) /\ ~Busy(a, "count")' /\ ~Busy(a, "disarm")'
      BY <2>1, <2>4, <2>8 DEF Busy, Owner
    <3> QED BY <1>1, <3>1, <3>2 DEF UniformInv, UniformCounting, Owner
  <2>10. /\ ~Busy(a, "handlers")' /\ ~Busy(a, "handlers") /\ ~Busy(a, "armnext")'
         /\ ev'[o] = event_type[a]
    BY <1>1, <2>1, <2>4, <2>6 DEF Busy, Owner
  <2>11. UniformPhase(a)'
    BY <1>1, <2>2, <2>3, <2>10 DEF UniformInv, UniformPhase, Expected, Owner
  <2> QED BY <2>9, <2>11 DEF UniformInv
<1> QED BY <1>3, <1>4

(* Choosing the next event: after a start the stop, after a stop the next     *)
(* start, and after the stop of the last cycle nothing more.                  *)
LEMMA UniformFireUniform ==
    ASSUME NEW a \in AlarmIds, UniformChain(a), UniformInv(a), TypeOK',
           NEW t \in Threads, FireUniform(t)
    PROVE  UniformInv(a)'
<1>1. /\ pc[t] = "uniform" /\ cur[t] \in AlarmIds
      /\ thread_count' = [thread_count EXCEPT ![cur[t]] = [u \in Threads |-> 0]]
      /\ pc' = [pc EXCEPT ![t] = "handlers"]
      /\ UNCHANGED <<repeat, raised, cur, sum, ev>>
  BY DEF FireUniform, At, Goto, logVars, UniformInv, TypeOK
<1>2. TypeOK
  BY DEF UniformInv
<1>3. CASE cur[t] # a
  <2>1. /\ thread_count'[a] = thread_count[a]
        /\ armed'[a] = armed[a] /\ target_count'[a] = target_count[a]
        /\ event_type'[a] = event_type[a] /\ uniform_count'[a] = uniform_count[a]
        /\ arm_next'[a] = arm_next[a]
    BY <1>2, <1>3 DEF TypeOK, FireUniform
  <2>2. \A u \in Threads :
            \/ pc'[u] = pc[u] /\ cur'[u] = cur[u] /\ sum'[u] = sum[u] /\ ev'[u] = ev[u]
            \/ cur[u] # a /\ cur'[u] # a
    BY <1>1, <1>2, <1>3 DEF TypeOK
  <2> QED BY <1>1, <2>1, <2>2, FrameUniform
<1>4. CASE cur[t] = a
  <2> DEFINE o == Owner(a)
             e == event_type[a]
             uc == uniform_count[a]
  <2>1. o \in Threads /\ t = o
    BY UniformConf, <1>1, <1>4 DEF UniformInv, UniformCounting
  <2>2. ~arm_next[a] /\ ev[o] = e
    <3>1. Busy(a, "uniform")
      BY <1>1, <1>4, <2>1 DEF Busy, Owner
    <3> QED BY <3>1 DEF UniformInv, UniformPhase
  <2>3. uc \in 1 .. Conf(a).cycles /\ e \in {Start, Stop} /\ repeat[a[1]][o] = 0
    BY <2>2 DEF UniformInv, UniformPhase
  <2>4. UniformLeft(a) = uc - 1
    BY <2>3, UniformConf DEF UniformLeft
  <2>5. Len(raised[a]) = Expected(a)
    <3>1. ~Busy(a, "handlers") /\ Len(raised[a]) \in Nat
      BY <1>1, <1>2, <2>1, SMTT(30) DEF Busy, Owner, TypeOK
    <3> QED BY <3>1 DEF UniformInv, UniformPhase
  <2>6. pc'[t] = "handlers" /\ \A u \in Threads : u # t => pc'[u] = pc[u]
    BY <1>1, <1>2 DEF TypeOK
  <2>7. \A u \in Threads : thread_count'[a][u] = 0
    BY <1>1, <1>2, <1>4 DEF TypeOK
  <2>8. \/ /\ e = Start
           /\ event_type'[a] = Stop /\ target_count'[a] = Conf(a).length
           /\ uniform_count'[a] = uc /\ arm_next'[a] = arm_next[a]
        \/ /\ e = Stop /\ uc = 1
           /\ event_type'[a] = e /\ target_count'[a] = target_count[a]
           /\ uniform_count'[a] = 0 /\ arm_next'[a] = TRUE
           /\ armed'[a] = [u \in Threads |-> FALSE]
        \/ /\ e = Stop /\ uc > 1
           /\ event_type'[a] = Start /\ target_count'[a] = Conf(a).period - Conf(a).length
           /\ uniform_count'[a] = uc - 1 /\ arm_next'[a] = arm_next[a]
    <3>1. CASE e = Start
      <4>1. /\ event_type' = [event_type EXCEPT ![a] = Stop]
            /\ target_count' = [target_count EXCEPT ![a] = Conf(a).length]
            /\ UNCHANGED <<uniform_count, arm_next>>
        BY <1>4, <3>1 DEF FireUniform, Start, Stop
      <4> QED BY <3>1, <4>1, <1>2 DEF TypeOK
    <3>2. CASE e = Stop /\ uc = 1
      <4>1. /\ uniform_count' = [uniform_count EXCEPT ![a] = 0]
            /\ arm_next' = [arm_next EXCEPT ![a] = TRUE]
            /\ armed' = [armed EXCEPT ![a] = [u \in Threads |-> FALSE]]
            /\ UNCHANGED <<event_type, target_count>>
        BY <1>4, <2>4, <3>2 DEF FireUniform, Start, Stop
      <4> QED BY <3>2, <4>1, <1>2 DEF TypeOK
    <3>3. CASE e = Stop /\ uc # 1
      <4>1. uc - 1 # 0 /\ uc > 1
        BY <2>3, <3>3
      <4>2. /\ uniform_count' = [uniform_count EXCEPT ![a] = uc - 1]
            /\ event_type' = [event_type EXCEPT ![a] = Start]
            /\ target_count' = [target_count EXCEPT ![a] = Conf(a).period - Conf(a).length]
            /\ UNCHANGED arm_next
        BY <1>4, <2>4, <3>3, <4>1 DEF FireUniform, Start, Stop
      <4> QED BY <3>3, <4>1, <4>2, <1>2 DEF TypeOK
    <3> QED BY <2>3, <3>1, <3>2, <3>3
  <2>9. target_count'[a] > 0
    BY <2>8, UniformConf DEF UniformInv, UniformCounting
  <2>10. UniformCounting(a)'
    <3>1. ASSUME NEW u \in Threads, u # o
          PROVE  cur'[u] = a => /\ pc'[u] \in {"unborn", "run", "count"}
                                /\ pc'[u] = "count" => sum'[u] = 0
      BY <1>1, <2>1, <2>6, <3>1 DEF UniformInv, UniformCounting
    <3>2. ~(thread_count'[a][o] > 0) /\ ~Busy(a, "count")' /\ ~Busy(a, "disarm")'
      BY <2>1, <2>6, <2>7 DEF Busy, Owner
    <3> QED BY <2>7, <2>9, <3>1, <3>2 DEF UniformCounting, Owner
  <2>11. Busy(a, "handlers")' /\ ~Busy(a, "uniform")' /\ ~Busy(a, "armnext")' /\ ev'[o] = e
    BY <1>1, <1>4, <2>1, <2>2, <2>6 DEF Busy, Owner
  <2>12. Expected(a)' = Expected(a) + 1
    BY <2>2, <2>3, <2>8, UniformConf DEF Expected, Start, Stop
  <2>13. (Len(raised[a]) + (IF Busy(a, "handlers") THEN 1 ELSE 0) = Expected(a))'
    BY <1>1, <2>5, <2>11, <2>12
  <2>14. UniformPhase(a)'
    <3>1. CASE arm_next'[a]
      <4>1. e = Stop /\ uniform_count'[a] = 0 /\ ~armed'[a][o]
        BY <2>1, <2>2, <2>8, <3>1
      <4> QED BY <1>1, <2>3, <2>11, <2>13, <3>1, <4>1 DEF UniformInv, UniformPhase, Owner
    <3>2. CASE ~arm_next'[a]
      <4>1. /\ uniform_count'[a] \in 1 .. Conf(a).cycles /\ event_type'[a] \in {Start, Stop}
            /\ e = IF event_type'[a] = Stop THEN Start ELSE Stop
        <5>1. uc \in Nat /\ Conf(a).cycles \in Nat /\ uc <= Conf(a).cycles /\ uc > 0
          BY <2>3, UniformConf
        <5>2. e = Start => uniform_count'[a] = uc /\ event_type'[a] = Stop
          BY <2>8 DEF Start, Stop
        <5>3. e = Stop => uc > 1 /\ uniform_count'[a] = uc - 1 /\ event_type'[a] = Start
          BY <2>8, <3>2 DEF Start, Stop
        <5>4. uniform_count'[a] \in 1 .. Conf(a).cycles
          BY <2>3, <5>1, <5>2, <5>3
        <5> QED BY <2>3, <5>2, <5>3, <5>4 DEF Start, Stop
      <4> QED BY <1>1, <2>3, <2>11, <2>13, <3>2, <4>1 DEF UniformInv, UniformPhase, Owner
    <3> QED BY <3>1, <3>2
  <2> QED BY <2>10, <2>14 DEF UniformInv
<1> QED BY <1>3, <1>4
LEMMA Parity ==
    ASSUME NEW m \in Nat, NEW v
    PROVE  (v = 2 * m => v % 2 # 1) /\ (v = 2 * m + 1 => v % 2 = 1)
OBVIOUS

LEMMA UniformFireHandlers ==
    ASSUME NEW a \in AlarmIds, UniformChain(a), Conf(a).uniform, UniformInv(a), TypeOK',
           NEW t \in Threads, FireHandlers(t)
    PROVE  UniformInv(a)'
<1>1. /\ pc[t] = "handlers" /\ cur[t] \in AlarmIds
      /\ raised' = IF Conf(cur[t]).uniform
                   THEN [raised EXCEPT ![cur[t]] = Append(@, ev[t])] ELSE raised
      /\ pc' = [pc EXCEPT ![t] = "armnext"]
      /\ UNCHANGED <<armed, thread_count, target_count, event_type, uniform_count, arm_next,
                     repeat, cur, sum, ev>>
  BY DEF FireHandlers, At, Goto, alarmVars, managerVars, localVars, UniformInv, TypeOK
<1>2. TypeOK
  BY DEF UniformInv
<1>3. CASE cur[t] # a
  <2>1. raised'[a] = raised[a]
    BY <1>1, <1>2, <1>3 DEF TypeOK
  <2>2. \A u \in Threads :
            \/ pc'[u] = pc[u] /\ cur'[u] = cur[u] /\ sum'[u] = sum[u] /\ ev'[u] = ev[u]
            \/ cur[u] # a /\ cur'[u] # a
    BY <1>1, <1>2, <1>3 DEF TypeOK
  <2> QED BY <1>1, <2>1, <2>2, FrameUniform
<1>4. CASE cur[t] = a
  <2> DEFINE o == Owner(a)
             n == Len(raised[a])
  <2>1. o \in Threads /\ t = o /\ Busy(a, "handlers")
    BY UniformConf, <1>1, <1>4 DEF UniformInv, UniformCounting, Busy, Owner
  <2>2. pc'[t] = "armnext" /\ \A u \in Threads : u # t => pc'[u] = pc[u]
    BY <1>1, <1>2 DEF TypeOK
  <2>3. raised[a] \in Seq({Start, Stop, Precond}) /\ raised'[a] = Append(raised[a], ev[o])
    BY <1>1, <1>2, <1>4, <2>1 DEF TypeOK
  <2>4. /\ Len(raised'[a]) = n + 1 /\ n \in Nat /\ raised'[a][n + 1] = ev[o]
        /\ DOMAIN raised'[a] = 1 .. n + 1 /\ DOMAIN raised[a] = 1 .. n
        /\ \A k \in 1 .. n : raised'[a][k] = raised[a][k]
    <3>1. ev[o] \in {Start, Stop, Precond}
      BY <1>2, <2>1 DEF TypeOK
    <3> QED BY <2>3, <3>1
  <2>5. n + 1 = Expected(a) /\ Expected(a)' = Expected(a)
    BY <1>1, <2>1 DEF UniformInv, UniformPhase, Expected
  <2>6. ev[o] = IF (n + 1) % 2 = 1 THEN Start ELSE Stop
    <3> DEFINE m == Conf(a).cycles - uniform_count[a]
               odd == (n + 1) % 2 = 1
    <3> SUFFICES ev[o] = IF odd THEN Start ELSE Stop
      OBVIOUS
    <3>0. Conf(a).cycles \in Nat /\ (~arm_next[a] => m \in Nat)
      <4>1. Conf(a).cycles \in Nat
        BY UniformConf
      <4>2. ~arm_next[a] => uniform_count[a] \in 1 .. Conf(a).cycles
        BY DEF UniformInv, UniformPhase
      <4>3. ~arm_next[a] => m \in Nat
        BY <4>1, <4>2
      <4> QED BY <4>1, <4>3
    <3>1. ~arm_next[a] => Expected(a) = 2 * m + IF event_type[a] = Stop THEN 1 ELSE 0
      BY DEF Expected
    <3> HIDE DEF m
    <3>2. CASE arm_next[a]
      <4>1. n + 1 = 2 * Conf(a).cycles /\ ev[o] = Stop
        BY <2>1, <2>5, <3>2 DEF Expected, UniformInv, UniformPhase
      <4>2. ~odd
        BY <3>0, <4>1, Parity
      <4> HIDE DEF odd
      <4> QED BY <4>1, <4>2
    <3>3. CASE ~arm_next[a] /\ event_type[a] = Stop
      <4>1. n + 1 = 2 * m + 1 /\ ev[o] = Start
        BY <2>1, <2>5, <3>1, <3>3 DEF UniformInv, UniformPhase
      <4>2. odd
        BY <3>0, <3>3, <4>1, Parity
      <4> HIDE DEF odd
      <4> QED BY <4>1, <4>2
    <3>4. CASE ~arm_next[a] /\ event_type[a] # Stop
      <4>1. n + 1 = 2 * m + 0 /\ ev[o] = Stop
        BY <2>1, <2>5, <3>1, <3>4 DEF UniformInv, UniformPhase
      <4>2. n + 1 = 2 * m
        BY <3>0, <3>4, <4>1
      <4>3. ~odd
        BY <3>0, <3>4, <4>2, Parity
      <4> HIDE DEF odd
      <4> QED BY <4>1, <4>3
    <3> QED BY <3>2, <3>3, <3>4
  <2>7. /\ Busy(a, "count")' => Busy(a, "count")
        /\ ~Busy(a, "disarm")' /\ ~Busy(a, "handlers")' /\ ~Busy(a, "uniform")'
    BY <1>1, <2>1, <2>2 DEF Busy, Owner
  <2>8. UniformCounting(a)'
    <3>1. ASSUME NEW u \in Threads, u # o
          PROVE  /\ thread_count'[a][u] = 0
                 /\ cur'[u] = a => /\ pc'[u] \in {"unborn", "run", "count"}
                                   /\ pc'[u] = "count" => sum'[u] = 0
      BY <1>1, <2>1, <2>2, <3>1 DEF UniformInv, UniformCounting
    <3> QED BY <1>1, <2>7, <3>1 DEF UniformInv, UniformCounting, Owner
  <2>9. \A k \in DOMAIN raised'[a] : raised'[a][k] = (IF k % 2 = 1 THEN Start ELSE Stop)
    <3>1. \A k \in 1 .. n : raised[a][k] = (IF k % 2 = 1 THEN Start ELSE Stop)
      BY <2>4 DEF UniformInv, UniformPhase
    <3>2. ASSUME NEW k \in 1 .. n + 1
          PROVE  raised'[a][k] = (IF k % 2 = 1 THEN Start ELSE Stop)
      <4>1. CASE k = n + 1
        BY <2>4, <2>6, <4>1
      <4>2. CASE k # n + 1
        <5>1. k \in 1 .. n
          BY <2>4, <4>2
        <5> QED BY <2>4, <3>1, <5>1
      <4> QED BY <4>1, <4>2
    <3> QED BY <2>4, <3>2
  <2>10. (Len(raised[a]) + (IF Busy(a, "handlers") THEN 1 ELSE 0) = Expected(a))'
    BY <2>4, <2>5, <2>7
  <2>11. arm_next[a] => repeat[a[1]][o] = 0
    BY <2>1 DEF UniformInv, UniformPhase
  <2>12. UniformPhase(a)'
    BY <1>1, <2>7, <2>9, <2>10, <2>11 DEF UniformInv, UniformPhase, Owner
  <2> QED BY <2>8, <2>12 DEF UniformInv
<1> QED BY <1>3, <1>4

LEMMA UniformFireArmNext ==
    ASSUME NEW a \in AlarmIds, UniformChain(a), UniformInv(a), TypeOK',
           NEW t \in Threads, FireArmNext(t)
    PROVE  UniformInv(a)'
<1> DEFINE o == Owner(a)
           b == cur[t]
           n == Repetitions(b, t)
<1>1. /\ pc[t] = "armnext" /\ b \in AlarmIds
      /\ pc' = [pc EXCEPT ![t] = "run"]
      /\ UNCHANGED <<thread_count, target_count, event_type, uniform_count, arm_next,
                     raised, cur, sum, ev>>
  BY DEF FireArmNext, At, Goto, Return, logVars, localVars, UniformInv, TypeOK
<1>2. TypeOK /\ o \in Threads
  BY UniformConf DEF UniformInv
<1>3. /\ arm_next[b] => /\ repeat' = [repeat EXCEPT ![b[1]][t] = n]
                        /\ armed' = [d \in AlarmIds |-> [u \in Threads |->
                                        armed[d][u] \/ <<d, u>> \in NextArmed(b, t, n)]]
      /\ ~arm_next[b] => repeat' = repeat /\ armed' = armed
  BY DEF FireArmNext
<1>4. b = a => t = o /\ Busy(a, "armnext")
  BY <1>1, <1>2 DEF UniformInv, UniformCounting, Busy, Owner
<1>5. b = a /\ arm_next[a] => n = 1
  <2>1. b = a /\ arm_next[a] => repeat[a[1]][o] = 0 /\ LastAlarm(a)
    BY <1>4, UniformConf DEF UniformInv, UniformPhase, LastAlarm, UniformChain
  <2>2. WordMod \in Nat /\ WordMod > 1
    BY UniformConf
  <2>3. (0 + 1) % WordMod = 1
    BY <2>2
  <2> QED BY <1>4, <2>1, <2>3 DEF Repetitions
<1> HIDE DEF n
<1>6. armed'[a][o] <=> armed[a][o]
  <2>1. CASE ~arm_next[b]
    BY <1>3, <2>1
  <2>2. CASE arm_next[b]
    <3>1. \A u : <<a, u>> \notin NextArmed(b, t, n)
      BY <1>1, <1>5, <2>2, NeverRearmed
    <3>2. armed'[a] = [u \in Threads |-> armed[a][u] \/ <<a, u>> \in NextArmed(b, t, n)]
      BY <1>3, <2>2
    <3>3. armed'[a][o] <=> (armed[a][o] \/ <<a, o>> \in NextArmed(b, t, n))
      BY <1>2, <3>2
    <3> QED BY <3>1, <3>3
  <2> QED BY <2>1, <2>2
<1>7. CASE b # a
  <2>1. b[1] # a[1] /\ a[1] \in Chains
    BY <1>1, <1>7, UniformConf
  <2>2. repeat'[a[1]][o] = repeat[a[1]][o]
    BY <1>2, <1>3, <2>1 DEF TypeOK
  <2>3. \A u \in Threads :
            \/ pc'[u] = pc[u] /\ cur'[u] = cur[u] /\ sum'[u] = sum[u] /\ ev'[u] = ev[u]
            \/ cur[u] # a /\ cur'[u] # a
    BY <1>1, <1>2, <1>7 DEF TypeOK
  <2> QED BY <1>1, <1>6, <2>2, <2>3, FrameUniform
<1>8. CASE b = a
  <2>1. pc'[t] = "run" /\ \A u \in Threads : u # t => pc'[u] = pc[u]
    BY <1>1, <1>2 DEF TypeOK
  <2>2. /\ ~Busy(a, "count")' /\ ~Busy(a, "disarm")' /\ ~Busy(a, "uniform")'
        /\ ~Busy(a, "handlers")' /\ ~Busy(a, "armnext")' /\ ~Busy(a, "handlers")
    BY <1>1, <1>2, <1>4, <1>8, <2>1 DEF Busy, Owner
  <2>3. UniformCounting(a)'
    <3>1. ASSUME NEW u \in Threads, u # o
          PROVE  /\ thread_count'[a][u] = 0
                 /\ cur'[u] = a => /\ pc'[u] \in {"unborn", "run", "count"}
                                   /\ pc'[u] = "count" => sum'[u] = 0
      BY <1>1, <1>4, <1>8, <2>1, <3>1 DEF UniformInv, UniformCounting
    <3> QED BY <1>1, <1>6, <2>2, <3>1 DEF UniformInv, UniformCounting, Owner
  <2>4. ~arm_next[a] => repeat'[a[1]][o] = 0
    BY <1>3, <1>8 DEF UniformInv, UniformPhase
  <2>5. UniformPhase(a)'
    BY <1>1, <1>6, <2>2, <2>4 DEF UniformInv, UniformPhase, Expected, Owner
  <2> QED BY <2>3, <2>5 DEF UniformInv
<1> QED BY <1>7, <1>8

LEMMA StepUniform ==
    ASSUME NEW a \in AlarmIds, UniformChain(a), Conf(a).uniform, UniformInv(a), [Next]_vars
    PROVE  UniformInv(a)'
<1>1. TypeOK /\ TypeOK'
  BY StepType DEF UniformInv
<1>2. CASE UNCHANGED vars
  BY <1>1, <1>2, FrameUniform
  DEF vars, alarmVars, managerVars, logVars, localVars
<1>3. CASE Next
  <2>1. PICK t \in Threads : \/ ThreadStart(t)
                             \/ \E d \in Blocks : Exec(t, d)
                             \/ Analysis(t)
    BY <1>3 DEF Next
  <2>2. CASE ThreadStart(t)
    <3>1. /\ pc[t] = "unborn" /\ pc' = [pc EXCEPT ![t] = "run"]
          /\ UNCHANGED <<armed, thread_count, target_count, event_type, uniform_count,
                         arm_next, repeat, raised, cur, sum, ev>>
      BY <2>2 DEF ThreadStart, BeginThread, At, Goto, alarmVars, managerVars, logVars, localVars
    <3>2. \A u \in Threads :
              \/ pc'[u] = pc[u] /\ cur'[u] = cur[u] /\ sum'[u] = sum[u] /\ ev'[u] = ev[u]
              \/ pc[u] = "unborn" /\ pc'[u] = "run"
      BY <1>1, <3>1 DEF TypeOK
    <3> QED BY <1>1, <3>1, <3>2, FrameUniform
  <2>3. CASE \E d \in Blocks : Exec(t, d)
    <3>1. UNCHANGED <<armed, thread_count, target_count, event_type, uniform_count,
                      arm_next, repeat, raised, pc, cur, sum, ev>>
      BY <2>3 DEF Exec, ReachBlock, alarmVars, managerVars, localVars
    <3> QED BY <1>1, <3>1, FrameUniform
  <2>4. CASE InitStart(t)
    <3>1. /\ pc[t] = "run" /\ pc' = [pc EXCEPT ![t] = "run"]
          /\ UNCHANGED <<armed, thread_count, target_count, event_type, uniform_count,
                         arm_next, repeat, raised, cur, sum, ev>>
      BY <2>4 DEF InitStart, Return, At, Goto, alarmVars, managerVars, localVars
    <3>2. \A u \in Threads :
              pc'[u] = pc[u] /\ cur'[u] = cur[u] /\ sum'[u] = sum[u] /\ ev'[u] = ev[u]
      BY <1>1, <3>1 DEF TypeOK
    <3> QED BY <1>1, <3>1, <3>2, FrameUniform
  <2>5. CASE CountRead(t)
    BY <1>1, <2>5, UniformCountRead
  <2>6. CASE CountWrite(t)
    BY <1>1, <2>6, UniformCountWrite
  <2>7. CASE FireDisarm(t)
    BY <1>1, <2>7, UniformFireDisarm
  <2>8. CASE FireUniform(t)
    BY <1>1, <2>8, UniformFireUniform
  <2>9. CASE FireHandlers(t)
    BY <1>1, <2>9, UniformFireHandlers
  <2>10. CASE FireArmNext(t)
    BY <1>1, <2>10, UniformFireArmNext
  <2> QED BY <2>1, <2>2, <2>3, <2>4, <2>5, <2>6, <2>7, <2>8, <2>9, <2>10 DEF Analysis
<1> QED BY <1>2, <1>3
(* A uniform alarm alone in its chain and restricted to one thread raises     *)
(* start and stop in turn, as many of each as it has cycles, and is then      *)
(* done, whatever the other chains do.                                        *)
THEOREM UniformAlternates ==
    ASSUME \A a \in AlarmIds : Conf(a).uniform => UniformChain(a)
    PROVE  Spec => []UniformCycles
<1> DEFINE Inv1 == TypeOK /\ \A a \in AlarmIds : Conf(a).uniform => UniformInv(a)
<1>1. Inv1 => UniformCycles
  <2> SUFFICES ASSUME NEW a \in AlarmIds, Conf(a).uniform, UniformInv(a)
               PROVE  /\ \A k \in DOMAIN raised[a] :
                             raised[a][k] = (IF k % 2 = 1 THEN Start ELSE Stop)
                      /\ Len(raised[a]) <= 2 * Conf(a).cycles
                      /\ arm_next[a] /\ (\A t \in Threads : ~InFlight(a, t)) =>
                             Len(raised[a]) = 2 * Conf(a).cycles
    BY DEF UniformCycles
  <2>1. UniformChain(a) /\ Len(raised[a]) \in Nat /\ Conf(a).cycles \in Nat /\ Owner(a) \in Threads
    <3>1. UniformChain(a)
      OBVIOUS
    <3>2. Len(raised[a]) \in Nat
      BY DEF UniformInv, TypeOK
    <3>3. Conf(a).cycles \in Nat /\ Owner(a) \in Threads
      BY <3>1, UniformConf
    <3> QED BY <3>1, <3>2, <3>3
  <2>2. Len(raised[a]) + (IF Busy(a, "handlers") THEN 1 ELSE 0) = Expected(a)
    BY DEF UniformInv, UniformPhase
  <2>3. Expected(a) <= 2 * Conf(a).cycles /\ Expected(a) \in Nat
    <3>1. CASE arm_next[a]
      BY <2>1, <3>1 DEF Expected
    <3>2. CASE ~arm_next[a]
      <4>1. uniform_count[a] \in 1 .. Conf(a).cycles
        BY <3>2 DEF UniformInv, UniformPhase
      <4> QED BY <2>1, <3>2, <4>1 DEF Expected
    <3> QED BY <3>1, <3>2
  <2>4. Len(raised[a]) <= 2 * Conf(a).cycles
    <3>1. CASE Busy(a, "handlers")
      BY <2>1, <2>2, <2>3, <3>1
    <3>2. CASE ~Busy(a, "handlers")
      BY <2>1, <2>2, <2>3, <3>2
    <3> QED BY <3>1, <3>2
  <2>5. ASSUME arm_next[a], \A t \in Threads : ~InFlight(a, t)
        PROVE  Len(raised[a]) = 2 * Conf(a).cycles
    <3>1. ~Busy(a, "handlers")
      BY <2>1, <2>5 DEF InFlight, Busy, Owner
    <3> QED BY <2>1, <2>2, <2>5, <3>1 DEF Expected
  <2> QED BY <2>4, <2>5 DEF UniformInv, UniformPhase
<1>2. Init => Inv1
  BY InitType, InitUniform DEF UniformInv
<1>3. Inv1 /\ [Next]_vars => Inv1'
  BY StepType, StepUniform
<1> QED BY <1>1, <1>2, <1>3, PTL DEF Spec

(* Only a uniform alarm chooses the next event.                               *)
UniformFires == \A t \in Threads : pc[t] = "uniform" => Conf(cur[t]).uniform

LEMMA OnlyUniformFires ==
    ASSUME TypeOK, TypeOK', UniformFires, [Next]_vars
    PROVE  /\ UniformFires'
           /\ \A a \in AlarmIds : ~Conf(a).uniform => uniform_count'[a] = uniform_count[a]
<1>1. CASE UNCHANGED vars
  BY <1>1 DEF UniformFires, vars, managerVars
<1>2. CASE Next
  <2>1. PICK t \in Threads : \/ ThreadStart(t)
                             \/ \E d \in Blocks : Exec(t, d)
                             \/ Analysis(t)
    BY <1>2 DEF Next
  <2>2. CASE FireDisarm(t)
    <3>1. /\ pc' = [pc EXCEPT ![t] = IF UniformActive(cur[t]) THEN "uniform" ELSE "handlers"]
          /\ UNCHANGED <<cur, uniform_count>>
      BY <2>2 DEF FireDisarm, Goto, managerVars
    <3> QED BY <3>1 DEF UniformFires, UniformActive, TypeOK
  <2>3. CASE FireUniform(t)
    <3>1. /\ pc[t] = "uniform" /\ pc' = [pc EXCEPT ![t] = "handlers"] /\ cur' = cur
          /\ \A a \in AlarmIds : a # cur[t] => uniform_count'[a] = uniform_count[a]
      BY <2>3 DEF FireUniform, At, Goto, TypeOK
    <3> QED BY <3>1 DEF UniformFires, TypeOK
  <2>4. CASE ~FireDisarm(t) /\ ~FireUniform(t)
    <3>1. /\ uniform_count' = uniform_count
          /\ \E s \in Stages \ {"uniform"} : pc' = [pc EXCEPT ![t] = s] \/ pc' = pc
          /\ \A u \in Threads : u # t => cur'[u] = cur[u]
          /\ cur'[t] = cur[t] \/ pc'[t] = "count"
      <4>1. CASE ThreadStart(t)
        BY <4>1 DEF ThreadStart, BeginThread, Goto, managerVars, Stages
      <4>2. CASE \E d \in Blocks : Exec(t, d)
        BY <4>2 DEF Exec, ReachBlock, managerVars, Stages
      <4>3. CASE CountRead(t)
        BY <4>3 DEF CountRead, Goto, managerVars, TypeOK, Stages
      <4>4. CASE CountWrite(t)
        BY <4>4 DEF CountWrite, Goto, Return, managerVars, Stages
      <4>5. CASE FireHandlers(t)
        BY <4>5 DEF FireHandlers, Goto, managerVars, Stages
      <4>6. CASE FireArmNext(t)
        BY <4>6 DEF FireArmNext, Goto, Return, Stages
      <4>7. CASE InitStart(t)
        BY <4>7 DEF InitStart, Goto, Return, managerVars, Stages
      <4> QED BY <2>1, <2>4, <4>1, <4>2, <4>3, <4>4, <4>5, <4>6, <4>7 DEF Analysis
    <3>2. UniformFires'
      BY <3>1 DEF UniformFires, TypeOK
    <3> QED BY <3>1, <3>2
  <2> QED BY <2>2, <2>3, <2>4
<1> QED BY <1>1, <1>2

(* Such an alarm never counts its cycles past zero, and an alarm that is not  *)
(* uniform counts none: the wrap the run of several unrestricted threads finds *)
(* (alarm_manager.cpp:167) needs two threads in the same alarm.               *)
THEOREM UniformCountBounded ==
    ASSUME \A a \in AlarmIds : Conf(a).uniform => UniformChain(a)
    PROVE  Spec => []UniformCountNeverWraps
<1> DEFINE Inv2 == /\ TypeOK /\ UniformFires
                   /\ \A a \in AlarmIds : Conf(a).uniform => UniformInv(a)
                   /\ \A a \in AlarmIds : ~Conf(a).uniform => uniform_count[a] = Conf(a).cycles
<1>1. Inv2 => UniformCountNeverWraps
  <2> SUFFICES ASSUME Inv2, NEW a \in AlarmIds PROVE uniform_count[a] <= Conf(a).cycles
    BY DEF UniformCountNeverWraps
  <2>1. Conf(a).cycles \in Nat
    BY ConfType
  <2>2. CASE Conf(a).uniform
    <3>1. UniformPhase(a) /\ UniformChain(a)
      BY <2>2 DEF UniformInv
    <3>2. uniform_count[a] = 0 \/ uniform_count[a] \in 1 .. Conf(a).cycles
      BY <3>1 DEF UniformPhase
    <3> QED BY <2>1, <3>2
  <2>3. CASE ~Conf(a).uniform
    BY <2>1, <2>3
  <2> QED BY <2>2, <2>3
<1>2. Init => Inv2
  <2>1. Init => UniformFires /\ \A a \in AlarmIds : uniform_count[a] = Conf(a).cycles
    BY DEF Init, InitChains, UniformFires
  <2> QED BY <2>1, InitType, InitUniform
<1>3. Inv2 /\ [Next]_vars => Inv2'
  BY StepType, StepUniform, OnlyUniformFires
<1> QED BY <1>1, <1>2, <1>3, PTL DEF Spec
=============================================================================
