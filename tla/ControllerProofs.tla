-------------------------- MODULE ControllerProofs --------------------------
(* Theorems about Controller for every configuration and number of threads. *)
EXTENDS Controller, TLAPS

LEMMA AlarmId == ASSUME NEW a \in AlarmIds
                 PROVE  /\ a[1] \in Chains /\ a[2] \in DOMAIN Alarm[a[1]]
                        /\ a = <<a[1], a[2]>>
                        /\ a[1] \in 1 .. Len(Alarm) /\ a[2] \in 1 .. Len(Alarm[a[1]])
<1>1. PICK c \in Chains : a \in {c} \X DOMAIN Alarm[c]
  BY DEF AlarmIds
<1>2. Chains = 1 .. Len(Alarm)
  BY ConfAssumption DEF Chains
<1>3. DOMAIN Alarm[c] = 1 .. Len(Alarm[c])
  BY <1>2, ConfAssumption
<1> QED BY <1>1, <1>2, <1>3

LEMMA AlarmIdIntro == ASSUME NEW c \in Chains, NEW i \in DOMAIN Alarm[c]
                      PROVE  <<c, i>> \in AlarmIds
BY DEF AlarmIds

LEMMA ConfType == ASSUME NEW a \in AlarmIds
                  PROVE  /\ Conf(a).ev \in {Start, Stop, Precond}
                         /\ Conf(a).bcast \in BOOLEAN /\ Conf(a).uniform \in BOOLEAN
                         /\ Conf(a).count \in Nat /\ Conf(a).cycles \in Nat
                         /\ Conf(a).period \in Nat /\ Conf(a).length \in Nat
                         /\ Conf(a).period - Conf(a).length \in Nat
<1>1. Conf(a) \in AlarmConf
  <2>1. Alarm[a[1]] \in Seq(AlarmConf)
    BY AlarmId, ConfAssumption DEF Chains
  <2>2. Alarm[a[1]][a[2]] \in AlarmConf
    BY <2>1, AlarmId
  <2> QED BY <2>2 DEF Conf
<1>2. Conf(a).period >= Conf(a).length
  BY ConfAssumption
<1> QED BY <1>1, <1>2 DEF AlarmConf

LEMMA InitAlarmOutside == InitAlarm \notin AlarmIds
BY AlarmId, ConfAssumption DEF InitAlarm
-----------------------------------------------------------------------------
(* Type correctness. *)

LEMMA ChainsType == InitChains /\ iregions.active \in BOOLEAN => TypeOK
<1> SUFFICES ASSUME InitChains, iregions.active \in BOOLEAN PROVE TypeOK
  OBVIOUS
<1>1. /\ armed \in [AlarmIds -> [Threads -> BOOLEAN]]
      /\ thread_count \in [AlarmIds -> [Threads -> Nat]]
  BY DEF InitChains, Activated
<1>2. /\ target_count \in [AlarmIds -> Nat]
      /\ event_type \in [AlarmIds -> {Start, Stop, Precond}]
      /\ uniform_count \in [AlarmIds -> Nat]
      /\ arm_next \in [AlarmIds -> BOOLEAN]
  BY ConfType DEF InitChains
<1>3. /\ out \in Seq([tid : Threads, ev : {Start, Stop} \cup SubRegionEvents, at : Nat])
      /\ pc \in [Threads -> Stages]
  BY DEF InitChains, Stages
<1>4. raised \in [AlarmIds -> Seq({Start, Stop, Precond})]
  BY DEF InitChains
<1> QED BY <1>1, <1>2, <1>3, <1>4 DEF InitChains, TypeOK

LEMMA InitType == Init => TypeOK
BY ChainsType DEF Init

LEMMA DisarmType == ASSUME TypeOK, NEW a \in AlarmIds, NEW ts, DisarmFor(a, ts)
                    PROVE  /\ armed' \in [AlarmIds -> [Threads -> BOOLEAN]]
                           /\ thread_count' \in [AlarmIds -> [Threads -> Nat]]
BY DEF TypeOK, DisarmFor

LEMMA HandlersType == ASSUME TypeOK, NEW t \in Threads, NEW e \in {Start, Stop},
                             Handlers(t, e)
                      PROVE  /\ out' \in Seq([tid : Threads, ev : {Start, Stop} \cup SubRegionEvents, at : Nat])
                             /\ doTrace' \in BOOLEAN
<1>1. [tid |-> t, ev |-> e, at |-> icount[t]] \in [tid : Threads, ev : {Start, Stop} \cup SubRegionEvents, at : Nat]
  BY DEF TypeOK
<1>2. out \in Seq([tid : Threads, ev : {Start, Stop} \cup SubRegionEvents, at : Nat])
  BY DEF TypeOK
<1>3. out' \in Seq([tid : Threads, ev : {Start, Stop} \cup SubRegionEvents, at : Nat])
  <2>1. CASE LogOn
    BY <1>1, <1>2, <2>1 DEF Handlers, LogEvent
  <2>2. CASE ~LogOn
    BY <1>2, <2>2 DEF Handlers, LogEvent
  <2> QED BY <2>1, <2>2
<1>4. doTrace' \in BOOLEAN
  BY DEF Handlers, LogEvent
<1> QED BY <1>3, <1>4

\* The steps that also a controller of regions takes.
LEMMA BeginType == ASSUME TypeOK, NEW t \in Threads, BeginThread(t), iregions'.active \in BOOLEAN
                   PROVE  TypeOK'
<1>1. InitAlarmOn \in BOOLEAN
  BY DEF InitAlarmOn
<1> QED BY <1>1 DEF BeginThread, At, Goto, TypeOK, Stages, alarmVars, managerVars,
                    logVars, localVars

LEMMA BlockType == ASSUME TypeOK, NEW t \in Threads, NEW b \in Blocks, ReachBlock(t, b),
                          iregions'.active \in BOOLEAN
                   PROVE  TypeOK'
<1>1. b.size \in Nat
  BY BoundAssumption
<1>2. todo' \in [Threads -> SUBSET (AlarmIds \cup {InitAlarm})]
  BY DEF ReachBlock, TypeOK, Instrumented
<1>3. icount' \in [Threads -> Nat] /\ ninst' \in [Threads -> Nat]
  BY <1>1 DEF ReachBlock, TypeOK
<1> QED BY <1>2, <1>3 DEF ReachBlock, TypeOK, alarmVars, managerVars, localVars

LEMMA StepType == TypeOK /\ [Next]_vars => TypeOK'
<1> SUFFICES ASSUME TypeOK, [Next]_vars PROVE TypeOK'
  OBVIOUS
<1>1. CASE UNCHANGED vars
  BY <1>1 DEF TypeOK, vars, alarmVars, managerVars, logVars, localVars
<1> SUFFICES ASSUME NEW t \in Threads,
                    \/ ThreadStart(t)
                    \/ \E b \in Blocks : Exec(t, b)
                    \/ Analysis(t)
             PROVE  TypeOK'
  BY <1>1 DEF Next
<1> USE DEF At, Goto, Return
<1>2. CASE ThreadStart(t)
  BY <1>2, BeginType DEF ThreadStart, TypeOK
<1>3. ASSUME NEW b \in Blocks, Exec(t, b) PROVE TypeOK'
  BY <1>3, BlockType DEF Exec, TypeOK
<1>4. CASE CountRead(t)
  <2>1. PICK a \in AlarmIds :
            /\ cur' = [cur EXCEPT ![t] = a]
            /\ sum' = [sum EXCEPT ![t] = thread_count[a][t] +
                           IF ShouldCount(a, t) THEN Weight(a, ninst[t]) ELSE 0]
    BY <1>4 DEF CountRead
  <2>2. Weight(a, ninst[t]) \in Nat
    BY DEF Weight, TypeOK
  <2>3. thread_count[a][t] \in Nat
    BY DEF TypeOK
  <2>4. sum' \in [Threads -> Nat]
    BY <2>1, <2>2, <2>3 DEF TypeOK
  <2>5. /\ cur' \in [Threads -> AlarmIds \cup {InitAlarm}]
        /\ \A u \in Threads : pc'[u] \notin {"unborn", "run"} => cur'[u] \in AlarmIds
    BY <1>4, <2>1 DEF CountRead, TypeOK
  <2>6. pc' \in [Threads -> Stages]
    BY <1>4 DEF CountRead, TypeOK, Stages
  <2> QED BY <1>4, <2>4, <2>5, <2>6 DEF CountRead, TypeOK, alarmVars, managerVars, logVars
<1>5. CASE CountWrite(t)
  <2>1. thread_count' \in [AlarmIds -> [Threads -> Nat]]
    BY <1>5 DEF CountWrite, TypeOK
  <2>2. /\ pc' \in [Threads -> Stages]
        /\ todo' \in [Threads -> SUBSET (AlarmIds \cup {InitAlarm})]
        /\ \A u \in Threads : pc'[u] \notin {"unborn", "run"} => cur[u] \in AlarmIds
    <3>1. CASE sum[t] >= target_count[cur[t]]
      BY <1>5, <3>1 DEF CountWrite, TypeOK, Stages
    <3>2. CASE ~(sum[t] >= target_count[cur[t]])
      <4>1. /\ todo' = [todo EXCEPT ![t] = @ \ {cur[t]}]
            /\ pc' = [pc EXCEPT ![t] = "run"]
        BY <1>5, <3>2 DEF CountWrite
      <4> QED BY <4>1 DEF TypeOK, Stages
    <3> QED BY <3>1, <3>2
  <2> QED BY <1>5, <2>1, <2>2 DEF CountWrite, TypeOK, managerVars, logVars, localVars
<1>6. CASE FireDisarm(t)
  <2>1. cur[t] \in AlarmIds
    BY <1>6 DEF FireDisarm, TypeOK
  <2>2. /\ armed' \in [AlarmIds -> [Threads -> BOOLEAN]]
        /\ thread_count' \in [AlarmIds -> [Threads -> Nat]]
    BY <1>6, <2>1, DisarmType DEF FireDisarm
  <2>3. /\ ev' \in [Threads -> {Start, Stop, Precond}]
        /\ bcast' \in [Threads -> BOOLEAN]
        /\ pc' \in [Threads -> Stages]
        /\ \A u \in Threads : pc'[u] \notin {"unborn", "run"} => cur[u] \in AlarmIds
    BY <1>6, <2>1, ConfType DEF FireDisarm, TypeOK, Stages
  <2> QED BY <1>6, <2>2, <2>3 DEF FireDisarm, TypeOK, managerVars, logVars
<1>7. CASE FireUniform(t)
  <2> DEFINE a == cur[t]
  <2>1. a \in AlarmIds
    BY <1>7 DEF FireUniform, TypeOK
  <2>2. UniformLeft(a) \in Nat
    <3>1. uniform_count[a] \in Nat
      BY <2>1 DEF TypeOK
    <3> QED BY <3>1, BoundAssumption DEF UniformLeft
  <2>3. /\ event_type' \in [AlarmIds -> {Start, Stop, Precond}]
        /\ uniform_count' \in [AlarmIds -> Nat]
        /\ target_count' \in [AlarmIds -> Nat]
        /\ arm_next' \in [AlarmIds -> BOOLEAN]
        /\ armed' \in [AlarmIds -> [Threads -> BOOLEAN]]
    <3> DEFINE next(e, n) ==
          /\ event_type' = [event_type EXCEPT ![a] = e]
          /\ target_count' = [target_count EXCEPT ![a] = n]
          /\ armed' = [armed EXCEPT ![a] = [u \in Threads |-> TRUE]]
    <3>1. CASE event_type[a] = Start
      <4>1. /\ next(Stop, Conf(a).length)
            /\ UNCHANGED <<uniform_count, arm_next>>
        BY <1>7, <3>1 DEF FireUniform, Arm, Start, Stop
      <4> QED BY <4>1, <2>1, ConfType DEF TypeOK
    <3>2. CASE event_type[a] = Stop /\ UniformLeft(a) = 0
      <4>1. /\ uniform_count' = [uniform_count EXCEPT ![a] = UniformLeft(a)]
            /\ arm_next' = [arm_next EXCEPT ![a] = TRUE]
            /\ armed' = [armed EXCEPT ![a] = [u \in Threads |-> FALSE]]
            /\ UNCHANGED <<event_type, target_count>>
        BY <1>7, <3>2 DEF FireUniform, Arm, Start, Stop
      <4> QED BY <4>1, <2>1, <2>2 DEF TypeOK
    <3>3. CASE event_type[a] = Stop /\ UniformLeft(a) # 0
      <4>1. /\ uniform_count' = [uniform_count EXCEPT ![a] = UniformLeft(a)]
            /\ next(Start, Conf(a).period - Conf(a).length)
            /\ UNCHANGED arm_next
        BY <1>7, <3>3 DEF FireUniform, Arm, Start, Stop
      <4> QED BY <4>1, <2>1, <2>2, ConfType DEF TypeOK
    <3> QED BY <1>7, <3>1, <3>2, <3>3 DEF FireUniform
  <2>4. /\ thread_count' \in [AlarmIds -> [Threads -> Nat]]
        /\ bcast' \in [Threads -> BOOLEAN]
        /\ pc' \in [Threads -> Stages]
        /\ \A u \in Threads : pc'[u] \notin {"unborn", "run"} => cur[u] \in AlarmIds
    BY <1>7, <2>1 DEF FireUniform, TypeOK, Stages
  <2> QED BY <1>7, <2>3, <2>4 DEF FireUniform, TypeOK, logVars
<1>8. CASE FireHandlers(t)
  <2>1. /\ out' \in Seq([tid : Threads, ev : {Start, Stop} \cup SubRegionEvents, at : Nat])
        /\ doTrace' \in BOOLEAN
    <3>1. CASE Visible(ev[t])
      <4>1. ev[t] \in {Start, Stop}
        BY <3>1 DEF Visible, TypeOK
      <4> QED BY <1>8, <3>1, <4>1, HandlersType DEF FireHandlers
    <3>2. CASE ~Visible(ev[t])
      BY <1>8, <3>2 DEF FireHandlers, TypeOK
    <3> QED BY <3>1, <3>2
  <2>2. /\ pc' \in [Threads -> Stages]
        /\ \A u \in Threads : pc'[u] \notin {"unborn", "run"} => cur[u] \in AlarmIds
    BY <1>8 DEF FireHandlers, TypeOK, Stages
  <2>3. raised' \in [AlarmIds -> Seq({Start, Stop, Precond})]
    <3>1. raised \in [AlarmIds -> Seq({Start, Stop, Precond})] /\ ev[t] \in {Start, Stop, Precond}
      BY DEF TypeOK
    <3>2. \/ raised' = raised
          \/ raised' = [raised EXCEPT ![cur[t]] = Append(raised[cur[t]], ev[t])]
      BY <1>8 DEF FireHandlers
    <3>3. cur[t] \in AlarmIds
      BY <1>8 DEF FireHandlers, At, TypeOK
    <3>4. Append(raised[cur[t]], ev[t]) \in Seq({Start, Stop, Precond})
      BY <3>1, <3>3
    <3> QED BY <3>1, <3>2, <3>4
  <2>4. UNCHANGED <<alarmVars, managerVars, start_thread, iregions, icount,
                   todo, ninst, cur, localVars>>
    BY <1>8 DEF FireHandlers
  <2> QED BY <2>1, <2>2, <2>3, <2>4 DEF TypeOK, alarmVars, managerVars, localVars
<1>9. CASE FireArmNext(t)
  <2> DEFINE a == cur[t]
             n == Repetitions(a, t)
  <2>1. a \in AlarmIds /\ a[1] \in Chains
    BY <1>9, AlarmId DEF FireArmNext, TypeOK
  <2>2. n \in Nat
    <3>1. repeat[a[1]][t] \in Nat
      BY <2>1 DEF TypeOK
    <3> QED BY <3>1, BoundAssumption DEF Repetitions
  <2>3. /\ repeat' \in [Chains -> [Threads -> Nat]]
        /\ armed' \in [AlarmIds -> [Threads -> BOOLEAN]]
    <3>1. CASE arm_next[a]
      <4>1. /\ repeat' = [repeat EXCEPT ![a[1]][t] = n]
            /\ armed' = [b \in AlarmIds |-> [u \in Threads |->
                            armed[b][u] \/ <<b, u>> \in NextArmed(a, t, n)]]
        BY <1>9, <3>1 DEF FireArmNext
      <4> HIDE DEF n
      <4>2. repeat' \in [Chains -> [Threads -> Nat]]
        BY <4>1, <2>2 DEF TypeOK
      <4>3. armed' \in [AlarmIds -> [Threads -> BOOLEAN]]
        BY <4>1
      <4> QED BY <4>2, <4>3
    <3>2. CASE ~arm_next[a]
      BY <1>9, <3>2 DEF FireArmNext, TypeOK
    <3> QED BY <3>1, <3>2
  <2>4. /\ pc' \in [Threads -> Stages]
        /\ todo' \in [Threads -> SUBSET (AlarmIds \cup {InitAlarm})]
        /\ \A u \in Threads : pc'[u] \notin {"unborn", "run"} => cur[u] \in AlarmIds
    BY <1>9 DEF FireArmNext, TypeOK, Stages
  <2> QED BY <1>9, <2>3, <2>4 DEF FireArmNext, TypeOK, logVars, localVars
<1>10. CASE InitStart(t)
  <2>1. /\ out' \in Seq([tid : Threads, ev : {Start, Stop} \cup SubRegionEvents, at : Nat])
        /\ doTrace' \in BOOLEAN
    BY <1>10, HandlersType DEF InitStart
  <2>2. /\ pc' \in [Threads -> Stages]
        /\ todo' \in [Threads -> SUBSET (AlarmIds \cup {InitAlarm})]
        /\ start_thread' \in [Threads -> BOOLEAN]
        /\ \A u \in Threads : pc'[u] \notin {"unborn", "run"} => cur[u] \in AlarmIds
    BY <1>10 DEF InitStart, TypeOK, Stages
  <2> QED BY <1>10, <2>1, <2>2 DEF InitStart, TypeOK, alarmVars, managerVars, localVars
<1> QED BY <1>2, <1>3, <1>4, <1>5, <1>6, <1>7, <1>8, <1>9, <1>10 DEF Analysis

(* The controller's state is well typed in every configuration; in particular *)
(* the handlers of the tool never see a precondition event.                   *)
THEOREM TypeCorrect == Spec => []TypeOK
BY InitType, StepType, PTL DEF Spec
-----------------------------------------------------------------------------
(* Chains without broadcast.  Counters: only an armed alarm of the right      *)
(* thread has counted anything, and no alarm has a target of zero, so Count   *)
(* cannot be true for another.  Places: a thread is at one place of a chain,  *)
(* not in a completed chain, and a chain that waits is untouched before the   *)
(* chain it waits for is complete.                                            *)
Counting(a, t) == armed[a][t] /\ CorrectTid(a, t)

Counters ==
    /\ \A a \in AlarmIds : target_count[a] > 0
    /\ \A a \in AlarmIds, t \in Threads : thread_count[a][t] > 0 => Counting(a, t)
    /\ \A t \in Threads : At(t, "count") /\ sum[t] > 0 => Counting(cur[t], t)
    /\ FiresOnlyIfArmed
    /\ \A t \in Threads : /\ ~At(t, "uniform")
                          /\ At(t, "handlers") \/ At(t, "armnext") => bcast[t] = FALSE

Places ==
    /\ OneStagePerThread
    /\ \A t \in Threads, a \in AlarmIds :
           armed[a][t] \/ InFlight(a, t) => ~Completed(a[1], t)
    /\ \A t \in Threads, a \in AlarmIds :
           WaitFor[a[1]] \in Chains /\ ~Completed(WaitFor[a[1]], t) =>
               ~armed[a][t] /\ ~InFlight(a, t) /\ repeat[a[1]][t] = 0

Inv == TypeOK /\ Counters /\ Places

LEMMA InitInv == PerThreadChains /\ Init => Inv
<1> SUFFICES ASSUME PerThreadChains, Init PROVE Inv
  OBVIOUS
<1>1. Counters
  BY DEF Init, InitChains, Counters, PerThreadChains, FiresOnlyIfArmed, At
<1>2. \A t \in Threads, a \in AlarmIds :
        /\ armed[a][t] => a[2] = 1 /\ WaitFor[a[1]] = NoWait
        /\ ~InFlight(a, t)
  BY DEF Init, InitChains, Activated, InFlight
<1>3. OneStagePerThread
  BY <1>2, AlarmId DEF OneStagePerThread
<1>4. \A c \in Chains, t \in Threads : repeat[c][t] = 0 /\ ~Completed(c, t)
  BY DEF Init, InitChains, Completed
<1>5. Places
  BY <1>2, <1>3, <1>4, AlarmId, ChainAssumption DEF Places
<1> QED BY <1>1, <1>5, InitType DEF Inv

(* Steps that leave the alarms, the managers and the local part of a firing   *)
(* alone, up to threads that are not firing.                                  *)
LEMMA FrameInv ==
    ASSUME Inv, UNCHANGED <<armed, thread_count, target_count, repeat>>,
           \A u \in Threads :
               \/ pc'[u] \in {"unborn", "run"}
               \/ pc'[u] = pc[u] /\ cur'[u] = cur[u] /\ sum'[u] = sum[u] /\ bcast'[u] = bcast[u]
    PROVE  Counters' /\ Places'
<1>1. \A a \in AlarmIds, u \in Threads : InFlight(a, u)' => InFlight(a, u)
  BY DEF InFlight
<1>2. \A a \in AlarmIds, u \in Threads : Counting(a, u)' <=> Counting(a, u)
  BY DEF Counting, CorrectTid
<1>3. \A c, u : Completed(c, u)' <=> Completed(c, u)
  BY DEF Completed, NeedToRepeat
<1>4. FiresOnlyIfArmed'
  BY DEF FiresOnlyIfArmed, CorrectTid, Inv, Counters, At
<1>5. Counters'
  <2>1. \A u \in Threads : cur[u] \in AlarmIds \/ pc[u] \in {"unborn", "run"}
    BY DEF Inv, TypeOK
  <2> QED BY <1>2, <1>4, <2>1 DEF Inv, Counters, At, Counting, CorrectTid
<1>6. OneStagePerThread'
  BY <1>1 DEF OneStagePerThread, Inv, Places
<1>7. Places'
  BY <1>1, <1>3, <1>6 DEF Inv, Places
<1> QED BY <1>5, <1>7

LEMMA CountReadInv == ASSUME Inv, NEW t \in Threads, CountRead(t)
                      PROVE  Counters' /\ Places'
<1> USE DEF At, Goto
<1>1. PICK a \in AlarmIds :
          /\ cur' = [cur EXCEPT ![t] = a]
          /\ sum' = [sum EXCEPT ![t] = thread_count[a][t] +
                         IF ShouldCount(a, t) THEN Weight(a, ninst[t]) ELSE 0]
  BY DEF CountRead
<1>2. sum'[t] > 0 => Counting(a, t)
  <2>1. thread_count[a][t] \in Nat /\ sum'[t] = thread_count[a][t] +
                         IF ShouldCount(a, t) THEN Weight(a, ninst[t]) ELSE 0
    BY <1>1 DEF Inv, TypeOK
  <2>2. CASE ShouldCount(a, t)
    BY <2>2 DEF ShouldCount, Counting
  <2>3. CASE ~ShouldCount(a, t)
    BY <2>1, <2>3 DEF Inv, Counters
  <2> QED BY <2>2, <2>3
<1>3. /\ UNCHANGED <<armed, thread_count, target_count, repeat, bcast>>
      /\ pc[t] = "run" /\ pc' = [pc EXCEPT ![t] = "count"]
  BY DEF CountRead, alarmVars, managerVars
<1>4. \A u \in Threads : /\ u = t => pc'[u] = "count" /\ cur'[u] = a
                         /\ u # t => pc'[u] = pc[u] /\ cur'[u] = cur[u] /\ sum'[u] = sum[u]
  BY <1>1, <1>3 DEF Inv, TypeOK
<1>5. \A b \in AlarmIds, u \in Threads : /\ InFlight(b, u)' => InFlight(b, u)
                                         /\ Counting(b, u)' <=> Counting(b, u)
  BY <1>3, <1>4 DEF InFlight, Counting, CorrectTid
<1>6. \A c, u : Completed(c, u)' <=> Completed(c, u)
  BY <1>3 DEF Completed, NeedToRepeat
<1>7. FiresOnlyIfArmed'
  BY <1>3, <1>4 DEF FiresOnlyIfArmed, CorrectTid, Inv, Counters
<1>8. \A u \in Threads : pc'[u] = "count" /\ sum'[u] > 0 => Counting(cur[u], u)' \/ u = t
  BY <1>3, <1>4 DEF Inv, Counters, Counting, CorrectTid
<1>9. \A u \in Threads : pc'[u] = "count" /\ sum'[u] > 0 => Counting(cur[u], u)'
  BY <1>2, <1>3, <1>4, <1>8 DEF Counting, CorrectTid
<1>10. Counters'
  BY <1>3, <1>4, <1>5, <1>7, <1>9 DEF Inv, Counters
<1>11. OneStagePerThread'
  BY <1>3, <1>5 DEF OneStagePerThread, Inv, Places
<1> QED BY <1>3, <1>5, <1>6, <1>10, <1>11 DEF Inv, Places

LEMMA CountWriteInv == ASSUME Inv, NEW t \in Threads, CountWrite(t)
                       PROVE  Counters' /\ Places'
<1> USE DEF At, Goto
<1> DEFINE a == cur[t]
<1>1. a \in AlarmIds /\ sum[t] \in Nat /\ target_count[a] > 0 /\ target_count[a] \in Nat
  BY DEF CountWrite, Inv, TypeOK, Counters
<1>2. /\ UNCHANGED <<armed, target_count, repeat, bcast, cur, sum>>
      /\ thread_count' = [thread_count EXCEPT ![a][t] = sum[t]]
      /\ pc[t] = "count"
      /\ \/ pc' = [pc EXCEPT ![t] = "run"]
         \/ pc' = [pc EXCEPT ![t] = "disarm"] /\ sum[t] >= target_count[a]
  BY DEF CountWrite, Return, managerVars, localVars
<1>3. sum[t] > 0 => Counting(a, t)
  BY <1>2 DEF Inv, Counters
<1>4. \A u \in Threads :
          /\ u = t => pc'[u] = "run" \/ (pc'[u] = "disarm" /\ Counting(a, t))
          /\ u # t => pc'[u] = pc[u]
  BY <1>1, <1>2, <1>3 DEF Inv, TypeOK
<1>5. \A b \in AlarmIds, u \in Threads : /\ InFlight(b, u)' => InFlight(b, u)
                                         /\ Counting(b, u)' <=> Counting(b, u)
  BY <1>2, <1>4 DEF InFlight, Counting, CorrectTid
<1>6. \A c, u : Completed(c, u)' <=> Completed(c, u)
  BY <1>2 DEF Completed, NeedToRepeat
<1>7. FiresOnlyIfArmed'
  BY <1>2, <1>4 DEF FiresOnlyIfArmed, CorrectTid, Inv, Counters, Counting
<1>8. \A b \in AlarmIds, u \in Threads : thread_count'[b][u] > 0 => Counting(b, u)
  BY <1>1, <1>2, <1>3 DEF Inv, TypeOK, Counters
<1>9. \A u \in Threads : pc'[u] = "count" /\ sum'[u] > 0 => Counting(cur[u], u)'
  BY <1>2, <1>4 DEF Inv, Counters, Counting, CorrectTid
<1>10. Counters'
  BY <1>2, <1>4, <1>5, <1>7, <1>8, <1>9 DEF Inv, Counters
<1>11. OneStagePerThread'
  BY <1>2, <1>5 DEF OneStagePerThread, Inv, Places
<1> QED BY <1>2, <1>5, <1>6, <1>10, <1>11 DEF Inv, Places

LEMMA FireDisarmInv == ASSUME PerThreadChains, Inv, NEW t \in Threads, FireDisarm(t)
                       PROVE  Counters' /\ Places'
<1> USE DEF At, Goto
<1> DEFINE a == cur[t]
<1>1. a \in AlarmIds /\ pc[t] = "disarm" /\ Counting(a, t)
  BY DEF FireDisarm, Inv, TypeOK, Counters, FiresOnlyIfArmed, Counting
<1>2. /\ UNCHANGED <<target_count, repeat, cur, sum>>
      /\ DisarmFor(a, {t})
      /\ pc' = [pc EXCEPT ![t] = "handlers"]
      /\ bcast' = [bcast EXCEPT ![t] = FALSE]
  <2>1. Conf(a).bcast = FALSE /\ ~UniformActive(a)
    BY <1>1, ConfType DEF PerThreadChains, UniformActive
  <2> QED BY <2>1 DEF FireDisarm, managerVars
<1>3. \A b \in AlarmIds, u \in Threads :
          /\ b = a /\ u = t => ~armed'[b][u] /\ thread_count'[b][u] = 0
          /\ ~(b = a /\ u = t) => /\ armed'[b][u] = armed[b][u]
                                  /\ thread_count'[b][u] = thread_count[b][u]
  BY <1>1, <1>2 DEF DisarmFor, Inv, TypeOK
<1>4. \A u \in Threads :
          /\ u = t => pc'[u] = "handlers" /\ bcast'[u] = FALSE
          /\ u # t => pc'[u] = pc[u] /\ bcast'[u] = bcast[u]
  BY <1>2 DEF Inv, TypeOK
<1>5. \A b \in AlarmIds, u \in Threads : InFlight(b, u)' =>
          InFlight(b, u) \/ (b = a /\ u = t)
  BY <1>2, <1>4 DEF InFlight
<1>6. \A c, u : Completed(c, u)' <=> Completed(c, u)
  BY <1>2 DEF Completed, NeedToRepeat
<1>7. \A u \in Threads : pc'[u] \in {"count", "disarm"} => u # t
  BY <1>4
<1>8. \A u \in Threads : u # t => cur[u] \in AlarmIds \/ pc[u] \in {"unborn", "run"}
  BY DEF Inv, TypeOK
<1>9. FiresOnlyIfArmed'
  BY <1>2, <1>3, <1>4, <1>7, <1>8 DEF FiresOnlyIfArmed, CorrectTid, Inv, Counters
<1>10. \A u \in Threads : pc'[u] = "count" /\ sum'[u] > 0 => Counting(cur[u], u)'
  BY <1>2, <1>3, <1>4, <1>7, <1>8 DEF Inv, Counters, Counting, CorrectTid
<1>11. \A b \in AlarmIds, u \in Threads : thread_count'[b][u] > 0 => Counting(b, u)'
  BY <1>3 DEF Inv, Counters, Counting, CorrectTid
<1>12. Counters'
  <2>1. \A u \in Threads : /\ pc'[u] # "uniform"
                           /\ pc'[u] \in {"handlers", "armnext"} => bcast'[u] = FALSE
    BY <1>4 DEF Inv, Counters
  <2>2. \A b \in AlarmIds : target_count'[b] > 0
    BY <1>2 DEF Inv, Counters
  <2> QED BY <1>9, <1>10, <1>11, <2>1, <2>2 DEF Counters
<1>13. OneStagePerThread'
  <2> SUFFICES ASSUME NEW u \in Threads, NEW b \in AlarmIds, NEW d \in AlarmIds,
                      b[1] = d[1], armed'[b][u]
               PROVE  ~InFlight(d, u)' /\ (armed'[d][u] => b = d)
    BY DEF OneStagePerThread
  <2>1. armed[b][u] /\ ~(b = a /\ u = t)
    BY <1>3
  <2>2. CASE d = a /\ u = t
    BY <1>1, <2>1, <2>2 DEF Inv, Places, OneStagePerThread, Counting
  <2>3. CASE ~(d = a /\ u = t)
    BY <1>3, <1>5, <2>1, <2>3 DEF Inv, Places, OneStagePerThread
  <2> QED BY <2>2, <2>3
<1>14. \A u \in Threads, b \in AlarmIds : armed'[b][u] \/ InFlight(b, u)' =>
           armed[b][u] \/ InFlight(b, u)
  BY <1>1, <1>3, <1>5 DEF Counting
<1> QED BY <1>2, <1>6, <1>12, <1>13, <1>14 DEF Inv, Places

(* What a firing in thread t arms when its chain is not broadcast: nothing in *)
(* another thread, at most one alarm of a chain, and only the next alarm of   *)
(* the chain or the first alarm of a chain that waits for it.                 *)
LEMMA NextArmedPerThread ==
    ASSUME NEW a \in AlarmIds, NEW t \in Threads, bcast[t] = FALSE, NEW n \in Nat
    PROVE  /\ \A b \in AlarmIds, u \in Threads : <<b, u>> \in NextArmed(a, t, n) =>
                  /\ u = t
                  /\ \/ b[1] = a[1] /\ (~LastAlarm(a) \/ NeedToRepeat(a[1], n))
                     \/ WaitFor[b[1]] = a[1] /\ LastAlarm(a) /\ ~NeedToRepeat(a[1], n)
           /\ \A b, d \in AlarmIds :
                  /\ <<b, t>> \in NextArmed(a, t, n) /\ <<d, t>> \in NextArmed(a, t, n)
                  /\ b[1] = d[1]
                  => b = d
<1>1. CASE ~LastAlarm(a)
  <2>1. NextArmed(a, t, n) = {<<a[1], a[2] + 1>>} \X {t}
    BY <1>1 DEF NextArmed, Audience
  <2> QED BY <1>1, <2>1
<1>2. CASE LastAlarm(a) /\ NeedToRepeat(a[1], n)
  <2>1. NextArmed(a, t, n) = {<<a[1], 1>>} \X {t}
    BY <1>2 DEF NextArmed, Audience
  <2> QED BY <1>2, <2>1
<1>3. CASE LastAlarm(a) /\ ~NeedToRepeat(a[1], n)
  <2>1. NextArmed(a, t, n) = {<<c, 1>> : c \in {c \in Chains : WaitFor[c] = a[1]}} \X {t}
    BY <1>3 DEF NextArmed
  <2> QED BY <1>3, <2>1
<1> QED BY <1>1, <1>2, <1>3

LEMMA FireArmNextInv == ASSUME PerThreadChains, Inv, NEW t \in Threads, FireArmNext(t)
                        PROVE  Counters' /\ Places'
<1> USE DEF At, Goto
<1> DEFINE a == cur[t]
           c == a[1]
           n == Repetitions(a, t)
<1>1. /\ a \in AlarmIds /\ c \in Chains /\ pc[t] = "armnext" /\ InFlight(a, t)
      /\ bcast[t] = FALSE /\ repeat[c][t] \in Nat
  BY AlarmId DEF FireArmNext, Inv, TypeOK, Counters, InFlight
<1>2. /\ UNCHANGED <<target_count, thread_count, cur, sum, bcast>>
      /\ pc' = [pc EXCEPT ![t] = "run"]
  BY DEF FireArmNext, Return, localVars
<1>3. \A u \in Threads : /\ u = t => pc'[u] = "run"
                         /\ u # t => pc'[u] = pc[u]
  BY <1>2 DEF Inv, TypeOK
<1>4. \A b \in AlarmIds, u \in Threads : InFlight(b, u)' => InFlight(b, u) /\ u # t
  BY <1>2, <1>3 DEF InFlight
<1>5. /\ ~Completed(c, t)
      /\ \A b \in AlarmIds : b[1] = c => ~armed[b][t] /\ (InFlight(b, t) => b = a)
  BY <1>1 DEF Inv, Places, OneStagePerThread, InFlight
<1>6. n \in Nat /\ (~LastAlarm(a) => n = repeat[c][t])
                /\ (LastAlarm(a) /\ ~NeedToRepeat(c, n) => n > 0)
  <2>1. CASE ~LastAlarm(a)
    BY <1>1, <2>1 DEF Repetitions
  <2>2. CASE LastAlarm(a) /\ Repeat[c] = Indefinite
    BY <1>1, <2>2, BoundAssumption DEF Repetitions, NeedToRepeat
  <2>3. CASE LastAlarm(a) /\ Repeat[c] # Indefinite
    <3>1. Repeat[c] \in Nat /\ Repeat[c] < WordMod /\ WordMod \in Nat /\ WordMod > 1
      BY <1>1, <2>3, ChainAssumption, BoundAssumption
    <3>2. repeat[c][t] = 0 \/ repeat[c][t] < Repeat[c]
      BY <1>1, <1>5, <2>3, <3>1 DEF Completed, NeedToRepeat
    <3>3. n = repeat[c][t] + 1
      <4>1. repeat[c][t] + 1 < WordMod
        BY <1>1, <3>1, <3>2
      <4>2. n = (repeat[c][t] + 1) % WordMod
        BY <2>3 DEF Repetitions
      <4> QED BY <1>1, <3>1, <4>1, <4>2
    <3> QED BY <1>1, <2>3, <3>3
  <2> QED BY <2>1, <2>2, <2>3
<1> HIDE DEF n
<1>7. CASE ~arm_next[a]
  <2>1. UNCHANGED <<armed, repeat>>
    BY <1>7 DEF FireArmNext
  <2> QED BY <1>2, <1>3, <2>1, FrameInv
<1>8. CASE arm_next[a]
  <2>1. /\ repeat' = [repeat EXCEPT ![c][t] = n]
        /\ armed' = [b \in AlarmIds |-> [u \in Threads |->
                        armed[b][u] \/ <<b, u>> \in NextArmed(a, t, n)]]
    BY <1>8 DEF FireArmNext, n
  <2>2. \A b \in AlarmIds, u \in Threads :
            /\ armed[b][u] => armed'[b][u]
            /\ armed'[b][u] => armed[b][u] \/ <<b, u>> \in NextArmed(a, t, n)
    BY <2>1
  <2>3. \A b \in AlarmIds, u \in Threads : <<b, u>> \in NextArmed(a, t, n) =>
            /\ u = t
            /\ \/ b[1] = c /\ (~LastAlarm(a) \/ NeedToRepeat(c, n))
               \/ WaitFor[b[1]] = c /\ LastAlarm(a) /\ ~NeedToRepeat(c, n)
    BY <1>1, <1>6, NextArmedPerThread
  <2>4. \A d \in Chains, u \in Threads :
            /\ d = c /\ u = t => repeat'[d][u] = n
            /\ ~(d = c /\ u = t) => repeat'[d][u] = repeat[d][u]
    BY <2>1, <1>1 DEF Inv, TypeOK
  <2>5. \A d \in Chains, u \in Threads :
            /\ ~(d = c /\ u = t) => (Completed(d, u)' <=> Completed(d, u))
            /\ d = c /\ u = t => (Completed(d, u)' <=> n > 0 /\ ~NeedToRepeat(c, n))
    BY <2>4 DEF Completed, NeedToRepeat
  <2>6. Counters'
    <3>1. \A b \in AlarmIds, u \in Threads : Counting(b, u) => Counting(b, u)'
      BY <2>2 DEF Counting, CorrectTid
    <3>2. \A u \in Threads : pc'[u] \in {"count", "disarm"} => cur[u] \in AlarmIds /\ pc[u] = pc'[u]
      BY <1>3 DEF Inv, TypeOK
    <3>3. FiresOnlyIfArmed'
      BY <1>2, <2>2, <3>2 DEF FiresOnlyIfArmed, Inv, Counters, CorrectTid
    <3>4. \A u \in Threads : pc'[u] = "count" /\ sum'[u] > 0 => Counting(cur[u], u)'
      BY <1>2, <2>2, <3>2 DEF Inv, Counters, Counting, CorrectTid
    <3>5. \A u \in Threads : /\ pc'[u] # "uniform"
                             /\ pc'[u] \in {"handlers", "armnext"} => bcast'[u] = FALSE
      BY <1>2, <1>3 DEF Inv, Counters
    <3>6. \A b \in AlarmIds, u \in Threads : thread_count'[b][u] > 0 => Counting(b, u)'
      BY <1>2, <3>1 DEF Inv, Counters
    <3>7. \A b \in AlarmIds : target_count'[b] > 0
      BY <1>2 DEF Inv, Counters
    <3> QED BY <3>3, <3>4, <3>5, <3>6, <3>7 DEF Counters
  \* A chain that waits for c had not been entered by t.
  <2>7. \A b \in AlarmIds : WaitFor[b[1]] = c =>
            /\ ~armed[b][t] /\ ~InFlight(b, t) /\ repeat[b[1]][t] = 0
            /\ b[1] # c
    BY <1>1, <1>5, AlarmId, ChainAssumption DEF Inv, Places, Chains
  <2>8. OneStagePerThread'
    <3> SUFFICES ASSUME NEW u \in Threads, NEW b \in AlarmIds, NEW d \in AlarmIds,
                        b[1] = d[1], armed'[b][u]
                 PROVE  ~InFlight(d, u)' /\ (armed'[d][u] => b = d)
      BY DEF OneStagePerThread
    <3>1. CASE u # t
      <4>1. \A g \in AlarmIds : armed'[g][u] => armed[g][u]
        BY <2>2, <2>3, <3>1
      <4>2. InFlight(d, u)' => InFlight(d, u)
        BY <1>4
      <4> QED BY <4>1, <4>2 DEF Inv, Places, OneStagePerThread
    <3>2. CASE u = t
      <4>1. ~InFlight(d, u)'
        BY <1>4, <3>2
      <4>2. ASSUME armed'[d][u] PROVE b = d
        <5>1. CASE armed[b][u] /\ armed[d][u]
          BY <5>1 DEF Inv, Places, OneStagePerThread
        <5>2. CASE ~armed[b][u] /\ ~armed[d][u]
          BY <2>2, <3>2, <4>2, <5>2, <1>1, <1>6, NextArmedPerThread
        <5>3. CASE armed[b][u] /\ ~armed[d][u]
          BY <2>2, <2>3, <2>7, <1>5, <3>2, <4>2, <5>3
        <5>4. CASE ~armed[b][u] /\ armed[d][u]
          <6>1. <<b, t>> \in NextArmed(a, t, n) /\ armed[d][t]
            BY <2>2, <3>2, <5>4
          <6>2. b[1] = c \/ WaitFor[b[1]] = c
            BY <2>3, <6>1
          <6> QED BY <1>5, <2>7, <6>1, <6>2
        <5> QED BY <5>1, <5>2, <5>3, <5>4
      <4> QED BY <4>1, <4>2
    <3> QED BY <3>1, <3>2
  <2>9. \A u \in Threads, b \in AlarmIds :
            armed'[b][u] \/ InFlight(b, u)' => ~Completed(b[1], u)'
    <3> SUFFICES ASSUME NEW u \in Threads, NEW b \in AlarmIds,
                        armed'[b][u] \/ InFlight(b, u)'
                 PROVE  ~Completed(b[1], u)'
      OBVIOUS
    <3>1. b[1] \in Chains
      BY AlarmId
    <3>2. CASE u # t
      BY <1>4, <2>2, <2>3, <2>5, <3>1, <3>2 DEF Inv, Places
    <3>3. CASE u = t /\ b[1] = c
      <4>1. <<b, t>> \in NextArmed(a, t, n)
        BY <1>4, <1>5, <2>2, <3>3
      <4>2. ~LastAlarm(a) \/ NeedToRepeat(c, n)
        BY <2>3, <2>7, <3>3, <4>1
      <4>3. ~LastAlarm(a) => (Completed(c, t)' <=> Completed(c, t))
        <5>1. ASSUME ~LastAlarm(a) PROVE Completed(c, t)' <=> Completed(c, t)
          <6>1. n = repeat[c][t]
            BY <1>6, <5>1
          <6>2. Completed(c, t)' <=> n > 0 /\ ~NeedToRepeat(c, n)
            BY <1>1, <1>2, <2>5
          <6> QED BY <6>1, <6>2 DEF Completed
        <5> QED BY <5>1
      <4>4. Completed(c, t)' => ~NeedToRepeat(c, n)
        BY <1>1, <1>2, <2>5
      <4>5. ~Completed(c, t)'
        BY <1>5, <4>2, <4>3, <4>4
      <4> QED BY <1>2, <3>3, <4>5
    <3>4. CASE u = t /\ b[1] # c /\ armed[b][t]
      BY <2>5, <3>1, <3>4 DEF Inv, Places
    <3>5. CASE u = t /\ b[1] # c /\ ~armed[b][t]
      <4>1. WaitFor[b[1]] = c
        BY <1>4, <2>2, <2>3, <3>5
      <4> QED BY <2>4, <2>7, <3>1, <3>5, <4>1 DEF Completed
    <3> QED BY <3>2, <3>3, <3>4, <3>5
  <2>10. \A u \in Threads, b \in AlarmIds :
             WaitFor[b[1]] \in Chains /\ ~Completed(WaitFor[b[1]], u)' =>
                 ~armed'[b][u] /\ ~InFlight(b, u)' /\ repeat'[b[1]][u] = 0
    <3> SUFFICES ASSUME NEW u \in Threads, NEW b \in AlarmIds,
                        WaitFor[b[1]] \in Chains, ~Completed(WaitFor[b[1]], u)'
                 PROVE  ~armed'[b][u] /\ ~InFlight(b, u)' /\ repeat'[b[1]][u] = 0
      OBVIOUS
    <3>1. ~Completed(WaitFor[b[1]], u)
      BY <1>5, <2>5
    <3>2. ~armed[b][u] /\ ~InFlight(b, u) /\ repeat[b[1]][u] = 0
      BY <3>1 DEF Inv, Places
    <3>3. ~(b[1] = c /\ u = t)
      <4>1. ASSUME b[1] = c, u = t PROVE FALSE
        BY <1>1, <3>1, <4>1 DEF Inv, Places
      <4> QED BY <4>1
    <3>4. repeat'[b[1]][u] = 0 /\ ~InFlight(b, u)'
      BY <1>4, <2>4, <3>2, <3>3, AlarmId
    <3>5. <<b, u>> \notin NextArmed(a, t, n)
      <4>1. ASSUME <<b, u>> \in NextArmed(a, t, n) PROVE FALSE
        <5>1. u = t /\ WaitFor[b[1]] = c /\ LastAlarm(a) /\ ~NeedToRepeat(c, n)
          BY <2>3, <3>3, <4>1
        <5> QED BY <1>1, <1>6, <2>5, <5>1
      <4> QED BY <4>1
    <3> QED BY <2>2, <3>2, <3>4, <3>5
  <2> QED BY <2>6, <2>8, <2>9, <2>10 DEF Places
<1> QED BY <1>7, <1>8

LEMMA StepInv == PerThreadChains /\ Inv /\ [Next]_vars => Inv'
<1> SUFFICES ASSUME PerThreadChains, Inv, [Next]_vars PROVE Counters' /\ Places'
  BY StepType DEF Inv
<1>1. CASE UNCHANGED vars
  BY <1>1, FrameInv DEF vars, alarmVars, managerVars, localVars
<1> SUFFICES ASSUME NEW t \in Threads,
                    \/ ThreadStart(t)
                    \/ \E b \in Blocks : Exec(t, b)
                    \/ Analysis(t)
             PROVE  Counters' /\ Places'
  BY <1>1 DEF Next
<1> USE DEF At, Goto
<1>2. CASE ThreadStart(t)
  <2>1. pc' = [pc EXCEPT ![t] = "run"] /\ UNCHANGED <<alarmVars, managerVars, cur, localVars>>
    BY <1>2 DEF ThreadStart, BeginThread
  <2> QED BY <2>1, FrameInv DEF alarmVars, managerVars, localVars, Inv, TypeOK
<1>3. CASE \E b \in Blocks : Exec(t, b)
  <2>1. UNCHANGED <<alarmVars, managerVars, pc, cur, localVars>>
    BY <1>3 DEF Exec, ReachBlock
  <2> QED BY <2>1, FrameInv DEF alarmVars, managerVars, localVars
<1>4. CASE FireUniform(t)
  BY <1>4 DEF FireUniform, Inv, Counters
<1>5. CASE FireHandlers(t)
  <2>1. pc[t] = "handlers" /\ pc' = [pc EXCEPT ![t] = "armnext"]
    BY <1>5 DEF FireHandlers
  <2>2. UNCHANGED <<alarmVars, managerVars, cur, localVars>>
    BY <1>5 DEF FireHandlers
  <2>3. \A u \in Threads : /\ u = t => pc'[u] = "armnext"
                           /\ u # t => pc'[u] = pc[u]
    BY <2>1 DEF Inv, TypeOK
  <2>4. \A b \in AlarmIds, u \in Threads : InFlight(b, u)' <=> InFlight(b, u)
    BY <2>1, <2>2, <2>3 DEF InFlight
  <2>5. \A c, u : Completed(c, u)' <=> Completed(c, u)
    BY <2>2 DEF Completed, NeedToRepeat, managerVars
  <2>6. Counters'
    <3>1. \A u \in Threads : pc'[u] \in {"count", "disarm"} => pc'[u] = pc[u]
      BY <2>3
    <3>2. \A u \in Threads : /\ pc'[u] # "uniform"
                             /\ pc'[u] \in {"handlers", "armnext"} => bcast[u] = FALSE
      BY <2>1, <2>3 DEF Inv, Counters
    <3>3. FiresOnlyIfArmed'
      BY <2>2, <3>1 DEF FiresOnlyIfArmed, Inv, Counters, CorrectTid, alarmVars
    <3> QED BY <2>2, <3>1, <3>2, <3>3
            DEF Inv, Counters, Counting, CorrectTid, alarmVars, localVars
  <2>7. OneStagePerThread'
    BY <2>2, <2>4 DEF OneStagePerThread, Inv, Places, alarmVars
  <2> QED BY <2>2, <2>4, <2>5, <2>6, <2>7 DEF Inv, Places, alarmVars, managerVars
<1>6. CASE InitStart(t)
  <2>1. pc' = [pc EXCEPT ![t] = "run"] /\ UNCHANGED <<alarmVars, managerVars, cur, localVars>>
    BY <1>6 DEF InitStart, Return
  <2> QED BY <2>1, FrameInv DEF alarmVars, managerVars, localVars, Inv, TypeOK
<1> QED BY <1>2, <1>3, <1>4, <1>5, <1>6, CountReadInv, CountWriteInv, FireDisarmInv,
           FireArmNextInv DEF Analysis

(* In a chain without broadcast every thread is at one place only.            *)
THEOREM OneStage == ASSUME PerThreadChains PROVE Spec => []OneStagePerThread
<1>1. Inv => OneStagePerThread
  BY DEF Inv, Places
<1>2. Init => Inv
  BY InitInv
<1>3. Inv /\ [Next]_vars => Inv'
  BY StepInv
<1> QED BY <1>1, <1>2, <1>3, PTL DEF Spec

(* Count is true only for an alarm armed for the thread that counts.          *)
THEOREM OnlyArmedFire == ASSUME PerThreadChains PROVE Spec => []FiresOnlyIfArmed
<1>1. Inv => FiresOnlyIfArmed
  BY DEF Inv, Counters
<1>2. Init => Inv
  BY InitInv
<1>3. Inv /\ [Next]_vars => Inv'
  BY StepInv
<1> QED BY <1>1, <1>2, <1>3, PTL DEF Spec

(* A thread enters a chain that waits only after completing the other chain.  *)
THEOREM WaitingChains == ASSUME PerThreadChains PROVE Spec => []WaitsForCompletion
<1>1. Inv => WaitsForCompletion
  BY DEF Inv, Places, WaitsForCompletion
<1>2. Init => Inv
  BY InitInv
<1>3. Inv /\ [Next]_vars => Inv'
  BY StepInv
<1> QED BY <1>1, <1>2, <1>3, PTL DEF Spec
=============================================================================
