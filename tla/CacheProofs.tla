----------------------------- MODULE CacheProofs -----------------------------
(***************************************************************************)
(* Proofs about Cache: the second level is accessed once for every miss of *)
(* the first, but for calls that switching tracing has torn, and every     *)
(* counted miss has evicted a line, for every geometry, every set of       *)
(* accesses and every switching of tracing.  Then types, the lines that an *)
(* access leaves in the cache, and the numbers of the report.              *)
(***************************************************************************)
EXTENDS Cache, FiniteSetTheorems, TLAPS

\* The control state and the counters have their types.
Shape ==
    /\ access \in [Caches -> [Types -> [Outcomes -> Nat]]]
    /\ evicted \in [Caches -> Nat]
    /\ pc \in {"idle", "line", "count"}
    /\ ref \in Refs /\ level \in Caches
    /\ doTrace \in BOOLEAN /\ recording \in BOOLEAN /\ allHit \in BOOLEAN
    /\ torn \in BOOLEAN /\ tears \in Nat

\* Until tracing is switched during a call, doTrace is what was passed to Access.
Seam ==
    /\ pc # "idle" /\ ~torn => recording = doTrace
    /\ torn => pc # "idle" /\ tears > 0

\* What dl2 has counted beyond the misses of dl1.
Excess(ty) ==
    access["dl2"][ty]["hit"] + access["dl2"][ty]["miss"] - access["dl1"][ty]["miss"]

\* Torn calls that are over and the one that is going on may each be off by one.
\* An access to dl2 that is going on to be counted brings the two together: its
\* miss in dl1 was counted too, unless this call is torn.
Slack == IF torn THEN tears - 1 ELSE tears
InDL2(ty) == pc # "idle" /\ level = "dl2" /\ ty = AccessType(ref)
Owed(ty) == IF InDL2(ty) /\ recording THEN 1 ELSE 0
DL2Balance == DL2 => \A ty \in Types :
    IF InDL2(ty) /\ torn
    THEN -tears <= Excess(ty) /\ Excess(ty) <= tears - 1
    ELSE -Slack <= Excess(ty) + Owed(ty) /\ Excess(ty) + Owed(ty) <= Slack

\* An access has met a miss that is not yet counted, but its eviction is.
Missed(l) == IF pc # "idle" /\ level = l /\ recording /\ ~allHit THEN 1 ELSE 0
MissBalance == \A l \in Caches : Misses(l) + Missed(l) <= evicted[l]

Inv == Shape /\ Seam /\ DL2Balance /\ MissBalance

LEMMA CacheNames == {"il1", "dl1"} \subseteq Caches /\ (DL2 <=> "dl2" \in Caches)
BY CacheAssumption DEF Caches

LEMMA KindOfAccess == \A r \in Refs : AccessType(r) \in Types /\ FirstLevel(r) \in Caches \ {"dl2"}
BY CacheNames DEF AccessType, FirstLevel, Types

LEMMA InitInv == Init => Inv
<1> SUFFICES ASSUME Init PROVE Inv
  OBVIOUS
<1>1. Shape
  BY CacheNames DEF Init, Shape, Types
<1>2. \A l \in Caches, ty \in Types, o \in Outcomes : access[l][ty][o] = 0
  BY DEF Init, Types
<1>3. DL2Balance
  BY <1>2, CacheNames DEF Init, DL2Balance, InDL2, Owed, Excess, Slack, Outcomes
<1>4. MissBalance
  BY <1>2 DEF Init, MissBalance, Missed, Misses, Types, Outcomes
<1>5. Seam
  BY DEF Init, Seam
<1> QED BY <1>1, <1>3, <1>4, <1>5 DEF Inv

\* One line of an access.
LEMMA LineInv == ASSUME Inv, LineHit \/ LineMiss PROVE Inv'
<1>1. /\ UNCHANGED <<access, profile, doTrace, ref, level, recording, torn, tears, calls>>
      /\ pc = "line" /\ pc' \in {"line", "count"}
  BY DEF LineHit, LineMiss, Advance, history
<1>2. DL2Balance' /\ Seam'
  BY <1>1 DEF Inv, Seam, DL2Balance, InDL2, Owed, Excess, Slack
<1>3. CASE LineHit
  <2>1. UNCHANGED <<evicted, allHit>>
    BY <1>3 DEF LineHit, AllHitWith, Inv, Shape
  <2> QED BY <1>1, <1>2, <2>1 DEF Inv, Shape, MissBalance, Missed, Misses
<1>4. CASE LineMiss
  <2>1. /\ allHit' = FALSE
        /\ evicted' = IF recording THEN [evicted EXCEPT ![level] = @ + 1] ELSE evicted
    BY <1>4 DEF LineMiss, Allocates, AllHitWith
  <2>2. Shape'
    <3>1. evicted' \in [Caches -> Nat]
      BY <2>1 DEF Inv, Shape
    <3>2. allHit' \in BOOLEAN
      BY <2>1
    <3> QED BY <1>1, <3>1, <3>2 DEF Inv, Shape
  <2>3. MissBalance'
    <3> SUFFICES ASSUME NEW l \in Caches PROVE (Misses(l) + Missed(l))' <= evicted'[l]
      BY DEF MissBalance
    <3>1. Misses(l)' = Misses(l) /\ Misses(l) \in Nat /\ Misses(l) + Missed(l) <= evicted[l]
      BY <1>1 DEF Inv, Shape, MissBalance, Misses, Types, Outcomes
    <3> QED BY <1>1, <2>1, <3>1 DEF Missed, Inv, Shape
  <2> QED BY <1>2, <2>2, <2>3 DEF Inv
<1> QED BY <1>3, <1>4

\* The end of an access to one cache.
LEMMA CountInv == ASSUME Inv, Count PROVE Inv'
<1> DEFINE ty == AccessType(ref)
<1>1. /\ pc = "count" /\ UNCHANGED <<evicted, doTrace, ref, tears>>
      /\ \/ /\ GoesToDL2 /\ pc' = "line" /\ level' = "dl2" /\ allHit' = TRUE
            /\ recording' = doTrace /\ torn' = torn
         \/ /\ ~GoesToDL2 /\ pc' = "idle" /\ UNCHANGED <<level, allHit, recording>>
            /\ torn' = FALSE
  BY DEF Count, CountIn, Enter
<1>2. access' = IF recording THEN [access EXCEPT ![level][ty][Outcome(allHit)] = @ + 1] ELSE access
  BY DEF Count, CountIn
<1>3. level \in Caches /\ ty \in Types /\ Outcome(allHit) \in Outcomes /\ Shape
  BY KindOfAccess DEF Inv, Shape, Outcome, Outcomes
<1> HIDE DEF ty
<1>4. \A l \in Caches, k \in Types, o \in Outcomes :
          /\ access[l][k][o] \in Nat
          /\ access'[l][k][o] = access[l][k][o] +
                 IF recording /\ l = level /\ k = ty /\ o = Outcome(allHit) THEN 1 ELSE 0
  BY <1>2, <1>3 DEF Shape
<1>5. Shape'
  <2>1. access' \in [Caches -> [Types -> [Outcomes -> Nat]]]
    BY <1>2, <1>3 DEF Shape
  <2> QED BY <1>1, <1>3, <2>1, CacheNames DEF Shape, GoesToDL2
<1>6. Seam'
  BY <1>1 DEF Inv, Seam
<1>7. DL2Balance'
  <2> SUFFICES ASSUME DL2, NEW k \in Types
               PROVE  (IF InDL2(k) /\ torn
                       THEN -tears <= Excess(k) /\ Excess(k) <= tears - 1
                       ELSE -Slack <= Excess(k) + Owed(k) /\ Excess(k) + Owed(k) <= Slack)'
    BY DEF DL2Balance
  <2>1. IF InDL2(k) /\ torn
        THEN -tears <= Excess(k) /\ Excess(k) <= tears - 1
        ELSE -Slack <= Excess(k) + Owed(k) /\ Excess(k) + Owed(k) <= Slack
    BY DEF Inv, DL2Balance
  <2>2. "dl1" \in Caches /\ "dl2" \in Caches /\ "hit" \in Outcomes /\ "miss" \in Outcomes
    BY CacheNames DEF Outcomes
  <2>3. InDL2(k) <=> level = "dl2" /\ k = ty
    BY <1>1 DEF InDL2, ty
  <2>4. InDL2(k)' <=> GoesToDL2 /\ k = ty
    BY <1>1 DEF InDL2, ty
  <2>5. Excess(k) \in Int /\ tears \in Nat
    BY <1>3, <1>4, <2>2 DEF Excess, Shape
  <2>6. CASE level = "dl2"
    <3>1. Excess(k)' = Excess(k) + IF recording /\ k = ty THEN 1 ELSE 0
      BY <1>3, <1>4, <2>2, <2>6 DEF Excess, Outcomes, Outcome
    <3>2. ~GoesToDL2
      BY <2>6 DEF GoesToDL2
    <3>3. Slack' = tears /\ Slack <= tears /\ Owed(k)' = 0
      BY <1>1, <2>5, <3>2 DEF Slack, Owed, InDL2
    <3>4. Owed(k) = IF recording /\ k = ty THEN 1 ELSE 0
      BY <2>3, <2>6 DEF Owed
    <3>5. torn \in BOOLEAN /\ recording \in BOOLEAN /\ (~torn => Slack = tears) /\ Slack \in Int
      BY <1>3, <2>5 DEF Slack, Shape
    <3>6. CASE InDL2(k) /\ torn
      BY <2>1, <2>3, <2>4, <2>5, <3>1, <3>2, <3>3, <3>6
    <3>7. CASE ~(InDL2(k) /\ torn)
      BY <2>1, <2>3, <2>4, <2>5, <3>1, <3>2, <3>3, <3>4, <3>5, <3>7
    <3> QED BY <3>6, <3>7
  <2>7. CASE level = "dl1"
    <3>1. Excess(k)' = Excess(k) - IF recording /\ k = ty /\ ~allHit THEN 1 ELSE 0
      BY <1>3, <1>4, <2>2, <2>7 DEF Excess, Outcomes, Outcome
    <3>2. GoesToDL2 <=> ~allHit
      BY <2>7 DEF GoesToDL2
    <3>3. ~torn => recording = doTrace
      BY <1>1 DEF Inv, Seam
    <3>4. torn => tears > 0
      BY DEF Inv, Seam
    <3> QED BY <1>1, <2>1, <2>3, <2>4, <2>5, <2>7, <3>1, <3>2, <3>3, <3>4 DEF Owed, Slack
  <2>8. CASE level \notin {"dl1", "dl2"}
    <3>1. Excess(k)' = Excess(k)
      BY <1>3, <1>4, <2>2, <2>8 DEF Excess
    <3>2. ~GoesToDL2
      BY <2>8 DEF GoesToDL2
    <3> QED BY <1>1, <2>1, <2>3, <2>4, <2>5, <2>8, <3>1, <3>2 DEF Owed, Slack
  <2> QED BY <2>6, <2>7, <2>8
<1>8. MissBalance'
  <2> SUFFICES ASSUME NEW l \in Caches PROVE (Misses(l) + Missed(l))' <= evicted'[l]
    BY DEF MissBalance
  <2>1. Misses(l) + Missed(l) <= evicted[l] /\ evicted[l] \in Nat
    BY <1>3 DEF Inv, MissBalance, Shape
  <2>2. Missed(l)' = 0
    BY <1>1 DEF Missed
  <2>3. Misses(l)' = Misses(l) + IF recording /\ l = level /\ ~allHit THEN 1 ELSE 0
    BY <1>3, <1>4 DEF Misses, Types, Outcomes, Outcome
  <2>4. Misses(l) \in Nat /\ Missed(l) = IF recording /\ l = level /\ ~allHit THEN 1 ELSE 0
    BY <1>1, <1>4 DEF Misses, Missed, Types, Outcomes
  <2> QED BY <1>1, <2>1, <2>2, <2>3, <2>4
<1> QED BY <1>5, <1>6, <1>7, <1>8 DEF Inv

\* Tracing is switched: if during a call, that call is torn from now on.
LEMMA HandlerInv == ASSUME Inv, Handler PROVE Inv'
<1>1. /\ UNCHANGED <<access, evicted, pc, ref, level, allHit, recording>>
      /\ doTrace' = ~doTrace /\ torn' = (pc # "idle")
      /\ tears' = IF torn' /\ ~torn THEN tears + 1 ELSE tears
  BY DEF Handler, stats
<1>2. Shape' /\ Seam'
  <2>1. doTrace' \in BOOLEAN /\ torn' \in BOOLEAN /\ tears' \in Nat
    BY <1>1 DEF Inv, Shape
  <2>2. Seam'
    <3>1. (torn' <=> pc # "idle") /\ pc' = pc
      BY <1>1, <2>1
    <3>2. torn' => tears' > 0
      BY <1>1 DEF Inv, Shape, Seam
    <3> QED BY <3>1, <3>2 DEF Seam
  <2> QED BY <1>1, <2>1, <2>2 DEF Inv, Shape
<1>3. MissBalance'
  BY <1>1 DEF Inv, MissBalance, Missed, Misses
<1>4. DL2Balance'
  <2> SUFFICES ASSUME DL2, NEW k \in Types
               PROVE  (IF InDL2(k) /\ torn
                       THEN -tears <= Excess(k) /\ Excess(k) <= tears - 1
                       ELSE -Slack <= Excess(k) + Owed(k) /\ Excess(k) + Owed(k) <= Slack)'
    BY DEF DL2Balance
  <2>1. IF InDL2(k) /\ torn
        THEN -tears <= Excess(k) /\ Excess(k) <= tears - 1
        ELSE -Slack <= Excess(k) + Owed(k) /\ Excess(k) + Owed(k) <= Slack
    BY DEF Inv, DL2Balance
  <2>2. Excess(k) \in Int /\ tears \in Nat
    BY CacheNames DEF Inv, Shape, Excess, Outcomes
  <2>3. (Excess(k)' = Excess(k)) /\ (InDL2(k)' <=> InDL2(k)) /\ (Owed(k)' = Owed(k))
    BY <1>1 DEF Excess, InDL2, Owed
  <2>4. (torn => pc # "idle") /\ (InDL2(k) => pc # "idle")
    BY DEF Inv, Seam, InDL2
  <2> QED BY <1>1, <2>1, <2>2, <2>3, <2>4 DEF Owed, Slack
<1> QED BY <1>2, <1>3, <1>4 DEF Inv

LEMMA StepInv == Inv /\ [Next]_vars => Inv'
<1> SUFFICES ASSUME Inv, [Next]_vars PROVE Inv'
  OBVIOUS
<1>1. CASE UNCHANGED vars
  BY <1>1 DEF vars, stats, history, Inv, Shape, Seam, DL2Balance, InDL2, Owed, Excess, Slack,
              MissBalance, Missed, Misses
<1>2. ASSUME NEW r \in Refs, Call(r) PROVE Inv'
  <2>1. /\ UNCHANGED <<access, evicted, doTrace, torn, tears>> /\ ref' = r
        /\ pc = "idle" /\ pc' = "line"
        /\ level' \in Caches \ {"dl2"} /\ allHit' = TRUE /\ recording' = doTrace
    BY <1>2, KindOfAccess DEF Call, Enter, stats, history
  <2>2. Shape' /\ Seam'
    BY <2>1 DEF Inv, Shape, Seam
  <2>3. DL2Balance' /\ MissBalance'
    BY <2>1 DEF Inv, DL2Balance, InDL2, Owed, Excess, Slack, MissBalance, Missed, Misses
  <2> QED BY <2>2, <2>3 DEF Inv
<1> QED BY <1>1, <1>2, HandlerInv, LineInv, CountInv DEF Next

(* Between two calls the second level has counted as many loads and as many   *)
(* stores as the first level has counted misses of each, but for one more or  *)
(* less for every call during which tracing was switched.                     *)
THEOREM DL2Served == Spec => []DL2ServesDL1Misses
<1>1. Inv => DL2ServesDL1Misses
  <2> SUFFICES ASSUME Inv, DL2, pc = "idle", NEW k \in Types
               PROVE  Within(access["dl2"][k]["hit"] + access["dl2"][k]["miss"],
                             access["dl1"][k]["miss"], tears)
    BY DEF DL2ServesDL1Misses
  <2>1. -tears <= Excess(k) /\ Excess(k) <= tears
    <3>1. Excess(k) \in Int
      BY CacheNames DEF Inv, Shape, Excess, Outcomes
    <3>2. ~torn /\ ~InDL2(k)
      BY DEF Inv, Seam, InDL2
    <3>3. Slack = tears /\ Owed(k) = 0
      BY <3>2 DEF Slack, Owed
    <3> QED BY <3>1, <3>2, <3>3 DEF Inv, DL2Balance
  <2>2. /\ tears \in Nat /\ access["dl1"][k]["miss"] \in Nat
        /\ access["dl2"][k]["hit"] \in Nat /\ access["dl2"][k]["miss"] \in Nat
    BY CacheNames DEF Inv, Shape, Outcomes
  <2> QED BY <2>1, <2>2 DEF Excess, Within
<1> QED BY <1>1, InitInv, StepInv, PTL DEF Spec

(* No cache counts more misses than evictions.                                *)
THEOREM MissesFill == Spec => []EveryMissFills
<1>1. Inv => EveryMissFills
  BY DEF Inv, Shape, MissBalance, Missed, Misses, EveryMissFills, Types, Outcomes
<1> QED BY <1>1, InitInv, StepInv, PTL DEF Spec
-----------------------------------------------------------------------------
(* The types.  Beside TypeOK: the arrays have the extents of the geometry,    *)
(* and a call that is not torn yet has a tear to spare.                       *)
Extents ==
    /\ DOMAIN tags = Caches /\ DOMAIN next = Caches /\ DOMAIN util = Caches
    /\ \A l \in Caches : /\ tags[l] \in [0..(Sets[l] - 1) -> [Ways(l) -> Nat]]
                         /\ next[l] \in [0..(Sets[l] - 1) -> Ways(l)]
                         /\ util[l] \in [0..(NumLines(l) * NumSectors(l) - 1) -> BOOLEAN]
Tallies ==
    /\ touched \in [Caches -> Nat]
    /\ profile \in [{"il1", "dl1"} -> [Outcomes -> Nat]]
Bounds ==
    /\ addr \in Nat /\ calls \in 0..MaxCalls
    /\ tears <= calls
    /\ pc # "idle" /\ ~torn => tears < calls

TypedInv == Shape /\ Seam /\ Extents /\ Tallies /\ Bounds

LEMMA Product == ASSUME NEW m \in Nat, NEW n \in Nat PROVE m * n \in Nat
OBVIOUS

LEMMA Division ==
    ASSUME NEW n \in Nat \ {0}, NEW a \in Nat
    PROVE  /\ a \div n \in Nat /\ a % n \in 0 .. n - 1
           /\ (a \div n) * n + (a % n) = a
<1>1. a \div n \in Nat /\ a % n \in 0 .. n - 1 /\ a = n * (a \div n) + (a % n)
  OBVIOUS
<1>2. \A d \in Nat : n * d = d * n
  OBVIOUS
<1> QED BY <1>1, <1>2

LEMMA RefType == \A r \in Refs : r.addr \in Nat /\ r.size \in Nat \ {0} /\ r.addr % AddrMod \in Nat
<1> TAKE r \in Refs
<1>1. r \in [kind : Kinds, addr : Nat, size : Nat \ {0}] /\ AddrMod \in Nat \ {0}
  BY CacheAssumption
<1>2. r.addr \in Nat /\ r.size \in Nat \ {0}
  BY <1>1
<1>3. r.addr % AddrMod \in Nat
  BY <1>1, <1>2, Division
<1> QED BY <1>2, <1>3

LEMMA GeometryType ==
    ASSUME NEW l \in Caches
    PROVE  /\ Sets[l] \in Nat \ {0} /\ Assoc[l] \in Nat \ {0} /\ LineSize[l] \in Nat \ {0}
           /\ NumSectors(l) \in Nat /\ NumLines(l) \in Nat
           /\ \A a \in Nat : /\ Tag(l, a) \in Nat
                             /\ SetIndex(l, a) \in 0 .. Sets[l] - 1
                             /\ NextLine(l, a) \in Nat
           /\ \A s \in Nat, w \in Nat : LineOffset(l, s, w) \in Nat
<1>1. Sets[l] \in Nat \ {0} /\ Assoc[l] \in Nat \ {0} /\ LineSize[l] \in Nat \ {0}
  BY CacheAssumption
<1>2. NumSectors(l) \in Nat
  <2>1. SectorLen \in Nat \ {0}
    BY CacheAssumption
  <2> QED BY <1>1, <2>1, Division DEF NumSectors
<1>3. NumLines(l) \in Nat
  BY <1>1, Product DEF NumLines
<1>4. ASSUME NEW a \in Nat
      PROVE  Tag(l, a) \in Nat /\ SetIndex(l, a) \in 0 .. Sets[l] - 1 /\ NextLine(l, a) \in Nat
  <2>1. Tag(l, a) \in Nat
    BY <1>1, Division DEF Tag
  <2>2. SetIndex(l, a) \in 0 .. Sets[l] - 1
    BY <1>1, <2>1, Division DEF SetIndex
  <2>3. Tag(l, a) + 1 \in Nat
    BY <2>1
  <2>4. NextLine(l, a) \in Nat
    BY <1>1, <2>3, Product DEF NextLine
  <2> QED BY <2>1, <2>2, <2>4
<1>5. ASSUME NEW s \in Nat, NEW w \in Nat PROVE LineOffset(l, s, w) \in Nat
  <2>1. s * Assoc[l] \in Nat
    BY <1>1, Product
  <2> QED BY <2>1 DEF LineOffset
<1> QED BY <1>1, <1>2, <1>3, <1>4, <1>5

LEMMA InitTyped == Init => TypedInv
<1> SUFFICES ASSUME Init PROVE TypedInv
  OBVIOUS
<1>1. Shape /\ Seam
  BY InitInv DEF Inv
<1>2. Extents
  <2> SUFFICES ASSUME NEW l \in Caches
               PROVE  /\ tags[l] \in [0..(Sets[l] - 1) -> [Ways(l) -> Nat]]
                      /\ next[l] \in [0..(Sets[l] - 1) -> Ways(l)]
                      /\ util[l] \in [0..(NumLines(l) * NumSectors(l) - 1) -> BOOLEAN]
    BY DEF Init, Extents
  <2>1. Assoc[l] - 1 \in Ways(l)
    BY GeometryType DEF Ways
  <2>2. tags[l] = [s \in 0..(Sets[l] - 1) |-> [w \in Ways(l) |-> 0]]
    BY DEF Init
  <2>3. next[l] = [s \in 0..(Sets[l] - 1) |-> Assoc[l] - 1]
    BY DEF Init
  <2>4. util[l] = [k \in 0..(NumLines(l) * NumSectors(l) - 1) |-> FALSE]
    BY DEF Init
  <2> QED BY <2>1, <2>2, <2>3, <2>4
<1>3. Tallies /\ Bounds
  BY CacheAssumption DEF Init, Tallies, Bounds
<1> QED BY <1>1, <1>2, <1>3 DEF TypedInv

LEMMA AdvanceTyped == ASSUME TypedInv, Advance
                      PROVE  addr' \in Nat /\ calls' = calls /\ profile' = profile
BY GeometryType DEF Advance, TypedInv, Shape, Bounds

LEMMA LineTyped == ASSUME TypedInv, Shape', Seam', LineHit \/ LineMiss PROVE TypedInv'
<1> DEFINE l == level
           s == Set
<1>1. /\ UNCHANGED <<level, torn, tears, calls, profile>> /\ addr' \in Nat /\ pc = "line"
  BY AdvanceTyped DEF LineHit, LineMiss, Advance, history
<1>2. l \in Caches /\ s \in 0..(Sets[l] - 1) /\ addr \in Nat
  BY GeometryType DEF TypedInv, Shape, Bounds, Set
<1>3. Bounds'
  BY <1>1 DEF TypedInv, Bounds
<1>4. Extents' /\ Tallies'
  <2>1. CASE LineHit
    <3>1. /\ UNCHANGED <<tags, next, touched, evicted>>
          /\ \E w \in Ways(l) : util' = [util EXCEPT ![l][Flag(l, w, addr)] = TRUE]
      BY <2>1 DEF LineHit, WaysHolding
    <3>2. DOMAIN util' = Caches /\ \A k \in Caches :
              util'[k] \in [0..(NumLines(k) * NumSectors(k) - 1) -> BOOLEAN]
      <4>1. PICK w \in Ways(l) : util' = [util EXCEPT ![l][Flag(l, w, addr)] = TRUE]
        BY <3>1
      <4>2. \A k \in Caches : k # l => util'[k] = util[k]
        BY <4>1 DEF TypedInv, Extents
      <4>3. util'[l] = [util[l] EXCEPT ![Flag(l, w, addr)] = TRUE]
        BY <1>2, <4>1 DEF TypedInv, Extents
      <4>4. util[l] \in [0..(NumLines(l) * NumSectors(l) - 1) -> BOOLEAN]
        BY <1>2 DEF TypedInv, Extents
      <4>5. util'[l] \in [0..(NumLines(l) * NumSectors(l) - 1) -> BOOLEAN]
        BY <4>3, <4>4
      <4> QED BY <4>1, <4>2, <4>5 DEF TypedInv, Extents
    <3>3. Extents'
      BY <3>1, <3>2 DEF TypedInv, Extents
    <3> QED BY <1>1, <3>1, <3>3 DEF TypedInv, Tallies
  <2>2. CASE LineMiss
    <3> DEFINE w == next[l][s]
               sectors == Sectors(l, s, w)
    <3>1. w \in Ways(l) /\ WayBefore(l, w) \in Ways(l)
      <4>1. w \in Ways(l)
        BY <1>2 DEF TypedInv, Extents
      <4>2. Assoc[l] \in Nat \ {0}
        BY <1>2, GeometryType
      <4> QED BY <4>1, <4>2 DEF Ways, WayBefore
    <3>2. /\ tags' = [tags EXCEPT ![l][s][w] = Tag(l, addr)]
          /\ next' = [next EXCEPT ![l][s] = WayBefore(l, w)]
          /\ util' = [util EXCEPT ![l] = [k \in DOMAIN @ |->
                                IF k \in sectors THEN k = Flag(l, w, addr) ELSE @[k]]]
          /\ IF recording
             THEN touched' = [touched EXCEPT ![l] = @ + Cardinality({k \in sectors : util[l][k]})]
             ELSE touched' = touched
      BY <2>2 DEF LineMiss, Allocates
    <3>3. Tag(l, addr) \in Nat
      BY <1>2, GeometryType
    <3>4. Cardinality({k \in sectors : util[l][k]}) \in Nat
      <4>1. LineOffset(l, s, w) \in Nat /\ NumSectors(l) \in Nat
        <5>1. s \in Nat /\ w \in Nat
          BY <1>2, <3>1 DEF Ways
        <5> HIDE DEF s, w, l
        <5> QED BY <1>2, <5>1, GeometryType
      <4>2. IsFiniteSet(sectors)
        BY <4>1, FS_Interval DEF Sectors
      <4> QED BY <4>2, FS_Subset, FS_CardinalityType
    <3> HIDE DEF sectors, w, s, l
    <3>5. DOMAIN tags' = Caches /\ \A k \in Caches :
              tags'[k] \in [0..(Sets[k] - 1) -> [Ways(k) -> Nat]]
      BY <1>2, <3>1, <3>2, <3>3 DEF TypedInv, Extents
    <3>6. DOMAIN next' = Caches /\ \A k \in Caches : next'[k] \in [0..(Sets[k] - 1) -> Ways(k)]
      BY <1>2, <3>1, <3>2 DEF TypedInv, Extents
    <3>7. DOMAIN util' = Caches /\ \A k \in Caches :
              util'[k] \in [0..(NumLines(k) * NumSectors(k) - 1) -> BOOLEAN]
      <4>1. \A k \in Caches : k # l => util'[k] = util[k]
        BY <3>2 DEF TypedInv, Extents
      <4>2. util'[l] = [k \in DOMAIN util[l] |->
                           IF k \in sectors THEN k = Flag(l, w, addr) ELSE util[l][k]]
        BY <1>2, <3>2 DEF TypedInv, Extents
      <4>3. util'[l] \in [DOMAIN util[l] -> BOOLEAN]
        BY <1>2, <4>2 DEF TypedInv, Extents
      <4> QED BY <1>2, <3>2, <4>1, <4>3 DEF TypedInv, Extents
    <3>8. touched' \in [Caches -> Nat]
      BY <1>2, <3>2, <3>4 DEF TypedInv, Tallies
    <3> QED BY <1>1, <3>5, <3>6, <3>7, <3>8 DEF TypedInv, Extents, Tallies
  <2> QED BY <2>1, <2>2
<1> QED BY <1>3, <1>4 DEF TypedInv

LEMMA CountTyped == ASSUME TypedInv, Shape', Seam', Count PROVE TypedInv'
<1>1. /\ UNCHANGED <<tags, next, util, touched, calls, tears>> /\ pc = "count"
      /\ \/ pc' = "line" /\ addr' = ref.addr /\ UNCHANGED <<profile, torn>>
         \/ /\ pc' = "idle" /\ addr' = addr /\ torn' = FALSE
            /\ \/ profile' = profile
               \/ profile' = [profile EXCEPT ![FirstLevel(ref)][Outcome(FirstLevelHit)] = @ + 1]
  BY DEF Count, CountIn, Enter
<1>2. Extents' /\ Bounds'
  BY <1>1, RefType DEF TypedInv, Extents, Bounds, Shape
<1>3. FirstLevel(ref) \in {"il1", "dl1"} /\ Outcome(FirstLevelHit) \in Outcomes
  BY DEF FirstLevel, Outcome, Outcomes
<1>4. Tallies'
  BY <1>1, <1>3 DEF TypedInv, Tallies
<1> QED BY <1>2, <1>4 DEF TypedInv

LEMMA StepTyped == TypedInv /\ Inv /\ [Next]_vars => TypedInv'
<1> SUFFICES ASSUME TypedInv, Inv, [Next]_vars PROVE TypedInv'
  OBVIOUS
<1>1. Shape' /\ Seam'
  BY StepInv DEF Inv
<1>2. CASE UNCHANGED vars
  BY <1>1, <1>2 DEF vars, stats, history, TypedInv, Extents, Tallies, Bounds
<1>3. CASE Handler
  BY <1>1, <1>3 DEF Handler, stats, TypedInv, Extents, Tallies, Bounds, Shape, Seam
<1>4. ASSUME NEW r \in Refs, Call(r) PROVE TypedInv'
  <2>1. /\ UNCHANGED <<tags, next, util, touched, profile, tears, torn>>
        /\ pc = "idle" /\ calls < MaxCalls /\ calls' = calls + 1
        /\ addr' = IF r.kind = "inst" THEN r.addr % AddrMod ELSE r.addr
    BY <1>4 DEF Call, Enter, stats, history
  <2>2. addr' \in Nat
    BY <2>1, RefType
  <2>3. Bounds'
    BY <2>1, <2>2, CacheAssumption DEF TypedInv, Bounds, Shape
  <2> QED BY <1>1, <2>1, <2>3 DEF TypedInv, Extents, Tallies
<1> QED BY <1>1, <1>2, <1>3, <1>4, LineTyped, CountTyped DEF Next

(* The caches keep their types: every way of every set holds a tag, the index *)
(* for replacement stays among the ways, flags are set within their array     *)
(* only, and no more calls are torn than were made.                           *)
THEOREM CacheTyped == Spec => []TypeOK
<1>1. TypedInv => TypeOK
  <2> SUFFICES ASSUME TypedInv PROVE TypeOK
    OBVIOUS
  <2>1. tears \in 0..calls
    BY DEF TypedInv, Shape, Bounds
  <2>2. ASSUME NEW l \in Caches, NEW s \in 0..(Sets[l] - 1)
        PROVE  next[l][s] \in Ways(l) /\ \A w \in Ways(l) : tags[l][s][w] \in Nat
    BY ZenonT(30) DEF TypedInv, Extents
  <2>3. \A l \in Caches : util[l] \in [0..(NumLines(l) * NumSectors(l) - 1) -> BOOLEAN]
    BY DEF TypedInv, Extents
  <2> QED BY <2>1, <2>2, <2>3 DEF TypedInv, TypeOK, Shape, Tallies, Bounds
<1> QED BY <1>1, InitTyped, StepTyped, InitInv, StepInv, PTL DEF Spec
-----------------------------------------------------------------------------
(* The lines of an access.  Arithmetic of lines first.                        *)
LEMMA Multiple == ASSUME NEW k \in Nat, k >= 1, NEW n \in Nat PROVE k * n >= n
OBVIOUS

LEMMA LineBounds ==
    ASSUME NEW n \in Nat \ {0}, NEW a \in Nat
    PROVE  (a \div n) * n <= a /\ a < (a \div n) * n + n
<1>1. (a \div n) * n \in Nat
  BY Division, Product
<1> QED BY <1>1, Division

\* Line q is the line of the addresses from q * n up to the next line.
LEMMA LineUnique ==
    ASSUME NEW n \in Nat \ {0}, NEW q \in Nat, NEW a \in Nat, q * n <= a, a < q * n + n
    PROVE  a \div n = q
<1> DEFINE d == a \div n
<1>1. d \in Nat /\ d * n <= a /\ a < d * n + n
  BY Division, LineBounds
<1> HIDE DEF d
<1>2. q * n \in Nat /\ d * n \in Nat
  BY <1>1, Product
<1>3. CASE d >= q + 1
  <2>1. (d - q) * n >= n
    BY <1>1, <1>3, Multiple
  <2>2. (d - q) * n = d * n - q * n
    BY <1>1
  <2> QED BY <1>1, <1>2, <2>1, <2>2
<1>4. CASE q >= d + 1
  <2>1. (q - d) * n >= n
    BY <1>1, <1>4, Multiple
  <2>2. (q - d) * n = q * n - d * n
    BY <1>1
  <2> QED BY <1>1, <1>2, <2>1, <2>2
<1> QED BY <1>1, <1>3, <1>4 DEF d

LEMMA LineMono ==
    ASSUME NEW n \in Nat \ {0}, NEW a \in Nat, NEW b \in Nat, a <= b
    PROVE  a \div n <= b \div n
<1> DEFINE d == a \div n
           e == b \div n
<1>1. d \in Nat /\ e \in Nat /\ d * n <= a /\ b < e * n + n
  BY Division, LineBounds
<1> HIDE DEF d, e
<1>2. d * n \in Nat /\ e * n \in Nat
  BY <1>1, Product
<1>3. CASE d >= e + 1
  <2>1. (d - e) * n >= n
    BY <1>1, <1>3, Multiple
  <2>2. (d - e) * n = d * n - e * n
    BY <1>1
  <2> QED BY <1>1, <1>2, <2>1, <2>2
<1> QED BY <1>1, <1>3 DEF d, e

\* Fewer than n consecutive lines are in different ones of n sets.
LEMMA SetsDiffer ==
    ASSUME NEW n \in Nat \ {0}, NEW x \in Nat, NEW y \in Nat, x < y, y - x < n
    PROVE  x % n # y % n
<1> SUFFICES ASSUME x % n = y % n PROVE FALSE
  OBVIOUS
<1> DEFINE d == x \div n
           e == y \div n
           m == x % n
<1>1. d \in Nat /\ e \in Nat /\ m \in 0 .. n - 1 /\ d * n + m = x /\ e * n + m = y
  BY Division
<1> HIDE DEF d, e, m
<1>2. d * n \in Nat /\ e * n \in Nat
  BY <1>1, Product
<1>3. e >= d + 1
  <2>1. CASE d >= e + 1
    <3>1. (d - e) * n >= n
      BY <1>1, <2>1, Multiple
    <3>2. (d - e) * n = d * n - e * n
      BY <1>1
    <3> QED BY <1>1, <1>2, <3>1, <3>2
  <2>2. d # e
    BY <1>1
  <2> QED BY <1>1, <2>1, <2>2
<1>4. (e - d) * n >= n
  BY <1>1, <1>3, Multiple
<1>5. (e - d) * n = e * n - d * n
  BY <1>1
<1> QED BY <1>1, <1>2, <1>4, <1>5

\* Where access r begins, and the caches it is made to.
Begin(r) == IF r.kind = "inst" THEN r.addr % AddrMod ELSE r.addr
Last(r) == Begin(r) + r.size - 1
Visits(r, l) == l = FirstLevel(r) \/ (l = "dl2" /\ r.kind # "inst")

\* What the code assumes: an access of at most a word stays within a line
\* (cache.H, AccessSingleLine), and a cache has as many sets as an access lines.
WordsAligned == \A r \in Refs, l \in Caches :
    Visits(r, l) /\ Single(r) => Tag(l, Begin(r)) = Tag(l, Last(r))
AccessesFit == \A r \in Refs, l \in Caches :
    Visits(r, l) => Tag(l, Last(r)) - Tag(l, Begin(r)) < Sets[l]

LEMMA RefEnds == \A r \in Refs : Begin(r) \in Nat /\ Last(r) \in Nat /\ Begin(r) <= Last(r)
BY RefType DEF Begin, Last

\* While an access goes on, the lines before the current one are in the cache.
Resident(x) == \E w \in Ways(level) : tags[level][x % Sets[level]][w] = x
Walking ==
    /\ pc # "idle" => Visits(ref, level)
    /\ pc = "line" => /\ Begin(ref) <= addr /\ addr <= Last(ref)
                      /\ Single(ref) => addr = Begin(ref)
LinesInv ==
    /\ TypedInv /\ Inv /\ Walking
    /\ pc = "line" => \A x \in Tag(level, Begin(ref)) .. Tag(level, addr) - 1 : Resident(x)
    /\ pc = "count" => \A x \in Tag(level, Begin(ref)) .. Tag(level, Last(ref)) : Resident(x)

\* A step from one line: where it leads.
LEMMA AdvanceStep ==
    ASSUME TypedInv, Walking, pc = "line", Advance
    PROVE  /\ Tag(level, addr') = Tag(level, addr) + 1 /\ addr < addr' /\ addr' \in Nat
           /\ level' = level /\ ref' = ref
           /\ \/ pc' = "line" /\ addr' <= Last(ref) /\ ~Single(ref)
              \/ /\ pc' = "count"
                 /\ Single(ref) \/ Tag(level, Last(ref)) <= Tag(level, addr)
<1> DEFINE n == LineSize[level]
           q == addr \div n
<1>1. n \in Nat \ {0} /\ addr \in Nat /\ ref \in Refs /\ level \in Caches
  BY GeometryType DEF TypedInv, Shape, Bounds
<1>2. q \in Nat /\ q * n <= addr /\ addr < q * n + n
  BY <1>1, Division, LineBounds
<1>3. addr' = (q + 1) * n /\ Tag(level, addr) = q
  BY DEF Advance, NextLine, Tag
<1>4. /\ level' = level /\ ref' = ref
      /\ pc' = IF ~Single(ref) /\ addr' < Begin(ref) + ref.size THEN "line" ELSE "count"
  BY DEF Advance, HighAddr, Begin
<1> HIDE DEF q, n
<1>5. (q + 1) * n = q * n + n /\ q * n \in Nat
  BY <1>1, <1>2, Product
<1>6. addr' \in Nat /\ addr < addr'
  BY <1>1, <1>2, <1>3, <1>5
<1>7. addr' \div n = q + 1
  <2>1. q + 1 \in Nat /\ (q + 1) * n <= addr' /\ addr' < (q + 1) * n + n
    BY <1>1, <1>2, <1>3, <1>6
  <2> QED BY <1>1, <1>6, <2>1, LineUnique
<1>8. Tag(level, addr') = q + 1
  BY <1>7 DEF Tag, n
<1>9. Last(ref) \in Nat /\ Last(ref) = Begin(ref) + ref.size - 1
  BY <1>1, RefEnds DEF Last
<1>10. addr' > Last(ref) => Tag(level, Last(ref)) <= q
  <2> SUFFICES ASSUME addr' > Last(ref) PROVE Tag(level, Last(ref)) <= q
    OBVIOUS
  <2> DEFINE k == Last(ref) \div n
  <2>1. k \in Nat /\ k * n <= Last(ref) /\ k * n \in Nat
    BY <1>1, <1>9, Division, LineBounds, Product
  <2>2. CASE k >= q + 1
    <3> HIDE DEF k
    <3>1. (k - q) * n >= n
      BY <1>1, <1>2, <2>1, <2>2, Multiple
    <3>2. (k - q) * n = k * n - q * n
      BY <1>1, <1>2, <2>1
    <3> QED BY <1>1, <1>3, <1>5, <1>9, <2>1, <3>1, <3>2
  <2>3. Tag(level, Last(ref)) = k
    BY DEF Tag, n
  <2> HIDE DEF k
  <2> QED BY <1>2, <2>1, <2>2, <2>3
<1>11. ref.size \in Nat /\ Begin(ref) \in Nat
  BY <1>1, RefType, RefEnds
<1>12. addr' < Begin(ref) + ref.size <=> addr' <= Last(ref)
  BY <1>6, <1>9, <1>11
<1> QED BY <1>3, <1>4, <1>6, <1>8, <1>9, <1>10, <1>12
\* The walk from line to line, whatever the sets hold.
LEMMA WalkStep == ASSUME TypedInv, Walking, [Next]_vars PROVE Walking'
<1>0. ref \in Refs /\ level \in Caches
  BY DEF TypedInv, Shape
<1>1. CASE UNCHANGED vars
  BY <1>1 DEF vars, Walking
<1>2. CASE Handler
  BY <1>2 DEF Handler, Walking
<1>3. ASSUME NEW r \in Refs, Call(r) PROVE Walking'
  <2>1. pc' = "line" /\ level' = FirstLevel(r) /\ addr' = Begin(r) /\ ref' = r
    BY <1>3 DEF Call, Enter, Begin
  <2> QED BY <2>1, RefEnds DEF Walking, Visits
<1>4. CASE LineHit \/ LineMiss
  <2>1. pc = "line" /\ Advance
    BY <1>4 DEF LineHit, LineMiss
  <2>2. addr \in Nat /\ Begin(ref) \in Nat
    BY <1>0, RefEnds DEF TypedInv, Bounds
  <2> QED BY <2>1, <2>2, AdvanceStep DEF Walking
<1>5. CASE Count
  <2>1. /\ pc = "count" /\ ref' = ref
        /\ \/ GoesToDL2 /\ pc' = "line" /\ level' = "dl2" /\ addr' = ref.addr
           \/ pc' = "idle" /\ level' = level
    BY <1>5 DEF Count, CountIn, Enter
  <2>2. GoesToDL2 => ref.kind # "inst" /\ Begin(ref) = ref.addr
    BY <2>1 DEF GoesToDL2, Walking, Visits, FirstLevel, Begin
  <2> QED BY <1>0, <2>1, <2>2, RefEnds DEF Walking, Visits
<1> QED BY <1>1, <1>2, <1>3, <1>4, <1>5 DEF Next

\* One line: it is in the cache afterwards, and no line of the access was lost.
LEMMA FillStep ==
    ASSUME AccessesFit, LinesInv, LineHit \/ LineMiss,
           NEW x \in Tag(level, Begin(ref)) .. Tag(level, addr)
    PROVE  \E w \in Ways(level) : tags'[level][x % Sets[level]][w] = x
<1> DEFINE l == level
           y == Tag(l, addr)
<1>1. l \in Caches /\ addr \in Nat /\ ref \in Refs /\ pc = "line" /\ TypedInv
  BY DEF LinesInv, TypedInv, Shape, Bounds, LineHit, LineMiss
<1>2. y \in Nat /\ Tag(l, Begin(ref)) \in Nat /\ Sets[l] \in Nat \ {0} /\ x \in Nat
  <2>1. Begin(ref) \in Nat
    BY <1>1, RefEnds
  <2>2. y \in Nat /\ Tag(l, Begin(ref)) \in Nat /\ Sets[l] \in Nat \ {0}
    BY <1>1, <2>1, GeometryType
  <2> QED BY <2>2
<1>3. Set = y % Sets[l] /\ Set \in 0 .. Sets[l] - 1
  <2>1. Set = y % Sets[l]
    BY DEF Set, SetIndex
  <2> QED BY <1>2, <2>1, Division
<1>4. x # y => x % Sets[l] # y % Sets[l]
  <2> SUFFICES ASSUME x # y PROVE x % Sets[l] # y % Sets[l]
    OBVIOUS
  <2>1. y <= Tag(l, Last(ref))
    <3>1. addr <= Last(ref) /\ Last(ref) \in Nat
      BY <1>1, RefEnds DEF LinesInv, Walking
    <3>2. LineSize[l] \in Nat \ {0}
      BY <1>1, GeometryType
    <3> QED BY <1>1, <3>1, <3>2, LineMono DEF Tag
  <2>2. Tag(l, Last(ref)) - Tag(l, Begin(ref)) < Sets[l] /\ Tag(l, Last(ref)) \in Nat
    <3>1. Visits(ref, l)
      BY <1>1 DEF LinesInv, Walking
    <3>2. Last(ref) \in Nat
      BY <1>1, RefEnds
    <3> QED BY <1>1, <3>1, <3>2, GeometryType DEF AccessesFit
  <2>3. x < y /\ y - x < Sets[l]
    BY <1>2, <2>1, <2>2
  <2> QED BY <1>2, <2>3, SetsDiffer
<1>5. x # y => \E w \in Ways(l) : tags[l][x % Sets[l]][w] = x
  BY <1>1, <1>2 DEF LinesInv, Resident
<1>6. x % Sets[l] \in 0 .. Sets[l] - 1
  BY <1>2, Division
<1> HIDE DEF y
<1>7. CASE LineHit
  <2>1. tags' = tags /\ WaysHolding # {}
    BY <1>7 DEF LineHit
  <2>2. \E w \in Ways(l) : tags[l][y % Sets[l]][w] = y
    BY <1>3, <2>1 DEF WaysHolding, y
  <2> QED BY <1>5, <2>1, <2>2
<1>8. CASE LineMiss
  <2> DEFINE v == next[l][Set]
  <2>1. tags' = [tags EXCEPT ![l][Set][v] = y]
    BY <1>8 DEF LineMiss, Allocates, y
  <2>2. /\ DOMAIN tags = Caches /\ tags[l] \in [0..(Sets[l] - 1) -> [Ways(l) -> Nat]]
        /\ v \in Ways(l)
    BY <1>1, <1>3 DEF TypedInv, Extents
  <2> HIDE DEF v, l
  <2>3. tags'[l][Set][v] = y
    BY <1>1, <1>3, <2>1, <2>2
  <2>4. x # y => tags'[l][x % Sets[l]] = tags[l][x % Sets[l]]
    BY <1>1, <1>3, <1>4, <1>6, <2>1, <2>2
  <2>5. \E w \in Ways(l) : tags'[l][x % Sets[l]][w] = x
    BY <1>3, <1>5, <2>2, <2>3, <2>4
  <2> QED BY <2>5 DEF l
<1> QED BY <1>7, <1>8

LEMMA StepLines == ASSUME WordsAligned, AccessesFit, LinesInv, [Next]_vars PROVE LinesInv'
<1>1. TypedInv /\ Inv /\ Walking /\ (TypedInv /\ Inv /\ Walking)'
  BY StepTyped, StepInv, WalkStep DEF LinesInv
<1>2. CASE UNCHANGED vars \/ Handler
  <2>1. UNCHANGED <<tags, pc, level, addr, ref>>
    BY <1>2 DEF vars, Handler
  <2> QED BY <1>1, <2>1 DEF LinesInv, Resident
<1>3. CASE \E r \in Refs : Call(r)
  <2>1. pc' = "line" /\ addr' = Begin(ref)' /\ level' \in Caches /\ ref' \in Refs
    BY <1>1, <1>3 DEF Call, Enter, Begin, TypedInv, Shape
  <2>2. Tag(level', addr') \in Nat /\ Tag(level', addr') = Tag(level, Begin(ref))'
    BY <1>1, <2>1, GeometryType DEF TypedInv, Bounds
  <2> QED BY <1>1, <2>1, <2>2 DEF LinesInv
<1>4. CASE LineHit \/ LineMiss
  <2> DEFINE Kept(x) == \E w \in Ways(level) : tags'[level][x % Sets[level]][w] = x
  <2>1. \A x \in Tag(level, Begin(ref)) .. Tag(level, addr) : Kept(x)
    BY <1>4, FillStep
  <2>2. pc = "line" /\ Advance
    BY <1>4 DEF LineHit, LineMiss
  <2>3. /\ Tag(level, addr') = Tag(level, addr) + 1
        /\ level' = level /\ ref' = ref
        /\ \/ pc' = "line"
           \/ pc' = "count" /\ (Single(ref) \/ Tag(level, Last(ref)) <= Tag(level, addr))
    BY <1>1, <2>2, AdvanceStep
  <2>4. /\ Tag(level, addr) \in Nat /\ Tag(level, Last(ref)) \in Nat /\ ref \in Refs
        /\ level \in Caches
    BY <1>1, GeometryType, RefEnds DEF TypedInv, Shape, Bounds
  <2>6. \A x : Resident(x)' <=> Kept(x)
    BY <2>3 DEF Resident
  <2> HIDE DEF Kept
  <2>7. CASE pc' = "line"
    <3>1. Tag(level, addr') - 1 = Tag(level, addr)
      BY <2>3, <2>4
    <3>2. \A x \in Tag(level, Begin(ref)) .. Tag(level, addr') - 1 : Resident(x)'
      BY <2>1, <2>6, <3>1
    <3> QED BY <1>1, <2>3, <2>7, <3>2 DEF LinesInv, Begin
  <2>8. CASE pc' = "count"
    <3>1. Tag(level, Last(ref)) <= Tag(level, addr)
      <4>1. Single(ref) => Tag(level, Last(ref)) = Tag(level, addr)
        BY <1>1, <2>2, <2>4 DEF WordsAligned, Walking
      <4> QED BY <2>3, <2>4, <2>8, <4>1
    <3>2. \A x \in Tag(level, Begin(ref)) .. Tag(level, Last(ref)) :
              x \in Tag(level, Begin(ref)) .. Tag(level, addr)
      BY <2>4, <3>1
    <3>3. \A x \in Tag(level, Begin(ref)) .. Tag(level, Last(ref)) : Resident(x)'
      BY <2>1, <2>6, <3>2
    <3> QED BY <1>1, <2>3, <2>8, <3>3 DEF LinesInv, Begin, Last
  <2> QED BY <2>3, <2>7, <2>8
<1>5. CASE Count
  <2>1. /\ pc = "count" /\ ref' = ref
        /\ \/ GoesToDL2 /\ pc' = "line" /\ level' = "dl2" /\ addr' = ref.addr
           \/ pc' = "idle"
    BY <1>5 DEF Count, CountIn, Enter
  <2>2. CASE pc' = "line"
    <3>1. level' \in Caches /\ addr' = Begin(ref)' /\ addr' \in Nat
      BY <1>1, <2>1, <2>2 DEF GoesToDL2, Walking, Visits, FirstLevel, Begin, TypedInv, Shape,
                              Bounds
    <3>2. Tag(level', addr') \in Nat /\ Tag(level', addr') = Tag(level, Begin(ref))'
      BY <3>1, GeometryType
    <3> QED BY <1>1, <2>2, <3>2 DEF LinesInv
  <2>3. CASE pc' = "idle"
    BY <1>1, <2>3 DEF LinesInv
  <2> QED BY <2>1, <2>2, <2>3
<1> QED BY <1>2, <1>3, <1>4, <1>5 DEF Next

(* Every line that an access covers is in the cache when the access to it is  *)
(* over: an access brings in its lines one by one and none of them replaces   *)
(* another.                                                                   *)
THEOREM LinesStayResident ==
    ASSUME WordsAligned, AccessesFit PROVE Spec => []AccessedLinesResident
<1>1. LinesInv => AccessedLinesResident
  BY DEF LinesInv, AccessedLinesResident, Resident, LinesOf, Base, Begin, Last
<1>2. Init => LinesInv
  <2>1. Init => pc = "idle"
    BY DEF Init
  <2> QED BY <2>1, InitTyped, InitInv DEF LinesInv, Walking
<1>3. LinesInv /\ [Next]_vars => LinesInv'
  BY StepLines
<1> QED BY <1>1, <1>2, <1>3, PTL DEF Spec
-----------------------------------------------------------------------------
(* The numbers of the report.  A longest access exists, as the size of an     *)
(* access is that of an instruction or of its operand; the modulus of an      *)
(* instruction address, 2^32, is a multiple of the line size, a power of 2.   *)
LongestExists ==
    \A l \in Caches : \E r \in Refs : \A q \in Refs : Span(l, q) <= Span(l, r)
ModulusAligned == \E k \in Nat : AddrMod = k * LineSize["il1"]

Longest(l) == CHOOSE r \in Refs : \A q \in Refs : Span(l, q) <= Span(l, r)
MaxSpan(l) == Span(l, Longest(l))

\* The lines the access has gone through; when it is over, no more than it spans.
LinesSoFar == Tag(level, addr) - Tag(level, Begin(ref))
FillBalance == \A l \in Caches :
    evicted[l] <= MaxSpan(l) * Misses(l) + (IF Missed(l) = 1 THEN LinesSoFar ELSE 0)
FillInv ==
    /\ TypedInv /\ Inv /\ Walking /\ FillBalance
    /\ pc = "count" => LinesSoFar <= MaxSpan(level)

LEMMA LineShift ==
    ASSUME NEW n \in Nat \ {0}, NEW a \in Nat, NEW k \in Nat
    PROVE  (a + k * n) \div n = a \div n + k
<1> DEFINE d == a \div n
<1>1. d \in Nat /\ d * n <= a /\ a < d * n + n
  BY Division, LineBounds
<1> HIDE DEF d
<1>2. (d + k) * n = d * n + k * n /\ k * n \in Nat /\ d * n \in Nat
  BY <1>1, Product
<1>3. d + k \in Nat /\ a + k * n \in Nat
  BY <1>1, <1>2
<1>4. (d + k) * n <= a + k * n /\ a + k * n < (d + k) * n + n
  BY <1>1, <1>2
<1>5. (a + k * n) \div n = d + k
  BY <1>3, <1>4, LineUnique
<1> QED BY <1>5 DEF d

\* An access spans the lines from that of its first to that of its last byte.
LEMMA SpanOfVisit ==
    ASSUME ModulusAligned, NEW r \in Refs, NEW l \in Caches, Visits(r, l)
    PROVE  Span(l, r) = Tag(l, Last(r)) - Tag(l, Begin(r)) + 1
<1>1. CASE r.kind # "inst"
  BY <1>1 DEF Span, Tag, Last, Begin
<1>2. CASE r.kind = "inst"
  <2>1. l = "il1"
    BY <1>2 DEF Visits, FirstLevel
  <2> DEFINE n == LineSize[l]
             b == r.addr % AddrMod
             q == r.addr \div AddrMod
  <2>2. n \in Nat \ {0} /\ AddrMod \in Nat \ {0}
    BY GeometryType, CacheAssumption
  <2>3. PICK k \in Nat : AddrMod = k * n
    BY <2>1 DEF ModulusAligned
  <2>4. r.addr \in Nat /\ r.size \in Nat \ {0} /\ b \in Nat /\ q \in Nat /\ q * AddrMod + b = r.addr
    BY <2>2, RefType, Division
  <2>5. Begin(r) = b /\ Last(r) = b + r.size - 1
    BY <1>2 DEF Begin, Last
  <2> HIDE DEF n, b, q
  <2> DEFINE j == q * k
  <2>6. j \in Nat /\ q * AddrMod = j * n
    BY <2>2, <2>3, <2>4, Product
  <2> HIDE DEF j
  <2>7. r.addr = b + j * n /\ r.addr + r.size - 1 = (b + r.size - 1) + j * n
    <3>1. j * n \in Nat
      BY <2>2, <2>6, Product
    <3> QED BY <2>4, <2>6, <3>1
  <2>8. r.addr \div n = b \div n + j
    <3>1. (b + j * n) \div n = b \div n + j
      BY <2>2, <2>4, <2>6, LineShift
    <3> QED BY <2>7, <3>1
  <2>9. (r.addr + r.size - 1) \div n = (b + r.size - 1) \div n + j
    <3> DEFINE e == b + r.size - 1
    <3>1. e \in Nat
      BY <2>4
    <3> HIDE DEF e
    <3>2. (e + j * n) \div n = e \div n + j
      BY <2>2, <2>6, <3>1, LineShift
    <3> QED BY <2>7, <3>2 DEF e
  <2>10. b \div n \in Nat /\ (b + r.size - 1) \div n \in Nat
    <3>1. b + r.size - 1 \in Nat
      BY <2>4
    <3> QED BY <2>2, <2>4, <3>1, Division
  <2>11. Span(l, r) = (r.addr + r.size - 1) \div n - r.addr \div n + 1
    BY DEF Span, n
  <2>12. Tag(l, Last(r)) = (b + r.size - 1) \div n /\ Tag(l, Begin(r)) = b \div n
    BY <2>5 DEF Tag, n
  <2> QED BY <2>6, <2>8, <2>9, <2>10, <2>11, <2>12
<1> QED BY <1>1, <1>2

LEMMA LongestSpan ==
    ASSUME LongestExists, NEW l \in Caches
    PROVE  /\ Longest(l) \in Refs /\ \A q \in Refs : Span(l, q) <= MaxSpan(l)
           /\ MaxSpan(l) \in Nat
<1>1. \E r \in Refs : \A q \in Refs : Span(l, q) <= Span(l, r)
  BY DEF LongestExists
<1>2. Longest(l) \in Refs /\ \A q \in Refs : Span(l, q) <= MaxSpan(l)
  BY <1>1 DEF Longest, MaxSpan
<1>3. ASSUME NEW r \in Refs PROVE Span(l, r) \in Nat
  <2>1. r.addr \in Nat /\ r.addr + r.size - 1 \in Nat /\ r.addr <= r.addr + r.size - 1
    BY RefType
  <2>2. LineSize[l] \in Nat \ {0}
    BY GeometryType
  <2>3. /\ r.addr \div LineSize[l] \in Nat /\ (r.addr + r.size - 1) \div LineSize[l] \in Nat
        /\ r.addr \div LineSize[l] <= (r.addr + r.size - 1) \div LineSize[l]
    BY <2>1, <2>2, Division, LineMono
  <2> QED BY <2>3 DEF Span
<1>4. MaxSpan(l) \in Nat
  BY <1>2, <1>3 DEF MaxSpan
<1> QED BY <1>2, <1>4

LEMMA NextMultiple == ASSUME NEW m \in Nat, NEW k \in Nat
                      PROVE  m * (k + 1) = m * k + m /\ m * k \in Nat
OBVIOUS

LEMMA StepFill == ASSUME LongestExists, ModulusAligned, FillInv, [Next]_vars PROVE FillInv'
<1>1. TypedInv /\ Inv /\ Walking /\ (TypedInv /\ Inv /\ Walking)'
  BY StepTyped, StepInv, WalkStep DEF FillInv
<1>2. \A l \in Caches : Misses(l) \in Nat /\ MaxSpan(l) \in Nat /\ MaxSpan(l) * Misses(l) \in Nat
  <2> TAKE l \in Caches
  <2>1. Misses(l) \in Nat
    BY <1>1 DEF Inv, Shape, Misses, Types, Outcomes
  <2>2. MaxSpan(l) \in Nat
    BY LongestSpan
  <2> QED BY <2>1, <2>2, Product
<1>3. CASE UNCHANGED vars \/ Handler
  <2>1. UNCHANGED <<access, evicted, pc, level, addr, ref, recording, allHit>>
    BY <1>3 DEF vars, stats, Handler
  <2>2. /\ LinesSoFar' = LinesSoFar
        /\ \A l \in Caches : Misses(l)' = Misses(l) /\ Missed(l)' = Missed(l)
    BY <2>1 DEF LinesSoFar, Misses, Missed
  <2>3. FillBalance'
    BY <2>1, <2>2 DEF FillInv, FillBalance
  <2> QED BY <1>1, <2>1, <2>2, <2>3 DEF FillInv
<1>4. CASE \E r \in Refs : Call(r)
  <2>1. pc = "idle" /\ pc' = "line" /\ allHit' = TRUE /\ UNCHANGED <<access, evicted>>
    BY <1>4 DEF Call, Enter, stats
  <2>2. \A l \in Caches : Misses(l)' = Misses(l) /\ Missed(l)' = 0 /\ Missed(l) = 0
    BY <2>1 DEF Misses, Missed
  <2>3. FillBalance'
    BY <2>1, <2>2 DEF FillInv, FillBalance
  <2> QED BY <1>1, <2>1, <2>3 DEF FillInv
<1>5. CASE LineHit \/ LineMiss
  <2>1. pc = "line" /\ Advance
    BY <1>5 DEF LineHit, LineMiss
  <2>2. UNCHANGED <<access, level, ref, recording>> /\ pc' # "idle"
    BY <2>1 DEF Advance
  <2>3. Tag(level, addr') = Tag(level, addr) + 1
    BY <1>1, <2>1, AdvanceStep
  <2>4. /\ Tag(level, addr) \in Nat /\ Tag(level, Begin(ref)) \in Nat
        /\ Tag(level, Last(ref)) \in Nat /\ ref \in Refs /\ level \in Caches
    BY <1>1, GeometryType, RefEnds DEF TypedInv, Shape, Bounds
  <2>5. /\ Tag(level, Begin(ref)) <= Tag(level, addr)
        /\ Tag(level, addr) <= Tag(level, Last(ref))
    <3>1. /\ Begin(ref) <= addr /\ addr <= Last(ref) /\ addr \in Nat
          /\ Begin(ref) \in Nat /\ Last(ref) \in Nat
      BY <1>1, <2>1, <2>4, RefEnds DEF Walking, TypedInv, Bounds
    <3>2. LineSize[level] \in Nat \ {0}
      BY <2>4, GeometryType
    <3> QED BY <3>1, <3>2, LineMono DEF Tag
  <2>6. LinesSoFar' = LinesSoFar + 1 /\ LinesSoFar \in Nat
    BY <2>2, <2>3, <2>4, <2>5 DEF LinesSoFar, Begin
  <2>7. LinesSoFar' <= MaxSpan(level)
    <3>1. Span(level, ref) = Tag(level, Last(ref)) - Tag(level, Begin(ref)) + 1
      BY <1>1, <2>1, <2>4, SpanOfVisit DEF Walking
    <3>2. Span(level, ref) <= MaxSpan(level)
      BY <2>4, LongestSpan
    <3>3. LinesSoFar + 1 <= Span(level, ref)
      BY <2>4, <2>5, <3>1 DEF LinesSoFar
    <3>4. Span(level, ref) \in Int /\ MaxSpan(level) \in Nat
      BY <1>2, <2>4, <3>1
    <3> QED BY <2>6, <3>2, <3>3, <3>4
  <2>8. /\ LineHit => UNCHANGED <<evicted, allHit>>
        /\ LineMiss => /\ allHit' = FALSE
                       /\ evicted' = IF recording THEN [evicted EXCEPT ![level] = @ + 1] ELSE evicted
    BY <1>1 DEF LineHit, LineMiss, Allocates, AllHitWith, Inv, Shape
  <2>9. ASSUME NEW l \in Caches
        PROVE  evicted'[l] <= MaxSpan(l) * Misses(l)' +
                                  (IF Missed(l)' = 1 THEN LinesSoFar' ELSE 0)
    <3> DEFINE mm == MaxSpan(l) * Misses(l)
    <3>1. Misses(l)' = Misses(l)
      BY <2>2 DEF Misses
    <3>2. evicted[l] <= mm + (IF Missed(l) = 1 THEN LinesSoFar ELSE 0) /\ evicted[l] \in Nat
          /\ mm \in Nat
      BY <1>1, <1>2 DEF FillInv, FillBalance, Inv, Shape
    <3>3. /\ Missed(l) = 1 <=> level = l /\ recording /\ ~allHit
          /\ Missed(l)' = 1 <=> level = l /\ recording /\ ~allHit'
      BY <2>1, <2>2 DEF Missed
    <3> HIDE DEF mm
    <3>4. evicted'[l] <= mm + (IF Missed(l)' = 1 THEN LinesSoFar' ELSE 0)
      <4>1. CASE LineHit
        BY <2>6, <2>8, <3>2, <3>3, <4>1
      <4>2. CASE LineMiss
        <5>1. CASE level = l /\ recording
          <6>1. evicted'[l] = evicted[l] + 1 /\ Missed(l)' = 1
            BY <1>1, <2>8, <3>3, <4>2, <5>1 DEF Inv, Shape
          <6> QED BY <2>6, <3>2, <6>1
        <5>2. CASE ~(level = l /\ recording)
          <6>1. evicted'[l] = evicted[l] /\ Missed(l)' # 1 /\ Missed(l) # 1
            BY <1>1, <2>8, <3>3, <4>2, <5>2 DEF Inv, Shape
          <6> QED BY <3>2, <6>1
        <5> QED BY <5>1, <5>2
      <4> QED BY <1>5, <4>1, <4>2
    <3> QED BY <3>1, <3>4 DEF mm
  <2>10. FillBalance'
    BY <2>9 DEF FillBalance, MaxSpan, Longest, Span
  <2>11. (LinesSoFar <= MaxSpan(level))'
    BY <2>2, <2>7 DEF MaxSpan, Longest, Span
  <2> QED BY <1>1, <2>10, <2>11 DEF FillInv
<1>6. CASE Count
  <2> DEFINE ty == AccessType(ref)
  <2>1. /\ pc = "count" /\ UNCHANGED <<evicted, ref>> /\ pc' \in {"line", "idle"}
        /\ pc' = "line" => allHit' = TRUE
        /\ access' = IF recording THEN [access EXCEPT ![level][ty][Outcome(allHit)] = @ + 1]
                                  ELSE access
    BY <1>6 DEF Count, CountIn, Enter
  <2>2. level \in Caches /\ ty \in Types /\ Outcome(allHit) \in Outcomes /\ ref \in Refs
    BY <1>1, KindOfAccess DEF Inv, Shape, Outcome, Outcomes
  <2> HIDE DEF ty
  <2>3. ASSUME NEW l \in Caches
        PROVE  evicted'[l] <= MaxSpan(l) * Misses(l)' + (IF Missed(l)' = 1 THEN LinesSoFar' ELSE 0)
    <3> DEFINE mm == MaxSpan(l) * Misses(l)
    <3>1. evicted[l] <= mm + (IF Missed(l) = 1 THEN LinesSoFar ELSE 0) /\ evicted[l] \in Nat
          /\ mm \in Nat /\ MaxSpan(l) \in Nat /\ Misses(l) \in Nat
      BY <1>1, <1>2 DEF FillInv, FillBalance, Inv, Shape
    <3>2. Missed(l)' = 0
      BY <2>1 DEF Missed
    <3>3. Missed(l) = 1 <=> level = l /\ recording /\ ~allHit
      BY <2>1 DEF Missed
    <3>4. Misses(l)' = Misses(l) + IF level = l /\ recording /\ ~allHit THEN 1 ELSE 0
      BY <1>1, <2>1, <2>2 DEF Misses, Types, Outcomes, Outcome, Inv, Shape
    <3>5. CASE Missed(l) = 1
      <4>1. Misses(l)' = Misses(l) + 1
        BY <1>2, <3>3, <3>4, <3>5
      <4>2. MaxSpan(l) * Misses(l)' = mm + MaxSpan(l)
        BY <3>1, <4>1, NextMultiple
      <4>3. LinesSoFar <= MaxSpan(l)
        BY <2>1, <3>3, <3>5 DEF FillInv
      <4>4. LinesSoFar \in Int
        <5>1. addr \in Nat /\ Begin(ref) \in Nat
          BY <1>1, <2>2, RefEnds DEF TypedInv, Bounds
        <5>2. Tag(level, addr) \in Nat /\ Tag(level, Begin(ref)) \in Nat
          BY <2>2, <5>1, GeometryType
        <5> QED BY <5>2 DEF LinesSoFar
      <4> HIDE DEF mm
      <4> QED BY <2>1, <3>1, <3>2, <3>5, <4>2, <4>3, <4>4
    <3>6. CASE Missed(l) # 1
      <4>1. Misses(l)' = Misses(l)
        BY <1>2, <3>3, <3>4, <3>6
      <4>2. MaxSpan(l) * Misses(l)' = mm
        BY <4>1
      <4> HIDE DEF mm
      <4> QED BY <2>1, <3>1, <3>2, <3>6, <4>2
    <3> QED BY <3>5, <3>6
  <2>4. FillBalance'
    BY <2>3 DEF FillBalance, MaxSpan, Longest, Span
  <2> QED BY <1>1, <2>1, <2>4 DEF FillInv
<1> QED BY <1>3, <1>4, <1>5, <1>6 DEF Next
\* What a cache has counted beyond its instructions. The miss of dl1 is counted
\* when dl1 is over and charged to the instruction when dl2 is.
Beyond(p, o) == (access[p]["load"][o] + access[p]["store"][o]) - profile[p][o]
Uncharged(p, o) == pc # "idle" /\ level = "dl2" /\ p = "dl1" /\ o = "miss"
Charge(p, o) == IF Uncharged(p, o) /\ recording THEN 1 ELSE 0
ProfileBalance == \A p \in {"il1", "dl1"}, o \in Outcomes :
    IF Uncharged(p, o) /\ torn
    THEN -(tears - 1) <= Beyond(p, o) /\ Beyond(p, o) <= tears
    ELSE -Slack <= Beyond(p, o) - Charge(p, o) /\ Beyond(p, o) - Charge(p, o) <= Slack
ProfileInv == TypedInv /\ Inv /\ Walking /\ ProfileBalance

LEMMA BeyondType ==
    ASSUME TypedInv, Inv, NEW p \in {"il1", "dl1"}, NEW o \in Outcomes
    PROVE  Beyond(p, o) \in Int /\ tears \in Nat /\ Slack \in Int
<1>1. access[p]["load"][o] \in Nat /\ access[p]["store"][o] \in Nat /\ profile[p][o] \in Nat
  BY CacheNames DEF TypedInv, Tallies, Inv, Shape, Types
<1>2. tears \in Nat
  BY DEF Inv, Shape
<1> QED BY <1>1, <1>2 DEF Beyond, Slack

LEMMA CountProfile ==
    ASSUME Track = Kinds, ProfileInv, Count, NEW p \in {"il1", "dl1"}, NEW o \in Outcomes
    PROVE  (IF Uncharged(p, o) /\ torn
            THEN -(tears - 1) <= Beyond(p, o) /\ Beyond(p, o) <= tears
            ELSE -Slack <= Beyond(p, o) - Charge(p, o) /\ Beyond(p, o) - Charge(p, o) <= Slack)'
<1> DEFINE ty == AccessType(ref)
           f == FirstLevel(ref)
           D == Beyond(p, o)
<1>1. TypedInv /\ Inv /\ Walking /\ pc = "count" /\ tears' = tears /\ doTrace' = doTrace
  BY DEF ProfileInv, Count, CountIn
<1>2. access' = IF recording THEN [access EXCEPT ![level][ty][Outcome(allHit)] = @ + 1] ELSE access
  BY DEF Count, CountIn
<1>3. \/ /\ GoesToDL2 /\ pc' = "line" /\ level' = "dl2" /\ recording' = doTrace
         /\ UNCHANGED <<profile, torn>>
      \/ /\ ~GoesToDL2 /\ pc' = "idle" /\ torn' = FALSE
         /\ profile' = IF doTrace /\ ref.kind \in Track
                       THEN [profile EXCEPT ![f][Outcome(FirstLevelHit)] = @ + 1]
                       ELSE profile
  BY DEF Count, CountIn, Enter
<1>4. /\ level \in Caches /\ ty \in Types /\ Outcome(allHit) \in Outcomes /\ ref \in Refs
      /\ Outcome(FirstLevelHit) \in Outcomes /\ f \in {"il1", "dl1"} /\ p \in Caches
  BY <1>1, KindOfAccess, CacheNames DEF Inv, Shape, Outcome, Outcomes, FirstLevel
<1>5. ref.kind \in Track
  <2>1. ref \in [kind : Kinds, addr : Nat, size : Nat \ {0}]
    BY <1>4, CacheAssumption
  <2> QED BY <2>1
<1>6. level # "dl2" => f = level
  BY <1>1 DEF Walking, Visits
<1>7. level = "dl2" => f = "dl1"
  BY <1>1 DEF Walking, Visits, FirstLevel
<1>8. /\ D \in Int /\ tears \in Nat /\ Slack \in Int
      /\ Slack = IF torn THEN tears - 1 ELSE tears
      /\ torn \in BOOLEAN /\ recording \in BOOLEAN /\ doTrace \in BOOLEAN
      /\ ~torn => recording = doTrace
  BY <1>1, BeyondType DEF Slack, Inv, Shape, Seam
<1>9. IF Uncharged(p, o) /\ torn THEN -(tears - 1) <= D /\ D <= tears
      ELSE -Slack <= D - Charge(p, o) /\ D - Charge(p, o) <= Slack
  BY DEF ProfileInv, ProfileBalance
<1> DEFINE up == IF recording /\ level = p /\ Outcome(allHit) = o THEN 1 ELSE 0
           down == IF ~GoesToDL2 /\ doTrace /\ f = p /\ Outcome(FirstLevelHit) = o THEN 1 ELSE 0
<1>10. D' = D + up - down
  <2>1. /\ access[p]["load"][o] \in Nat /\ access[p]["store"][o] \in Nat /\ profile[p][o] \in Nat
    BY <1>1, <1>4 DEF TypedInv, Tallies, Inv, Shape, Types
  <2> HIDE DEF ty, f
  <2>2. access'[p]["load"][o] + access'[p]["store"][o] =
            access[p]["load"][o] + access[p]["store"][o] + up
    <3>1. CASE recording
      <4>1. \A k \in Types : access'[p][k][o] = access[p][k][o] +
                IF level = p /\ k = ty /\ Outcome(allHit) = o THEN 1 ELSE 0
        BY <1>1, <1>2, <1>4, <3>1 DEF Inv, Shape
      <4>2. ty = "load" \/ ty = "store"
        BY <1>4 DEF Types
      <4> QED BY <2>1, <3>1, <4>1, <4>2 DEF Types
    <3>2. CASE ~recording
      BY <1>2, <2>1, <3>2
    <3> QED BY <3>1, <3>2
  <2>3. profile'[p][o] = profile[p][o] + down
    <3>1. CASE GoesToDL2
      BY <1>3, <2>1, <3>1
    <3>2. CASE ~GoesToDL2 /\ doTrace
      <4>1. profile' = [profile EXCEPT ![f][Outcome(FirstLevelHit)] = @ + 1]
        BY <1>3, <1>5, <3>2
      <4> QED BY <1>1, <1>4, <2>1, <3>2, <4>1 DEF TypedInv, Tallies
    <3>3. CASE ~GoesToDL2 /\ ~doTrace
      BY <1>3, <2>1, <3>3
    <3> QED BY <3>1, <3>2, <3>3
  <2> HIDE DEF up, down
  <2>4. up \in Int /\ down \in Int
    BY DEF up, down
  <2>5. D' = (access'[p]["load"][o] + access'[p]["store"][o]) - profile'[p][o]
    BY DEF Beyond
  <2>6. D = (access[p]["load"][o] + access[p]["store"][o]) - profile[p][o]
    BY DEF Beyond
  <2> HIDE DEF D
  <2> QED BY <2>1, <2>2, <2>3, <2>4, <2>5, <2>6
<1> HIDE DEF D, ty, f
<1>11. CASE GoesToDL2
  <2>1. level = "dl1" /\ ~allHit /\ Outcome(allHit) = "miss" /\ down = 0
    BY <1>11 DEF GoesToDL2, Outcome
  <2>2. Uncharged(p, o)' <=> p = "dl1" /\ o = "miss"
    BY <1>3, <1>11 DEF Uncharged
  <2>3. ~Uncharged(p, o) /\ Charge(p, o) = 0
    BY <2>1 DEF Uncharged, Charge
  <2>4. torn' = torn /\ Slack' = Slack /\ recording' = doTrace
    BY <1>1, <1>3, <1>11 DEF Slack
  <2>5. -Slack <= D /\ D <= Slack
    BY <1>8, <1>9, <2>3
  <2>6. CASE p = "dl1" /\ o = "miss"
    <3>1. D' = D + IF recording THEN 1 ELSE 0
      BY <1>8, <1>10, <2>1, <2>6
    <3>2. Charge(p, o)' = IF doTrace THEN 1 ELSE 0
      BY <2>2, <2>4, <2>6 DEF Charge
    <3> QED BY <1>1, <1>8, <2>2, <2>4, <2>5, <2>6, <3>1, <3>2 DEF D
  <2>7. CASE ~(p = "dl1" /\ o = "miss")
    <3>1. D' = D /\ Charge(p, o)' = 0
      BY <1>8, <1>10, <2>1, <2>2, <2>7 DEF Charge
    <3> QED BY <1>1, <1>8, <2>2, <2>4, <2>5, <2>7, <3>1 DEF D
  <2> QED BY <2>6, <2>7
<1>12. CASE ~GoesToDL2
  <2>1. /\ Slack' = tears /\ ~Uncharged(p, o)' /\ Charge(p, o)' = 0
    BY <1>1, <1>3, <1>12 DEF Slack, Uncharged, Charge
  <2>2. -tears <= D' /\ D' <= tears
    <3>1. CASE level = "dl2"
      <4>1. up = 0 /\ Outcome(FirstLevelHit) = "miss" /\ f = "dl1"
        BY <1>7, <3>1 DEF FirstLevelHit, Outcome
      <4>2. Uncharged(p, o) <=> p = "dl1" /\ o = "miss"
        BY <1>1, <3>1 DEF Uncharged
      <4>3. CASE p = "dl1" /\ o = "miss"
        <5>1. D' = D - (IF doTrace THEN 1 ELSE 0)
          BY <1>8, <1>10, <1>12, <4>1, <4>3
        <5>2. Charge(p, o) = IF recording THEN 1 ELSE 0
          BY <4>2, <4>3 DEF Charge
        <5> QED BY <1>8, <1>9, <4>2, <4>3, <5>1, <5>2
      <4>4. CASE ~(p = "dl1" /\ o = "miss")
        <5>1. D' = D /\ Charge(p, o) = 0
          BY <1>8, <1>10, <4>1, <4>2, <4>4 DEF Charge
        <5> QED BY <1>8, <1>9, <4>2, <4>4, <5>1
      <4> QED BY <4>3, <4>4
    <3>2. CASE level # "dl2"
      <4>1. f = level /\ Outcome(FirstLevelHit) = Outcome(allHit)
        BY <1>6, <3>2 DEF FirstLevelHit, Outcome
      <4>2. ~Uncharged(p, o) /\ Charge(p, o) = 0
        BY <3>2 DEF Uncharged, Charge
      <4>3. CASE level = p /\ Outcome(allHit) = o
        <5>1. D' = D + (IF recording THEN 1 ELSE 0) - (IF doTrace THEN 1 ELSE 0)
          BY <1>8, <1>10, <1>12, <4>1, <4>3
        <5> QED BY <1>8, <1>9, <4>2, <5>1
      <4>4. CASE ~(level = p /\ Outcome(allHit) = o)
        <5>1. D' = D
          BY <1>8, <1>10, <4>1, <4>4
        <5> QED BY <1>8, <1>9, <4>2, <5>1
      <4> QED BY <4>3, <4>4
    <3> QED BY <3>1, <3>2
  <2>3. up \in Int /\ down \in Int
    OBVIOUS
  <2> HIDE DEF up, down
  <2>4. D' \in Int
    BY <1>8, <1>10, <2>3
  <2> QED BY <1>1, <1>8, <2>1, <2>2, <2>4 DEF D
<1> QED BY <1>11, <1>12
LEMMA StepProfile == ASSUME Track = Kinds, ProfileInv, [Next]_vars PROVE ProfileInv'
<1>1. TypedInv /\ Inv /\ Walking /\ (TypedInv /\ Inv /\ Walking)'
  BY StepTyped, StepInv, WalkStep DEF ProfileInv
<1>2. SUFFICES ASSUME NEW p \in {"il1", "dl1"}, NEW o \in Outcomes
               PROVE  (IF Uncharged(p, o) /\ torn
                       THEN -(tears - 1) <= Beyond(p, o) /\ Beyond(p, o) <= tears
                       ELSE /\ -Slack <= Beyond(p, o) - Charge(p, o)
                            /\ Beyond(p, o) - Charge(p, o) <= Slack)'
  BY <1>1 DEF ProfileInv, ProfileBalance
<1>3. IF Uncharged(p, o) /\ torn THEN -(tears - 1) <= Beyond(p, o) /\ Beyond(p, o) <= tears
      ELSE -Slack <= Beyond(p, o) - Charge(p, o) /\ Beyond(p, o) - Charge(p, o) <= Slack
  BY DEF ProfileInv, ProfileBalance
<1>4. CASE UNCHANGED vars \/ LineHit \/ LineMiss
  <2>1. UNCHANGED <<access, profile, level, recording, torn, tears>> /\ (pc # "idle" <=> pc' # "idle")
    BY <1>4 DEF vars, stats, history, LineHit, LineMiss, Advance
  <2>2. /\ Beyond(p, o)' = Beyond(p, o) /\ (Uncharged(p, o)' <=> Uncharged(p, o))
        /\ Slack' = Slack
    BY <2>1 DEF Beyond, Uncharged, Slack
  <2>3. Charge(p, o)' = Charge(p, o)
    BY <2>1, <2>2 DEF Charge
  <2> QED BY <1>3, <2>1, <2>2, <2>3
<1>5. CASE \E r \in Refs : Call(r)
  <2>1. /\ UNCHANGED <<access, profile, torn, tears>> /\ level' \in {"il1", "dl1"} /\ pc = "idle"
    BY <1>5 DEF Call, Enter, stats, history, FirstLevel
  <2>2. ~Uncharged(p, o)' /\ ~Uncharged(p, o)
    BY <2>1 DEF Uncharged
  <2>3. Charge(p, o)' = 0 /\ Charge(p, o) = 0 /\ Slack' = Slack /\ Beyond(p, o)' = Beyond(p, o)
    BY <2>1, <2>2 DEF Charge, Slack, Beyond
  <2> QED BY <1>3, <2>2, <2>3
<1>6. CASE Handler
  <2>1. /\ UNCHANGED <<access, profile, pc, level, recording>> /\ torn' = (pc # "idle")
        /\ tears' = IF torn' /\ ~torn THEN tears + 1 ELSE tears
    BY <1>6 DEF Handler, stats
  <2>2. /\ Beyond(p, o)' = Beyond(p, o) /\ (Uncharged(p, o)' <=> Uncharged(p, o))
    BY <2>1 DEF Beyond, Uncharged
  <2>3. Charge(p, o)' = Charge(p, o) /\ Charge(p, o) \in {0, 1}
    BY <2>1, <2>2 DEF Charge
  <2>4. Beyond(p, o) \in Int /\ tears \in Nat
    BY <1>1, BeyondType
  <2>5. (torn => pc # "idle") /\ (Uncharged(p, o) => pc # "idle") /\ torn \in BOOLEAN
    BY <1>1 DEF Inv, Seam, Shape, Uncharged
  <2>6. ~Uncharged(p, o) => Charge(p, o) = 0
    BY DEF Charge
  <2>7. /\ Slack = IF torn THEN tears - 1 ELSE tears
        /\ Slack' = IF torn' THEN tears' - 1 ELSE tears'
    BY DEF Slack
  <2>8. CASE pc = "idle"
    BY <1>3, <2>1, <2>2, <2>3, <2>4, <2>5, <2>7, <2>8
  <2>9. CASE pc # "idle" /\ torn
    BY <1>3, <2>1, <2>2, <2>3, <2>4, <2>5, <2>7, <2>9
  <2>10. CASE pc # "idle" /\ ~torn
    <3>1. torn' /\ tears' = tears + 1 /\ Slack' = tears /\ Slack = tears
      <4>1. torn' <=> pc # "idle"
        BY <1>1, <2>1 DEF Inv, Shape
      <4>2. torn' /\ tears' = tears + 1
        BY <2>1, <2>10, <4>1
      <4> QED BY <2>4, <2>7, <2>10, <4>2
    <3>2. -tears <= Beyond(p, o) - Charge(p, o) /\ Beyond(p, o) - Charge(p, o) <= tears
      BY <1>3, <2>10, <3>1
    <3> QED BY <2>2, <2>3, <2>4, <2>6, <3>1, <3>2
  <2> QED BY <2>8, <2>9, <2>10
<1>7. CASE Count
  BY <1>7, CountProfile
<1> QED BY <1>4, <1>5, <1>6, <1>7 DEF Next

(* The numbers of the final report fit each other: misses and evictions, and  *)
(* the counters of the instructions and those of the caches.                  *)
THEOREM ReportFits ==
    ASSUME LongestExists, ModulusAligned PROVE Spec => []ReportAgrees
<1> DEFINE Both == FillInv /\ (Track = Kinds => ProfileInv)
<1>1. Both => ReportAgrees
  <2> SUFFICES ASSUME Both, pc = "idle" PROVE ReportAgrees
    BY DEF ReportAgrees, FillsBounded, ProfileAgrees
  <2>1. FillsBounded
    <3> SUFFICES ASSUME NEW l \in Caches
                 PROVE  \E r \in Refs : evicted[l] <= Span(l, r) * Misses(l)
      BY DEF FillsBounded
    <3>1. Missed(l) = 0 /\ Longest(l) \in Refs
      BY LongestSpan DEF Missed
    <3>2. Misses(l) \in Nat /\ MaxSpan(l) \in Nat /\ evicted[l] \in Nat
      BY LongestSpan DEF FillInv, Inv, Shape, Misses, Types, Outcomes
    <3>3. MaxSpan(l) * Misses(l) \in Nat
      BY <3>2, Product
    <3>4. evicted[l] <= MaxSpan(l) * Misses(l) + 0
      BY <3>1 DEF FillInv, FillBalance
    <3>5. evicted[l] <= MaxSpan(l) * Misses(l)
      BY <3>2, <3>3, <3>4
    <3> QED BY <3>1, <3>5 DEF MaxSpan
  <2>2. ProfileAgrees
    <3> SUFFICES ASSUME Track = Kinds, NEW p \in {"il1", "dl1"}
                 PROVE  /\ Within(profile[p]["hit"], Hits(p), tears)
                        /\ Within(profile[p]["miss"], Misses(p), tears)
      BY DEF ProfileAgrees
    <3>1. ASSUME NEW o \in Outcomes
          PROVE  Within(profile[p][o], access[p]["load"][o] + access[p]["store"][o], tears)
      <4>1. ~Uncharged(p, o) /\ Charge(p, o) = 0 /\ Slack = tears
        BY DEF Uncharged, Charge, Slack, ProfileInv, Inv, Seam
      <4>2. -tears <= Beyond(p, o) - 0 /\ Beyond(p, o) - 0 <= tears
        BY <4>1 DEF ProfileInv, ProfileBalance
      <4>3. /\ access[p]["load"][o] \in Nat /\ access[p]["store"][o] \in Nat
            /\ profile[p][o] \in Nat /\ tears \in Nat
        BY CacheNames DEF ProfileInv, TypedInv, Tallies, Inv, Shape, Types
      <4> QED BY <4>2, <4>3 DEF Beyond, Within
    <3> QED BY <3>1 DEF Hits, Misses, Outcomes
  <2> QED BY <2>1, <2>2 DEF ReportAgrees
<1>2. Init => Both
  <2> SUFFICES ASSUME Init PROVE Both
    OBVIOUS
  <2>1. TypedInv /\ Inv /\ Walking /\ pc = "idle"
    BY InitTyped, InitInv DEF Init, Walking
  <2>2. FillInv
    <3> SUFFICES ASSUME NEW l \in Caches
                 PROVE  evicted[l] <= MaxSpan(l) * Misses(l) + 0
      BY <2>1 DEF FillInv, FillBalance, Missed
    <3>1. evicted[l] = 0
      BY DEF Init
    <3>2. Misses(l) \in Nat /\ MaxSpan(l) \in Nat
      BY <2>1, LongestSpan DEF Inv, Shape, Misses, Types, Outcomes
    <3> QED BY <3>1, <3>2, Product
  <2>3. ProfileInv
    <3> SUFFICES ASSUME NEW p \in {"il1", "dl1"}, NEW o \in Outcomes
                 PROVE  -Slack <= Beyond(p, o) - Charge(p, o) /\ Beyond(p, o) - Charge(p, o) <= Slack
      BY <2>1 DEF ProfileInv, ProfileBalance, Uncharged
    <3>1. Slack = 0 /\ Charge(p, o) = 0
      BY DEF Init, Slack, Charge, Uncharged
    <3>2. access[p]["load"][o] = 0 /\ access[p]["store"][o] = 0 /\ profile[p][o] = 0
      BY CacheNames DEF Init, Types
    <3> QED BY <3>1, <3>2 DEF Beyond
  <2> QED BY <2>2, <2>3
<1>3. Both /\ [Next]_vars => Both'
  BY StepFill, StepProfile
<1> QED BY <1>1, <1>2, <1>3, PTL DEF Spec
=============================================================================
