---------------------------- MODULE RegionsProofs ----------------------------
(***************************************************************************)
(* What is proved of the controller of regions, for every file: the        *)
(* regions it accepts are apart (RegionsApart), the sort of their events   *)
(* is one (Sorted), and a thread fires its list on time and in order       *)
(* (RegionsInv).  The recursion of ProcessRegions is followed by looking   *)
(* at the smallest index where a claim fails (SmallestNat).                *)
(***************************************************************************)
EXTENDS Regions, ControllerProofs, FiniteSetTheorems, WellFoundedInduction

LEMMA SmallestNat ==
    ASSUME NEW T, T \subseteq Nat, T # {}
    PROVE  \E x \in T : \A y \in T : x <= y
<1>1. \E x \in T : \A y \in T : ~(<<y, x>> \in OpToRel(<, Nat))
  BY NatLessThanWellFounded, WFMin
<1>2. \A x, y \in Nat : y < x => <<y, x>> \in OpToRel(<, Nat)
  <2> TAKE x, y \in Nat
  <2>1. <<y, x>> \in Nat \X Nat /\ <<y, x>>[1] = y /\ <<y, x>>[2] = x
    OBVIOUS
  <2> QED BY <2>1 DEF OpToRel
<1>3. PICK x \in T : \A y \in T : ~(<<y, x>> \in OpToRel(<, Nat))
  BY <1>1
<1>4. ASSUME NEW y \in T PROVE x <= y
  <2>1. x \in Nat /\ y \in Nat /\ ~(y < x)
    BY <1>2, <1>3
  <2> QED BY <2>1
<1> QED BY <1>3, <1>4

-----------------------------------------------------------------------------
(* The events of a region, in the order of the picture. *)
IsRegion(r) == r \in [start : Nat, end : Nat] /\ r.start < r.end

\* The count at which a region has the event of each rank, if it has it.
RankCount(r, k) ==
    CASE k = 1 -> WarmupStart(r) [] k \in {2, 3} -> PrologStart(r) [] k \in {4, 5} -> r.start
      [] k \in {6, 7} -> r.end [] k = 8 -> SpanEnd(r)

LEMMA Ranks ==
    /\ Rank("warmup-start") = 1 /\ Rank("warmup-end") = 2 /\ Rank("prolog-start") = 3
    /\ Rank("prolog-end") = 4 /\ Rank(Start) = 5 /\ Rank(Stop) = 6
    /\ Rank("epilog-start") = 7 /\ Rank("epilog-end") = 8
<1> DEFINE P == Picture
<1>1. /\ DOMAIN P = 1 .. 8
      /\ P[1] = "warmup-start" /\ P[2] = "warmup-end" /\ P[3] = "prolog-start"
      /\ P[4] = "prolog-end" /\ P[5] = "start" /\ P[6] = "stop"
      /\ P[7] = "epilog-start" /\ P[8] = "epilog-end"
  BY DEF Picture, Start, Stop
<1>2. \A e : Rank(e) = CHOOSE i \in DOMAIN P : P[i] = e
  BY DEF Rank
<1> HIDE DEF P
<1>3. \A i \in 1 .. 8 : i \in {1, 2, 3, 4, 5, 6, 7, 8}
  OBVIOUS
<1>4. \A i, j \in 1 .. 8 : P[i] = P[j] => i = j
  BY <1>1, <1>3
<1>5. \A j \in 1 .. 8 : Rank(P[j]) = j
  BY <1>1, <1>2, <1>4
<1> QED BY <1>1, <1>5 DEF Start, Stop

LEMMA RankCounts ==
    ASSUME NEW r, IsRegion(r)
    PROVE  /\ \A k \in 1 .. 8 : RankCount(r, k) \in Int
           /\ \A i, j \in 1 .. 8 : i <= j => RankCount(r, i) <= RankCount(r, j)
           /\ r.start \in Nat /\ r.end \in Nat /\ r.start < r.end
           /\ WarmupStart(r) \in Int /\ PrologStart(r) \in Int /\ SpanEnd(r) \in Int
           /\ WarmupStart(r) <= PrologStart(r) /\ PrologStart(r) <= r.start
           /\ r.end <= SpanEnd(r)
<1>1. /\ r.start \in Nat /\ r.end \in Nat /\ r.start < r.end
      /\ WarmupStart(r) \in Int /\ PrologStart(r) \in Int /\ SpanEnd(r) \in Int
      /\ WarmupStart(r) <= PrologStart(r) /\ PrologStart(r) <= r.start
      /\ r.end <= SpanEnd(r)
  BY RegionAssumption DEF IsRegion, WarmupStart, PrologStart, SpanEnd
<1>2. \A k \in 1 .. 8 : k \in {1, 2, 3, 4, 5, 6, 7, 8}
  OBVIOUS
<1>3. /\ RankCount(r, 1) = WarmupStart(r) /\ RankCount(r, 2) = PrologStart(r)
      /\ RankCount(r, 3) = PrologStart(r) /\ RankCount(r, 4) = r.start
      /\ RankCount(r, 5) = r.start /\ RankCount(r, 6) = r.end
      /\ RankCount(r, 7) = r.end /\ RankCount(r, 8) = SpanEnd(r)
  BY DEF RankCount
<1>4. \A i, j \in 1 .. 8 : i <= j => RankCount(r, i) <= RankCount(r, j)
  BY <1>1, <1>2, <1>3
<1>5. \A k \in 1 .. 8 : RankCount(r, k) \in Int
  BY <1>1, <1>2, <1>3
<1> QED BY <1>1, <1>4, <1>5

LEMMA EventFacts ==
    ASSUME NEW r, IsRegion(r), NEW e \in EventsOfRegion(r)
    PROVE  /\ e.region = r /\ e = Event(r, e.icount, e.type)
           /\ e.icount \in Int /\ Rank(e.type) \in 1 .. 8 /\ Picture[Rank(e.type)] = e.type
           /\ e.icount = RankCount(r, Rank(e.type))
           /\ SpanBegin(r) <= e.icount /\ e.icount <= SpanEnd(r)
           /\ SpanBegin(r) \in Int /\ SpanEnd(r) \in Int
           /\ e.icount \in {SpanBegin(r), PrologStart(r), r.start, r.end, SpanEnd(r)}
<1>1. /\ r.start \in Nat /\ r.end \in Nat /\ r.start < r.end
      /\ WarmupStart(r) \in Int /\ PrologStart(r) \in Int /\ SpanEnd(r) \in Int
      /\ WarmupStart(r) <= PrologStart(r) /\ PrologStart(r) <= r.start
      /\ r.end <= SpanEnd(r)
  BY RankCounts
<1>2. /\ SpanBegin(r) \in Int /\ SpanBegin(r) <= r.start
      /\ HasWarmup(r) => SpanBegin(r) = WarmupStart(r)
      /\ HasProlog(r) => SpanBegin(r) <= PrologStart(r)
  BY <1>1 DEF SpanBegin
<1>3. PICK n, k : /\ e = Event(r, n, k)
                  /\ \/ k = Start /\ n = r.start
                     \/ k = Stop /\ n = r.end
                     \/ HasWarmup(r) /\ k = "warmup-start" /\ n = WarmupStart(r)
                     \/ HasWarmup(r) /\ k = "warmup-end" /\ n = PrologStart(r)
                     \/ HasProlog(r) /\ k = "prolog-start" /\ n = PrologStart(r)
                     \/ HasProlog(r) /\ k = "prolog-end" /\ n = r.start
                     \/ k = "epilog-start" /\ n = r.end
                     \/ k = "epilog-end" /\ n = SpanEnd(r)
  BY DEF EventsOfRegion
<1>4. e.region = r /\ e.icount = n /\ e.type = k
  BY <1>3 DEF Event
<1>5. SpanBegin(r) <= n /\ n <= SpanEnd(r) /\ n \in Int
  BY <1>1, <1>2, <1>3
<1>6. n \in {SpanBegin(r), PrologStart(r), r.start, r.end, SpanEnd(r)}
  BY <1>2, <1>3
<1>7. Rank(k) \in 1 .. 8 /\ Picture[Rank(k)] = k /\ n = RankCount(r, Rank(k))
  BY <1>3, Ranks DEF Picture, RankCount, Start, Stop
<1> QED BY <1>1, <1>2, <1>3, <1>4, <1>5, <1>6, <1>7

LEMMA EventsFinite == ASSUME NEW r PROVE IsFiniteSet(EventsOfRegion(r))
<1>1. \A x, y : IsFiniteSet({x, y})
  <2> TAKE x, y
  <2>1. IsFiniteSet({x})
    BY FS_Singleton
  <2>2. IsFiniteSet({x} \cup {y})
    BY <2>1, FS_AddElement
  <2> QED BY <2>2
<1>2. IsFiniteSet({})
  BY FS_EmptySet
<1> QED BY <1>1, <1>2, FS_Union DEF EventsOfRegion
-----------------------------------------------------------------------------
(* The accepted regions.  The events of an accepted region all fall outside   *)
(* the span of the one that was accepted later.                               *)
Apart(E, r, s) == \A e \in E : e.region = r => ~(SpanBegin(s) <= e.icount /\ e.icount <= SpanEnd(s))
WellApart(E) ==
    /\ IsFiniteSet(E)
    /\ \A e \in E : IsRegion(e.region) /\ e \in EventsOfRegion(e.region)
    /\ \A d, e \in E : d.region # e.region =>
           Apart(E, d.region, e.region) \/ Apart(E, e.region, d.region)

LEMMA Accept ==
    ASSUME NEW E, WellApart(E), NEW r, IsRegion(r), ~RegionHasOverlap(E, r)
    PROVE  WellApart(E \cup EventsOfRegion(r))
<1> DEFINE F == E \cup EventsOfRegion(r)
<1>1. IsFiniteSet(F)
  BY EventsFinite, FS_Union DEF WellApart
<1>2. \A e \in EventsOfRegion(r) : e.region = r
  BY EventFacts
<1>3. \A e \in E : e.region # r
  <2> SUFFICES ASSUME NEW e \in E, e.region = r PROVE FALSE
    OBVIOUS
  <2>1. SpanBegin(r) <= e.icount /\ e.icount <= SpanEnd(r)
    BY EventFacts DEF WellApart
  <2> QED BY <2>1 DEF RegionHasOverlap
<1>4. \A e \in F : IsRegion(e.region) /\ e \in EventsOfRegion(e.region)
  BY <1>2 DEF WellApart
<1>5. ASSUME NEW d \in E, NEW e \in E, d.region # e.region
      PROVE  Apart(F, d.region, e.region) \/ Apart(F, e.region, d.region)
  <2>1. Apart(E, d.region, e.region) \/ Apart(E, e.region, d.region)
    BY <1>5 DEF WellApart
  <2> QED BY <1>2, <1>3, <2>1 DEF Apart
<1>6. ASSUME NEW d \in E PROVE Apart(F, d.region, r)
  <2> SUFFICES ASSUME NEW e \in F, e.region = d.region
               PROVE  ~(SpanBegin(r) <= e.icount /\ e.icount <= SpanEnd(r))
    BY DEF Apart
  <2>1. e \in E
    BY <1>2, <1>3
  <2> QED BY <2>1 DEF RegionHasOverlap
<1>7. \A d, e \in F : d.region # e.region =>
          Apart(F, d.region, e.region) \/ Apart(F, e.region, d.region)
  BY <1>2, <1>5, <1>6
<1> HIDE DEF F
<1>8. WellApart(F)
  BY <1>1, <1>4, <1>7 DEF WellApart
<1> QED BY <1>8 DEF F

\* The events accepted after each record of a file, one record after the other.
AcceptOne(E, r) == IF RegionHasOverlap(E, r) THEN E ELSE E \cup EventsOfRegion(r)
Accepts(f, s, n) ==
    f = [i \in 0 .. n |-> IF i = 0 THEN {} ELSE AcceptOne(f[i - 1], s[i])]

LEMMA AcceptsExists == ASSUME NEW s PROVE \A n \in Nat : \E f : Accepts(f, s, n)
<1> DEFINE T == {n \in Nat : ~\E f : Accepts(f, s, n)}
<1> SUFFICES ASSUME T # {} PROVE FALSE
  OBVIOUS
<1>1. PICK n \in T : \A m \in T : n <= m
  BY SmallestNat
<1>2. CASE n = 0
  <2> DEFINE f == [i \in 0 .. 0 |-> {}]
  <2>1. Accepts(f, s, 0)
    BY DEF Accepts
  <2> QED BY <1>1, <1>2, <2>1
<1>3. CASE n # 0
  <2>1. n - 1 \in Nat /\ n \in Nat
    BY <1>1, <1>3
  <2>2. n - 1 \notin T
    BY <1>1, <2>1
  <2>3. PICK g : Accepts(g, s, n - 1)
    BY <2>1, <2>2
  <2> DEFINE f == [i \in 0 .. n |-> IF i = n THEN AcceptOne(g[n - 1], s[n]) ELSE g[i]]
  <2>4. \A i \in 0 .. n - 1 : f[i] = g[i] /\ i \in 0 .. n
    BY <2>1
  <2>5. f[n] = AcceptOne(f[n - 1], s[n])
    BY <2>1, <2>4
  <2>6. \A i \in 0 .. n - 1 : g[i] = IF i = 0 THEN {} ELSE AcceptOne(g[i - 1], s[i])
    BY <2>3 DEF Accepts
  <2>7. ASSUME NEW i \in 0 .. n
        PROVE  f[i] = IF i = 0 THEN {} ELSE AcceptOne(f[i - 1], s[i])
    <3>1. CASE i = n
      BY <1>3, <2>5, <3>1
    <3>2. CASE i # n
      <4>1. i \in 0 .. n - 1 /\ (i # 0 => i - 1 \in 0 .. n - 1)
        BY <2>1, <3>2
      <4>2. f[i] = g[i] /\ (i # 0 => f[i - 1] = g[i - 1])
        BY <2>4, <4>1
      <4> HIDE DEF f
      <4> QED BY <2>6, <4>1, <4>2
    <3> QED BY <3>1, <3>2
  <2>8. f = [i \in 0 .. n |-> f[i]]
    OBVIOUS
  <2> HIDE DEF f
  <2>9. Accepts(f, s, n)
    BY <2>7, <2>8 DEF Accepts
  <2> QED BY <1>1, <2>9
<1> QED BY <1>2, <1>3

(* Whatever the file holds, the events of the regions it lists are apart.     *)
LEMMA RegionsApart ==
    ASSUME NEW s \in Seq([start : Nat, end : Nat]), \A i \in DOMAIN s : s[i].start < s[i].end
    PROVE  WellApart(ProcessRegions(s))
<1> DEFINE acc == CHOOSE f : Accepts(f, s, Len(s))
<1>1. Accepts(acc, s, Len(s)) /\ Len(s) \in Nat
  BY AcceptsExists
<1>2. ProcessRegions(s) = acc[Len(s)]
  BY DEF ProcessRegions, Accepts, AcceptOne
<1> HIDE DEF acc
<1>3. \A i \in 0 .. Len(s) : acc[i] = IF i = 0 THEN {} ELSE AcceptOne(acc[i - 1], s[i])
  BY <1>1 DEF Accepts
<1> DEFINE T == {n \in 0 .. Len(s) : ~WellApart(acc[n])}
<1>a. \A i \in 1 .. Len(s) : IsRegion(s[i])
  <2> TAKE i \in 1 .. Len(s)
  <2> DEFINE R == [start : Nat, end : Nat]
  <2>1. s \in Seq(R)
    OBVIOUS
  <2> HIDE DEF R, T
  <2>2. i \in DOMAIN s /\ s[i] \in R
    BY <2>1
  <2> QED BY <2>2 DEF IsRegion, R
<1>4. T = {}
  <2> SUFFICES ASSUME T # {} PROVE FALSE
    OBVIOUS
  <2>0. T \subseteq Nat /\ \A i : i \in T <=> i \in 0 .. Len(s) /\ ~WellApart(acc[i])
    BY <1>1
  <2> HIDE DEF T
  <2>1. PICK n \in T : \A m \in T : n <= m
    BY <2>0, SmallestNat
  <2>2. CASE n = 0
    BY <1>3, <2>0, <2>1, <2>2, FS_EmptySet DEF WellApart
  <2>3. CASE n # 0
    <3>0. n \in 0 .. Len(s) /\ n \in Nat
      BY <2>0, <2>1
    <3>1. n \in 1 .. Len(s) /\ n - 1 \in 0 .. Len(s) /\ n - 1 \in Nat /\ ~(n <= n - 1)
      BY <1>1, <2>3, <3>0
    <3>2. WellApart(acc[n - 1])
      BY <2>0, <2>1, <3>1
    <3>3. IsRegion(s[n])
      BY <1>a, <3>1
    <3>4. acc[n] = AcceptOne(acc[n - 1], s[n])
      BY <1>3, <2>3, <3>1
    <3>5. WellApart(acc[n])
      BY <3>2, <3>3, <3>4, Accept DEF AcceptOne
    <3> QED BY <2>0, <2>1, <3>5
  <2> QED BY <2>2, <2>3
<1> HIDE DEF T
<1>5. WellApart(acc[Len(s)])
  BY <1>1, <1>4 DEF T
<1> QED BY <1>2, <1>5
-----------------------------------------------------------------------------
(* The order of the events.                                                   *)
LEMMA Ordered ==
    ASSUME NEW E, WellApart(E)
    PROVE  /\ \A a, b \in E : EventLessThan(a, b) \/ EventLessThan(b, a)
           /\ \A a, b \in E : EventLessThan(a, b) /\ EventLessThan(b, a) => a = b
           /\ \A a, b, c \in E : EventLessThan(a, b) /\ EventLessThan(b, c) => EventLessThan(a, c)
<1>1. \A e \in E : /\ e.icount \in Int /\ Rank(e.type) \in Nat /\ Picture[Rank(e.type)] = e.type
                   /\ e = Event(e.region, e.icount, e.type)
                   /\ SpanBegin(e.region) <= e.icount /\ e.icount <= SpanEnd(e.region)
  <2> TAKE e \in E
  <2>1. IsRegion(e.region) /\ e \in EventsOfRegion(e.region)
    BY DEF WellApart
  <2> QED BY <2>1, EventFacts
<1>2. ASSUME NEW a \in E, NEW b \in E, EventLessThan(a, b), EventLessThan(b, a)
      PROVE  a = b
  <2>1. a.icount = b.icount /\ Rank(a.type) = Rank(b.type)
    BY <1>1, <1>2 DEF EventLessThan
  <2>2. a.region = b.region
    <3> SUFFICES ASSUME a.region # b.region PROVE FALSE
      OBVIOUS
    <3>1. Apart(E, a.region, b.region) \/ Apart(E, b.region, a.region)
      BY DEF WellApart
    <3> QED BY <1>1, <2>1, <3>1 DEF Apart
  <2> QED BY <1>1, <2>1, <2>2
<1>3. ASSUME NEW a \in E, NEW b \in E, NEW c \in E, EventLessThan(a, b), EventLessThan(b, c)
      PROVE  EventLessThan(a, c)
  BY <1>1, <1>3 DEF EventLessThan
<1>4. \A a, b \in E : EventLessThan(a, b) \/ EventLessThan(b, a)
  BY <1>1 DEF EventLessThan
<1> QED BY <1>2, <1>3, <1>4

(* The sort of ProcessEvents: a list of the events, each once, in their order. *)
Listed(q, E) ==
    /\ q \in [1 .. Cardinality(E) -> E] /\ Cardinality(E) \in Nat
    /\ \A i, j \in 1 .. Cardinality(E) : i < j => q[i] # q[j] /\ EventLessThan(q[i], q[j])
    /\ \A e \in E : \E i \in 1 .. Cardinality(E) : q[i] = e

LEMMA Sorted ==
    ASSUME NEW E, WellApart(E)
    PROVE  Listed(ProcessEvents(E), E)
<1> DEFINE n == Cardinality(E)
           D(e) == {d \in E \ {e} : EventLessThan(d, e)}
           place == [e \in E |-> Cardinality(D(e)) + 1]
           q == ProcessEvents(E)
<1>1. IsFiniteSet(E) /\ n \in Nat
  BY FS_CardinalityType DEF WellApart
<1>2. ASSUME NEW e \in E
      PROVE  IsFiniteSet(D(e)) /\ Cardinality(D(e)) \in Nat /\ Cardinality(D(e)) < n
  <2>1. D(e) \in SUBSET E /\ D(e) # E
    OBVIOUS
  <2> HIDE DEF D
  <2>2. IsFiniteSet(D(e)) /\ Cardinality(D(e)) <= n /\ n # Cardinality(D(e))
    BY <1>1, <2>1, FS_Subset
  <2>3. Cardinality(D(e)) \in Nat
    BY <2>2, FS_CardinalityType
  <2> QED BY <1>1, <2>2, <2>3
<1>3. ASSUME NEW a \in E, NEW b \in E, a # b, EventLessThan(a, b)
      PROVE  Cardinality(D(a)) < Cardinality(D(b))
  <2>1. ~EventLessThan(b, a)
    BY <1>3, Ordered
  <2>2. D(a) \in SUBSET D(b)
    BY <1>3, <2>1, Ordered
  <2>3. a \in D(b) /\ a \notin D(a)
    BY <1>3
  <2> HIDE DEF D
  <2>4. Cardinality(D(a)) <= Cardinality(D(b)) /\ Cardinality(D(b)) # Cardinality(D(a))
    BY <1>2, <2>2, <2>3, FS_Subset
  <2> QED BY <1>2, <2>4
<1>4. \A a, b \in E : a # b => place[a] # place[b]
  <2> TAKE a, b \in E
  <2> HAVE a # b
  <2>1. \/ Cardinality(D(a)) < Cardinality(D(b))
        \/ Cardinality(D(b)) < Cardinality(D(a))
    BY <1>3, Ordered
  <2>2. Cardinality(D(a)) \in Nat /\ Cardinality(D(b)) \in Nat
    BY <1>2
  <2>3. place[a] = Cardinality(D(a)) + 1 /\ place[b] = Cardinality(D(b)) + 1
    OBVIOUS
  <2> HIDE DEF D, place
  <2> QED BY <2>1, <2>2, <2>3
<1>5. place \in [E -> 1 .. n]
  <2>1. \A e \in E : Cardinality(D(e)) + 1 \in 1 .. n
    <3> TAKE e \in E
    <3>1. Cardinality(D(e)) \in Nat /\ Cardinality(D(e)) < n
      BY <1>2
    <3> HIDE DEF D
    <3> QED BY <1>1, <3>1
  <2> QED BY <2>1
<1>6. \A i \in 1 .. n : \E e \in E : place[e] = i
  <2>1. place \in Injection(E, 1 .. n)
    <3> HIDE DEF place
    <3> QED BY <1>4, <1>5 DEF Injection, IsInjective
  <2>2. IsFiniteSet(1 .. n) /\ Cardinality(1 .. n) = n
    BY <1>1, FS_Interval
  <2> HIDE DEF place
  <2>3. place \in Surjection(E, 1 .. n)
    BY <2>1, <2>2, FS_Injection
  <2> QED BY <2>3 DEF Surjection
<1>7. /\ q = [i \in 1 .. n |-> q[i]]
      /\ \A i \in 1 .. n : q[i] \in E /\ place[q[i]] = i
  <2>1. q = [i \in 1 .. n |-> CHOOSE e \in E : Cardinality(D(e)) = i - 1]
    BY DEF ProcessEvents
  <2>2. ASSUME NEW i \in 1 .. n PROVE q[i] \in E /\ place[q[i]] = i
    <3>1. PICK e \in E : place[e] = i
      BY <1>6
    <3>2. Cardinality(D(e)) \in Nat /\ place[e] = Cardinality(D(e)) + 1
      BY <1>2
    <3>3. q[i] = CHOOSE x \in E : Cardinality(D(x)) = i - 1
      BY <2>1
    <3> HIDE DEF D, q
    <3>4. Cardinality(D(e)) = i - 1
      BY <3>1, <3>2
    <3>5. q[i] \in E /\ Cardinality(D(q[i])) = i - 1
      BY <3>3, <3>4
    <3>6. place[q[i]] = Cardinality(D(q[i])) + 1
      BY <3>5
    <3> HIDE DEF place
    <3> QED BY <3>5, <3>6
  <2> HIDE DEF q, D, place
  <2> QED BY <2>1, <2>2
<1> HIDE DEF place, q
<1>8. ASSUME NEW i \in 1 .. n, NEW j \in 1 .. n, i < j
      PROVE  q[i] # q[j] /\ EventLessThan(q[i], q[j])
  <2>1. q[i] \in E /\ q[j] \in E /\ place[q[i]] = i /\ place[q[j]] = j
    BY <1>7
  <2>2. q[i] # q[j]
    BY <1>8, <2>1
  <2>3. ~EventLessThan(q[j], q[i])
    <3> SUFFICES ASSUME EventLessThan(q[j], q[i]) PROVE FALSE
      OBVIOUS
    <3>1. Cardinality(D(q[j])) < Cardinality(D(q[i]))
      BY <1>3, <2>1, <2>2
    <3>2. /\ place[q[i]] = Cardinality(D(q[i])) + 1 /\ Cardinality(D(q[i])) \in Nat
          /\ place[q[j]] = Cardinality(D(q[j])) + 1 /\ Cardinality(D(q[j])) \in Nat
      BY <1>2, <2>1 DEF place
    <3> HIDE DEF D
    <3> QED BY <1>8, <2>1, <3>1, <3>2
  <2> QED BY <2>1, <2>2, <2>3, Ordered
<1>9. \A e \in E : \E i \in 1 .. n : q[i] = e
  <2> TAKE e \in E
  <2>1. place[e] \in 1 .. n
    BY <1>5
  <2>2. q[place[e]] \in E /\ place[q[place[e]]] = place[e]
    BY <1>7, <2>1
  <2> QED BY <1>4, <2>1, <2>2
<1>10. q \in [1 .. n -> E]
  BY <1>7
<1> QED BY <1>1, <1>8, <1>9, <1>10 DEF Listed, q
-----------------------------------------------------------------------------
(* The state.  The counts of the controller of regions follow the log's.      *)
Records == [start : Nat, end : Nat]
RegionEvents ==
    [icount : Int, type : {Start, Stop} \cup SubRegionEvents, region : Records]
IregionsType ==
    iregions \in [active : BOOLEAN, given : BOOLEAN,
                  events : [Threads -> Seq(RegionEvents)],
                  count : [Threads -> Nat], next_event_count : [Threads -> Int],
                  nextevent : [Threads -> Nat], last_triggered_region : [Threads -> Records],
                  stage : [Threads -> {"done", "if", "then"}],
                  fired : [Threads -> Seq(RegionEvents)]]

InStepOf(t) ==
    /\ icount[t] <= MaxIcount
    /\ iregions.given => icount[t] = iregions.count[t]
                             + IF iregions.stage[t] = "if" THEN ninst[t] ELSE 0
    /\ ~iregions.given => iregions.stage[t] = "done" /\ iregions.count[t] = 0
    /\ At(t, "unborn") => iregions.stage[t] = "done" /\ iregions.nextevent[t] = 1
InStep == \A t \in Threads : InStepOf(t)

\* Every list is that of regions that are apart.
Lists == \A t \in Threads : \E E : WellApart(E) /\ Listed(iregions.events[t], E)

\* The events before the next one have been fired, and the count of the next one
\* is the one the If part compares with.
ProgressOf(t) ==
    LET k == iregions.nextevent[t]
    IN  /\ k \in 1 .. (Len(iregions.events[t]) + 1)
        /\ Len(iregions.fired[t]) = k - 1
        /\ \A i \in 1 .. (k - 1) : /\ iregions.fired[t][i] = iregions.events[t][i]
                                   /\ iregions.events[t][i].icount <= iregions.count[t]
        /\ ~At(t, "unborn") /\ iregions.stage[t] # "then" =>
               iregions.next_event_count[t] = CountOf(t, k)
        /\ iregions.stage[t] = "done" /\ iregions.count[t] > 0 =>
               CountOf(t, k) > iregions.count[t]
Progress == \A t \in Threads : ProgressOf(t)

RegionsInv == TypeOK /\ IregionsType /\ InStep /\ Lists /\ Progress

LEMMA ListType ==
    ASSUME NEW f \in RegionFiles, NEW t \in Threads
    PROVE  /\ WellApart(ProcessRegions(f[t]))
           /\ Listed(ProcessEvents(ProcessRegions(f[t])), ProcessRegions(f[t]))
           /\ ProcessEvents(ProcessRegions(f[t])) \in Seq(RegionEvents)
<1> DEFINE E == ProcessRegions(f[t])
           q == ProcessEvents(E)
<1>1. f[t] \in Seq([start : Nat, end : Nat]) /\ \A i \in DOMAIN f[t] : f[t][i].start < f[t][i].end
  BY RegionAssumption
<1>2. WellApart(E)
  BY <1>1, RegionsApart
<1> HIDE DEF E
<1>3. Listed(q, E)
  BY <1>2, Sorted
<1>4. ASSUME NEW e \in E PROVE e \in RegionEvents
  <2>1. IsRegion(e.region) /\ e \in EventsOfRegion(e.region)
    BY <1>2 DEF WellApart
  <2>2. /\ e = Event(e.region, e.icount, e.type) /\ e.icount \in Int
        /\ Rank(e.type) \in 1 .. 8 /\ Picture[Rank(e.type)] = e.type
    BY <2>1, EventFacts
  <2>3. \A k \in 1 .. 8 : Picture[k] \in {Start, Stop} \cup SubRegionEvents
    <3>1. \A k \in 1 .. 8 : k \in {1, 2, 3, 4, 5, 6, 7, 8}
      OBVIOUS
    <3> QED BY <3>1 DEF Picture, SubRegionEvents
  <2>4. e.type \in {Start, Stop} \cup SubRegionEvents
    BY <2>2, <2>3
  <2>5. e.region \in Records
    BY <2>1 DEF IsRegion, Records
  <2> QED BY <2>2, <2>4, <2>5 DEF Event, RegionEvents
<1> HIDE DEF q
<1>5. q \in [1 .. Cardinality(E) -> RegionEvents] /\ Cardinality(E) \in Nat
  <2>1. q \in [1 .. Cardinality(E) -> E] /\ Cardinality(E) \in Nat
    BY <1>3 DEF Listed
  <2> QED BY <1>4, <2>1
<1>6. q \in Seq(RegionEvents)
  BY <1>5
<1> QED BY <1>2, <1>3, <1>6 DEF E, q

LEMMA NothingListed == \E E : WellApart(E) /\ Listed(<< >>, E)
<1>1. WellApart({})
  BY FS_EmptySet DEF WellApart
<1>2. << >> \in [1 .. 0 -> {}]
  BY <<>> \in Seq({}), 1 .. 0 = {}
<1>3. Listed(<< >>, {})
  BY <1>2, FS_EmptySet DEF Listed
<1> QED BY <1>1, <1>3

LEMMA RegionsInitInv == RegionsInit => RegionsInv
<1> SUFFICES ASSUME RegionsInit PROVE RegionsInv
  OBVIOUS
<1>1. PICK given \in BOOLEAN, active \in BOOLEAN, f \in RegionFiles :
          iregions =
             [active |-> active, given |-> given,
              events |-> [t \in Threads |->
                             IF given THEN ProcessEvents(ProcessRegions(f[t])) ELSE << >>],
              count |-> [t \in Threads |-> 0],
              next_event_count |-> [t \in Threads |-> ICOUNT_MAX],
              nextevent |-> [t \in Threads |-> 1],
              last_triggered_region |-> [t \in Threads |-> NoRegion],
              stage |-> [t \in Threads |-> "done"],
              fired |-> [t \in Threads |-> << >>]]
  BY DEF RegionsInit
<1>2. /\ iregions.active \in BOOLEAN
      /\ \A t \in Threads : iregions.events[t] =
             IF given THEN ProcessEvents(ProcessRegions(f[t])) ELSE << >>
      /\ \A t \in Threads : /\ iregions.count[t] = 0 /\ iregions.nextevent[t] = 1
                            /\ iregions.stage[t] = "done" /\ iregions.fired[t] = << >>
  BY <1>1
<1>3. InitChains
  BY DEF RegionsInit
<1>4. TypeOK
  BY <1>2, <1>3, ChainsType
<1>5. \A t \in Threads : icount[t] = 0 /\ ~iregions.stage[t] = "if" /\ At(t, "unborn")
  BY <1>2, <1>3 DEF InitChains, At
<1>6. InStep
  BY <1>2, <1>5, BoundAssumption DEF InStep, InStepOf
<1> DEFINE sorted == [t \in Threads |-> IF given THEN ProcessEvents(ProcessRegions(f[t])) ELSE << >>]
<1>7. sorted \in [Threads -> Seq(RegionEvents)]
  <2>1. ASSUME NEW t \in Threads
        PROVE  (IF given THEN ProcessEvents(ProcessRegions(f[t])) ELSE << >>) \in Seq(RegionEvents)
    BY ListType
  <2> QED BY <2>1
<1>8. NoRegion \in Records /\ ICOUNT_MAX \in Int
  BY RegionAssumption DEF NoRegion, Records
<1>9. IregionsType
  <2> HIDE DEF sorted
  <2>1. iregions =
             [active |-> active, given |-> given, events |-> sorted,
              count |-> [t \in Threads |-> 0],
              next_event_count |-> [t \in Threads |-> ICOUNT_MAX],
              nextevent |-> [t \in Threads |-> 1],
              last_triggered_region |-> [t \in Threads |-> NoRegion],
              stage |-> [t \in Threads |-> "done"],
              fired |-> [t \in Threads |-> << >>]]
    BY <1>1 DEF sorted
  <2> QED BY <1>7, <1>8, <2>1 DEF IregionsType
<1>10. Lists
  BY <1>2, ListType, NothingListed DEF Lists
<1>11. Progress
  <2> SUFFICES ASSUME NEW t \in Threads PROVE ProgressOf(t)
    BY DEF Progress
  <2>1. Len(iregions.events[t]) \in Nat
    BY <1>9 DEF IregionsType
  <2>2. Len(<< >>) = 0
    OBVIOUS
  <2> QED BY <1>2, <1>5, <2>1, <2>2 DEF ProgressOf
<1> QED BY <1>4, <1>6, <1>9, <1>10, <1>11 DEF RegionsInv
-----------------------------------------------------------------------------
(* The steps.  The chains of alarms do not touch the controller of regions.   *)
LEMMA AnalysisFrame ==
    ASSUME TypeOK, NEW t \in Threads, Analysis(t)
    PROVE  /\ UNCHANGED <<iregions, icount, ninst>>
           /\ \A u \in Threads : pc'[u] = "unborn" <=> pc[u] = "unborn"
<1> USE DEF At, Goto, Return, TypeOK, alarmVars, managerVars, logVars, localVars
<1>1. CASE CountRead(t)
  BY <1>1 DEF CountRead
<1>2. CASE CountWrite(t)
  <2>1. UNCHANGED <<iregions, icount, ninst>>
    BY <1>2 DEF CountWrite
  <2>2. pc[t] = "count" /\ (pc' = [pc EXCEPT ![t] = "disarm"] \/ pc' = [pc EXCEPT ![t] = "run"])
    BY <1>2 DEF CountWrite
  <2> QED BY <2>1, <2>2
<1>3. CASE FireDisarm(t)
  <2>1. UNCHANGED <<iregions, icount, ninst>>
    BY <1>3 DEF FireDisarm
  <2>2. pc[t] = "disarm" /\ (pc' = [pc EXCEPT ![t] = "uniform"] \/ pc' = [pc EXCEPT ![t] = "handlers"])
    BY <1>3 DEF FireDisarm
  <2> QED BY <2>1, <2>2
<1>4. CASE FireUniform(t)
  <2>1. UNCHANGED <<iregions, icount, ninst>>
    BY <1>4 DEF FireUniform
  <2>2. pc[t] = "uniform" /\ pc' = [pc EXCEPT ![t] = "handlers"]
    BY <1>4 DEF FireUniform
  <2> QED BY <2>1, <2>2
<1>5. CASE FireHandlers(t)
  <2>1. UNCHANGED <<iregions, icount, ninst>>
    BY <1>5 DEF FireHandlers
  <2>2. pc[t] = "handlers" /\ pc' = [pc EXCEPT ![t] = "armnext"]
    BY <1>5 DEF FireHandlers
  <2> QED BY <2>1, <2>2
<1>6. CASE FireArmNext(t)
  <2>1. UNCHANGED <<iregions, icount, ninst>>
    BY <1>6 DEF FireArmNext
  <2>2. pc[t] = "armnext" /\ pc' = [pc EXCEPT ![t] = "run"]
    BY <1>6 DEF FireArmNext
  <2> QED BY <2>1, <2>2
<1>7. CASE InitStart(t)
  <2>1. UNCHANGED <<iregions, icount, ninst>>
    BY <1>7 DEF InitStart
  <2>2. pc[t] = "run" /\ pc' = [pc EXCEPT ![t] = "run"]
    BY <1>7 DEF InitStart
  <2> QED BY <2>1, <2>2
<1> QED BY <1>1, <1>2, <1>3, <1>4, <1>5, <1>6, <1>7 DEF Analysis

\* What leaves the controller of regions and the counts alone keeps the invariant.
LEMMA RegionsFrame ==
    ASSUME RegionsInv, TypeOK', UNCHANGED <<iregions, icount, ninst>>,
           \A u \in Threads : pc'[u] = "unborn" <=> pc[u] = "unborn"
    PROVE  RegionsInv'
<1>1. IregionsType' /\ Lists'
  BY DEF RegionsInv, IregionsType, Lists
<1>2. InStep'
  BY DEF RegionsInv, InStep, InStepOf, At
<1>3. \A t, i : CountOf(t, i)' = CountOf(t, i)
  BY DEF CountOf
<1>4. Progress'
  BY <1>3 DEF RegionsInv, Progress, ProgressOf, At
<1> QED BY <1>1, <1>2, <1>4 DEF RegionsInv

\* A step of thread t leaves the lists and what it knows of another thread alone.
Steady(u) ==
    /\ iregions'.count[u] = iregions.count[u]
    /\ iregions'.next_event_count[u] = iregions.next_event_count[u]
    /\ iregions'.nextevent[u] = iregions.nextevent[u]
    /\ iregions'.stage[u] = iregions.stage[u] /\ iregions'.fired[u] = iregions.fired[u]
    /\ icount'[u] = icount[u] /\ ninst'[u] = ninst[u] /\ pc'[u] = pc[u]

LEMMA StepOfOne ==
    ASSUME RegionsInv, TypeOK', IregionsType', NEW t \in Threads,
           iregions'.given = iregions.given, iregions'.events = iregions.events,
           \A u \in Threads \ {t} : Steady(u), InStepOf(t)', ProgressOf(t)'
    PROVE  RegionsInv'
<1>1. Lists'
  BY DEF RegionsInv, Lists
<1>2. ASSUME NEW u \in Threads PROVE InStepOf(u)'
  <2>1. CASE u = t
    BY <2>1
  <2>2. CASE u # t
    <3>1. Steady(u) /\ InStepOf(u)
      BY <2>2 DEF RegionsInv, InStep
    <3> QED BY <3>1 DEF Steady, InStepOf, At
  <2> QED BY <2>1, <2>2
<1>3. ASSUME NEW u \in Threads PROVE ProgressOf(u)'
  <2>1. CASE u = t
    BY <2>1
  <2>2. CASE u # t
    <3>1. Steady(u) /\ ProgressOf(u)
      BY <2>2 DEF RegionsInv, Progress
    <3>2. \A i : CountOf(u, i)' = CountOf(u, i)
      BY DEF CountOf
    <3> QED BY <3>1, <3>2 DEF Steady, ProgressOf, At
  <2> QED BY <2>1, <2>2
<1> QED BY <1>1, <1>2, <1>3 DEF RegionsInv, InStep, Progress
LEMMA CountType ==
    ASSUME IregionsType, NEW t \in Threads, NEW i \in Nat \ {0}
    PROVE  /\ CountOf(t, i) \in Int
           /\ CountOf(t, i) < ICOUNT_MAX =>
                  i \in DOMAIN iregions.events[t] /\ iregions.events[t][i] \in RegionEvents
           /\ i \in DOMAIN iregions.events[t] => CountOf(t, i) = iregions.events[t][i].icount
<1>1. iregions.events[t] \in Seq(RegionEvents) /\ ICOUNT_MAX \in Nat
  BY RegionAssumption DEF IregionsType
<1> DEFINE q == iregions.events[t]
<1>2. CountOf(t, i) = IF i > Len(q) THEN ICOUNT_MAX ELSE q[i].icount
  BY DEF CountOf
<1> HIDE DEF q
<1>3. q \in Seq(RegionEvents)
  BY <1>1 DEF q
<1>4. i \in DOMAIN q <=> ~(i > Len(q))
  BY <1>3
<1>5. i \in DOMAIN q => q[i] \in RegionEvents /\ q[i].icount \in Int
  <2>1. i \in DOMAIN q => q[i] \in RegionEvents
    BY <1>3
  <2>2. \A e \in RegionEvents : e.icount \in Int
    BY DEF RegionEvents
  <2> QED BY <2>1, <2>2
<1>6. /\ CountOf(t, i) \in Int
      /\ CountOf(t, i) < ICOUNT_MAX => i \in DOMAIN q /\ q[i] \in RegionEvents
      /\ i \in DOMAIN q => CountOf(t, i) = q[i].icount
  BY <1>1, <1>2, <1>4, <1>5
<1> QED BY <1>6 DEF q

LEMMA ThreadStartStep ==
    ASSUME RegionsInv, NEW t \in Threads, RegionsThreadStart(t)
    PROVE  RegionsInv'
<1>1. /\ BeginThread(t) /\ IregionsType
      /\ iregions' = [iregions EXCEPT !.next_event_count[t] = CountOf(t, 1)]
  BY DEF RegionsThreadStart, RegionsInv
<1>2. CountOf(t, 1) \in Int
  BY <1>1, CountType
<1>3. IregionsType'
  BY <1>1, <1>2 DEF IregionsType
<1>4. TypeOK'
  BY <1>1, <1>3, BeginType DEF RegionsInv, IregionsType
<1>5. /\ iregions'.given = iregions.given /\ iregions'.events = iregions.events
      /\ iregions'.count = iregions.count /\ iregions'.nextevent = iregions.nextevent
      /\ iregions'.stage = iregions.stage /\ iregions'.fired = iregions.fired
      /\ iregions'.next_event_count = [iregions.next_event_count EXCEPT ![t] = CountOf(t, 1)]
  BY <1>1 DEF IregionsType
<1>6. /\ iregions.next_event_count \in [Threads -> Int] /\ pc \in [Threads -> Stages]
  BY <1>1 DEF RegionsInv, IregionsType, TypeOK
<1>7. /\ icount' = icount /\ ninst' = ninst /\ pc[t] = "unborn" /\ pc' = [pc EXCEPT ![t] = "run"]
  BY <1>1 DEF BeginThread, At, Goto, logVars
<1>8. \A u \in Threads \ {t} : Steady(u)
  BY <1>5, <1>6, <1>7 DEF Steady
<1>9. InStepOf(t) /\ ProgressOf(t)
  BY DEF RegionsInv, InStep, Progress
<1>10. pc'[t] = "run" /\ iregions'.next_event_count[t] = CountOf(t, 1)
  BY <1>5, <1>6, <1>7
<1>11. InStepOf(t)'
  BY <1>5, <1>7, <1>9, <1>10 DEF InStepOf, At
<1>12. \A i : CountOf(t, i)' = CountOf(t, i)
  BY <1>5 DEF CountOf
<1>13. iregions.nextevent[t] = 1
  BY <1>7, <1>9 DEF InStepOf, At
<1>14. ProgressOf(t)'
  BY <1>5, <1>9, <1>10, <1>12, <1>13 DEF ProgressOf, At
<1> QED BY <1>3, <1>4, <1>5, <1>8, <1>11, <1>14, StepOfOne

LEMMA ExecStep ==
    ASSUME LogOn, RegionsInv, NEW t \in Threads, NEW b \in Blocks, RegionsExec(t, b)
    PROVE  RegionsInv'
<1> DEFINE next == IF iregions.given THEN "if" ELSE "done"
<1>1. /\ ReachBlock(t, b) /\ IregionsType /\ iregions.stage[t] = "done"
      /\ iregions' = [iregions EXCEPT !.stage[t] = next]
  BY DEF RegionsExec, RegionsInv
<1>2. IregionsType'
  BY <1>1 DEF IregionsType
<1>3. TypeOK'
  BY <1>1, <1>2, BlockType DEF RegionsInv, IregionsType
<1>4. /\ iregions'.given = iregions.given /\ iregions'.events = iregions.events
      /\ iregions'.count = iregions.count /\ iregions'.nextevent = iregions.nextevent
      /\ iregions'.next_event_count = iregions.next_event_count
      /\ iregions'.fired = iregions.fired
      /\ iregions'.stage = [iregions.stage EXCEPT ![t] = next]
  BY <1>1 DEF IregionsType
<1>5. /\ iregions.stage \in [Threads -> {"done", "if", "then"}] /\ icount \in [Threads -> Nat]
      /\ ninst \in [Threads -> Nat] /\ b.size \in Nat /\ MaxIcount \in Nat
      /\ iregions.count[t] \in Nat
  BY <1>1, BoundAssumption DEF RegionsInv, IregionsType, TypeOK
<1>6. /\ pc' = pc /\ pc[t] = "run" /\ ninst' = [ninst EXCEPT ![t] = b.size]
      /\ icount' = [icount EXCEPT ![t] = @ + b.size] /\ icount[t] + b.size <= MaxIcount
  BY <1>1 DEF ReachBlock, At
<1>7. /\ iregions'.stage[t] = next /\ ninst'[t] = b.size /\ icount'[t] = icount[t] + b.size
  BY <1>4, <1>5, <1>6
<1>8. \A u \in Threads \ {t} : Steady(u)
  BY <1>4, <1>5, <1>6 DEF Steady
<1>9. InStepOf(t) /\ ProgressOf(t)
  BY DEF RegionsInv, InStep, Progress
<1>10. InStepOf(t)'
  BY <1>1, <1>4, <1>5, <1>6, <1>7, <1>9 DEF InStepOf, At
<1>11. \A i : CountOf(t, i)' = CountOf(t, i)
  BY <1>4 DEF CountOf
<1>12. iregions.given \/ iregions.count[t] = 0
  BY <1>9 DEF InStepOf
<1>13. next # "then" /\ (next = "done" => iregions.count[t] = 0)
  BY <1>12
<1> HIDE DEF next
<1>14. ProgressOf(t)'
  BY <1>1, <1>4, <1>5, <1>6, <1>7, <1>9, <1>11, <1>13 DEF ProgressOf, At
<1> QED BY <1>2, <1>3, <1>4, <1>8, <1>10, <1>14, StepOfOne
LEMMA AdvanceIfStep ==
    ASSUME RegionsInv, NEW t \in Threads, AdvanceIf(t)
    PROVE  RegionsInv'
<1> DEFINE n == iregions.count[t] + ninst[t]
           next == IF Reached(n, iregions.next_event_count[t]) THEN "then" ELSE "done"
<1>1. /\ IregionsType /\ pc[t] = "run" /\ iregions.stage[t] = "if"
      /\ iregions' = [iregions EXCEPT !.count[t] = n, !.stage[t] = next]
      /\ UNCHANGED chainVars
  BY DEF AdvanceIf, RegionsInv, At
<1>2. /\ n \in Nat /\ iregions.stage \in [Threads -> {"done", "if", "then"}]
      /\ iregions.count \in [Threads -> Nat] /\ iregions.count[t] <= n
      /\ iregions.next_event_count[t] \in Int
  BY <1>1 DEF RegionsInv, IregionsType, TypeOK
<1>3. next \in {"done", "then"} /\ (next = "done" => n < iregions.next_event_count[t])
  BY <1>2 DEF Reached
<1>4. /\ icount' = icount /\ pc' = pc /\ ninst' = ninst
  BY <1>1 DEF chainVars, logVars
<1>5. iregions.given => icount[t] = n
  BY <1>1 DEF RegionsInv, InStep, InStepOf
<1> HIDE DEF n, next
<1>6. IregionsType'
  BY <1>1, <1>2, <1>3 DEF IregionsType
<1>7. TypeOK'
  BY <1>1, <1>6 DEF RegionsInv, IregionsType, TypeOK, chainVars, alarmVars, managerVars,
                    logVars, localVars
<1>8. /\ iregions'.given = iregions.given /\ iregions'.events = iregions.events
      /\ iregions'.nextevent = iregions.nextevent
      /\ iregions'.next_event_count = iregions.next_event_count
      /\ iregions'.fired = iregions.fired
      /\ iregions'.count = [iregions.count EXCEPT ![t] = n]
      /\ iregions'.stage = [iregions.stage EXCEPT ![t] = next]
  BY <1>1 DEF IregionsType
<1>9. iregions'.count[t] = n /\ iregions'.stage[t] = next
  BY <1>2, <1>8
<1>10. \A u \in Threads \ {t} : Steady(u)
  BY <1>2, <1>4, <1>8 DEF Steady
<1>11. InStepOf(t) /\ ProgressOf(t) /\ Lists
  BY DEF RegionsInv, InStep, Progress
<1>12. InStepOf(t)'
  BY <1>1, <1>2, <1>3, <1>4, <1>5, <1>8, <1>9, <1>11 DEF InStepOf, At
<1>13. \A i : CountOf(t, i)' = CountOf(t, i)
  BY <1>8 DEF CountOf
<1> DEFINE k == iregions.nextevent[t]
           q == iregions.events[t]
<1>14. \A i \in 1 .. (k - 1) : q[i].icount <= n
  <2> TAKE i \in 1 .. (k - 1)
  <2>1. k \in 1 .. (Len(q) + 1) /\ q[i].icount <= iregions.count[t] /\ Len(q) \in Nat
    BY <1>1, <1>11 DEF ProgressOf, IregionsType
  <2>2. q \in Seq(RegionEvents)
    BY <1>1 DEF IregionsType
  <2> HIDE DEF q, k
  <2>3. i \in DOMAIN q
    BY <2>1, <2>2
  <2>4. q[i] \in RegionEvents
    BY <2>2, <2>3
  <2>5. q[i].icount \in Int
    BY <2>4 DEF RegionEvents
  <2> QED BY <1>2, <2>1, <2>5
<1>15. ProgressOf(t)'
  BY <1>1, <1>3, <1>4, <1>8, <1>9, <1>11, <1>13, <1>14 DEF ProgressOf, At
<1> QED BY <1>6, <1>7, <1>8, <1>10, <1>12, <1>15, StepOfOne

LEMMA ReturnStep ==
    ASSUME RegionsInv, NEW t \in Threads, AdvanceThenReturn(t)
    PROVE  RegionsInv'
<1> DEFINE c == NextEventCount(t)
<1>1. /\ IregionsType /\ iregions.stage[t] = "then" /\ c > iregions.count[t]
      /\ iregions' = [iregions EXCEPT !.next_event_count[t] = c, !.stage[t] = "done"]
      /\ UNCHANGED chainVars
  BY DEF AdvanceThenReturn, RegionsInv
<1>2. InStepOf(t) /\ ProgressOf(t)
  BY DEF RegionsInv, InStep, Progress
<1>3. /\ c = CountOf(t, iregions.nextevent[t]) /\ c \in Int
  <2>1. iregions.nextevent[t] \in Nat \ {0}
    BY <1>1, <1>2 DEF ProgressOf, IregionsType
  <2> QED BY <1>1, <2>1, CountType DEF NextEventCount
<1>4. /\ iregions.stage \in [Threads -> {"done", "if", "then"}]
      /\ iregions.next_event_count \in [Threads -> Int]
  BY <1>1 DEF IregionsType
<1>5. /\ icount' = icount /\ pc' = pc /\ ninst' = ninst
  BY <1>1 DEF chainVars, logVars
<1> HIDE DEF c
<1>6. IregionsType'
  BY <1>1, <1>3, <1>4 DEF IregionsType
<1>7. TypeOK'
  BY <1>1, <1>6 DEF RegionsInv, IregionsType, TypeOK, chainVars, alarmVars, managerVars,
                    logVars, localVars
<1>8. /\ iregions'.given = iregions.given /\ iregions'.events = iregions.events
      /\ iregions'.nextevent = iregions.nextevent /\ iregions'.count = iregions.count
      /\ iregions'.fired = iregions.fired
      /\ iregions'.next_event_count = [iregions.next_event_count EXCEPT ![t] = c]
      /\ iregions'.stage = [iregions.stage EXCEPT ![t] = "done"]
  BY <1>1 DEF IregionsType
<1>9. iregions'.next_event_count[t] = c /\ iregions'.stage[t] = "done"
  BY <1>4, <1>8
<1>10. \A u \in Threads \ {t} : Steady(u)
  BY <1>4, <1>5, <1>8 DEF Steady
<1>11. InStepOf(t)'
  BY <1>1, <1>2, <1>5, <1>8, <1>9 DEF InStepOf, At
<1>12. \A i : CountOf(t, i)' = CountOf(t, i)
  BY <1>8 DEF CountOf
<1>13. ProgressOf(t)'
  BY <1>1, <1>2, <1>3, <1>5, <1>8, <1>9, <1>12 DEF ProgressOf, At
<1> QED BY <1>6, <1>7, <1>8, <1>10, <1>11, <1>13, StepOfOne
LEMMA FireType ==
    ASSUME TypeOK, NEW t \in Threads, AdvanceThenFire(t), iregions'.active \in BOOLEAN
    PROVE  TypeOK'
<1> DEFINE e == NextEvent(t).type
           Entry == [tid : Threads, ev : {Start, Stop} \cup SubRegionEvents, at : Nat]
<1>1. out' \in Seq(Entry) /\ doTrace' \in BOOLEAN
  <2>1. CASE e \in {Start, Stop} /\ Handlers(t, e)
    BY <2>1, HandlersType
  <2>2. CASE e \in SubRegionEvents /\ LogEvent(t, e) /\ UNCHANGED doTrace
    <3>1. [tid |-> t, ev |-> e, at |-> icount[t]] \in Entry
      BY <2>2 DEF TypeOK
    <3>2. out \in Seq(Entry) /\ doTrace \in BOOLEAN
      BY DEF TypeOK
    <3>3. out' = Append(out, [tid |-> t, ev |-> e, at |-> icount[t]]) \/ out' = out
      BY <2>2 DEF LogEvent
    <3> HIDE DEF Entry
    <3> QED BY <2>2, <3>1, <3>2, <3>3
  <2> QED BY <2>1, <2>2 DEF AdvanceThenFire
<1>2. UNCHANGED <<alarmVars, managerVars, start_thread, icount, raised, pc, todo, ninst, cur,
                  localVars>>
  BY DEF AdvanceThenFire
<1> QED BY <1>1, <1>2 DEF TypeOK, alarmVars, managerVars, localVars

LEMMA FireStep ==
    ASSUME RegionsInv, NEW t \in Threads, AdvanceThenFire(t)
    PROVE  RegionsInv'
<1> DEFINE e == NextEvent(t)
           k == iregions.nextevent[t]
           q == iregions.events[t]
           f == iregions.fired[t]
<1>1. /\ IregionsType /\ iregions.stage[t] = "then" /\ NextEventCount(t) <= iregions.count[t]
      /\ iregions' = [iregions EXCEPT !.last_triggered_region[t] = e.region,
                                      !.nextevent[t] = @ + 1,
                                      !.fired[t] = Append(@, e)]
      /\ UNCHANGED <<icount, pc, ninst>>
  BY DEF AdvanceThenFire, RegionsInv
<1>2. InStepOf(t) /\ ProgressOf(t)
  BY DEF RegionsInv, InStep, Progress
<1>3. /\ k \in Nat \ {0} /\ q \in Seq(RegionEvents) /\ f \in Seq(RegionEvents)
      /\ iregions.nextevent \in [Threads -> Nat] /\ iregions.count[t] \in Nat
      /\ iregions.fired \in [Threads -> Seq(RegionEvents)]
      /\ iregions.last_triggered_region \in [Threads -> Records]
  BY <1>1, <1>2 DEF ProgressOf, IregionsType
\* The next event exists: a count that the thread has reached is no ICOUNT_MAX.
<1>4. k \in DOMAIN q /\ e = q[k] /\ e \in RegionEvents /\ e.icount <= iregions.count[t]
  <2>1. iregions.count[t] <= MaxIcount
    <3>1. /\ iregions.given => icount[t] = iregions.count[t] /\ icount[t] <= MaxIcount
          /\ ~iregions.given => iregions.stage[t] = "done"
      <4>1. icount[t] \in Nat
        BY DEF RegionsInv, TypeOK
      <4> QED BY <1>1, <1>2, <1>3, <4>1 DEF InStepOf
    <3> QED BY <1>1, <3>1
  <2>2. CountOf(t, k) \in Int /\ CountOf(t, k) <= iregions.count[t]
    BY <1>1, <1>3, CountType DEF NextEventCount
  <2>3. CountOf(t, k) < ICOUNT_MAX
    BY <1>3, <2>1, <2>2, BoundAssumption, RegionAssumption
  <2>4. k \in DOMAIN q /\ q[k] \in RegionEvents /\ CountOf(t, k) = q[k].icount
    BY <1>1, <1>3, <2>3, CountType
  <2> QED BY <2>2, <2>4 DEF NextEvent
<1>5. /\ e.region \in Records /\ Append(f, e) \in Seq(RegionEvents)
  BY <1>3, <1>4 DEF RegionEvents
<1> HIDE DEF e
<1>6. IregionsType'
  <2>1. /\ [iregions.last_triggered_region EXCEPT ![t] = e.region] \in [Threads -> Records]
        /\ [iregions.nextevent EXCEPT ![t] = k + 1] \in [Threads -> Nat]
        /\ [iregions.fired EXCEPT ![t] = Append(f, e)] \in [Threads -> Seq(RegionEvents)]
    BY <1>3, <1>5
  <2>2. iregions' = [iregions EXCEPT
            !.last_triggered_region = [iregions.last_triggered_region EXCEPT ![t] = e.region],
            !.nextevent = [iregions.nextevent EXCEPT ![t] = k + 1],
            !.fired = [iregions.fired EXCEPT ![t] = Append(f, e)]]
    BY <1>1 DEF IregionsType
  <2> QED BY <1>1, <2>1, <2>2 DEF IregionsType
<1>7. TypeOK'
  BY <1>6, FireType DEF RegionsInv, IregionsType
<1>8. /\ iregions'.given = iregions.given /\ iregions'.events = iregions.events
      /\ iregions'.count = iregions.count /\ iregions'.stage = iregions.stage
      /\ iregions'.next_event_count = iregions.next_event_count
      /\ iregions'.nextevent = [iregions.nextevent EXCEPT ![t] = k + 1]
      /\ iregions'.fired = [iregions.fired EXCEPT ![t] = Append(f, e)]
  BY <1>1 DEF IregionsType
<1>9. iregions'.nextevent[t] = k + 1 /\ iregions'.fired[t] = Append(f, e)
  BY <1>3, <1>8
<1>10. \A u \in Threads \ {t} : Steady(u)
  BY <1>1, <1>3, <1>8 DEF Steady
<1>11. InStepOf(t)'
  BY <1>1, <1>2, <1>8, <1>9 DEF InStepOf, At
<1>12. k \in 1 .. (Len(q) + 1) /\ Len(f) = k - 1
       /\ \A i \in 1 .. (k - 1) : f[i] = q[i] /\ q[i].icount <= iregions.count[t]
  BY <1>2 DEF ProgressOf
<1> HIDE DEF q, f, k
<1>13. k + 1 \in 1 .. (Len(q) + 1) /\ Len(Append(f, e)) = k
  BY <1>3, <1>4, <1>12
<1>14. \A i \in 1 .. k : Append(f, e)[i] = q[i] /\ q[i].icount <= iregions.count[t]
  <2> TAKE i \in 1 .. k
  <2>1. CASE i = k
    BY <1>3, <1>4, <1>12, <2>1
  <2>2. CASE i # k
    <3>1. i \in 1 .. (k - 1) /\ i \in 1 .. Len(f)
      BY <1>3, <1>12, <2>2
    <3> QED BY <1>3, <1>12, <3>1
  <2> QED BY <2>1, <2>2
<1>15. /\ iregions'.events[t] = q /\ iregions'.count[t] = iregions.count[t]
       /\ iregions'.stage[t] = "then" /\ (k + 1) - 1 = k
  BY <1>1, <1>3, <1>8 DEF q
<1>16. ProgressOf(t)'
  BY <1>9, <1>13, <1>14, <1>15 DEF ProgressOf
<1> QED BY <1>6, <1>7, <1>8, <1>10, <1>11, <1>16, StepOfOne

LEMMA RegionsStepInv == LogOn /\ RegionsInv /\ [RegionsNext]_vars => RegionsInv'
<1> SUFFICES ASSUME LogOn, RegionsInv, [RegionsNext]_vars PROVE RegionsInv'
  OBVIOUS
<1>1. CASE UNCHANGED vars
  <2>1. TypeOK'
    BY <1>1, StepType DEF RegionsInv
  <2>2. UNCHANGED <<iregions, icount, ninst, pc>>
    BY <1>1 DEF vars, logVars
  <2> QED BY <2>1, <2>2, RegionsFrame
<1>2. ASSUME NEW t \in Threads, Analysis(t) PROVE RegionsInv'
  <2>1. TypeOK /\ Next
    BY <1>2 DEF RegionsInv, Next
  <2>2. TypeOK'
    BY <2>1, StepType
  <2> QED BY <1>2, <2>1, <2>2, AnalysisFrame, RegionsFrame
<1>3. ASSUME NEW t \in Threads, RegionsThreadStart(t) PROVE RegionsInv'
  BY <1>3, ThreadStartStep
<1>4. ASSUME NEW t \in Threads, NEW b \in Blocks, RegionsExec(t, b) PROVE RegionsInv'
  BY <1>4, ExecStep
<1>5. ASSUME NEW t \in Threads, AdvanceIf(t) PROVE RegionsInv'
  BY <1>5, AdvanceIfStep
<1>6. ASSUME NEW t \in Threads, AdvanceThenFire(t) PROVE RegionsInv'
  BY <1>6, FireStep
<1>7. ASSUME NEW t \in Threads, AdvanceThenReturn(t) PROVE RegionsInv'
  BY <1>7, ReturnStep
<1> QED BY <1>1, <1>2, <1>3, <1>4, <1>5, <1>6, <1>7 DEF RegionsNext
-----------------------------------------------------------------------------
\* What the invariant says of the events of one thread that were fired.
LEMMA FiredEvents ==
    ASSUME RegionsInv, NEW t \in Threads
    PROVE  LET q == iregions.events[t]
               f == iregions.fired[t]
           IN  /\ q \in Seq(RegionEvents) /\ f \in Seq(RegionEvents)
               /\ Len(f) \in Nat /\ Len(f) <= Len(q) /\ iregions.nextevent[t] = Len(f) + 1
               /\ \A i \in DOMAIN f : i \in DOMAIN q /\ f[i] = q[i] /\ q[i].icount <= iregions.count[t]
               /\ \A i \in DOMAIN q : q[i].icount \in Int
               /\ \E E : /\ WellApart(E) /\ \A i \in DOMAIN q : q[i] \in E
                         /\ \A i, j \in DOMAIN q : i < j => q[i] # q[j] /\ EventLessThan(q[i], q[j])
<1> DEFINE q == iregions.events[t]
           f == iregions.fired[t]
<1>1. q \in Seq(RegionEvents) /\ f \in Seq(RegionEvents) /\ iregions.nextevent[t] \in Nat
  BY DEF RegionsInv, IregionsType
<1>2. /\ iregions.nextevent[t] \in 1 .. (Len(q) + 1) /\ Len(f) = iregions.nextevent[t] - 1
      /\ \A i \in 1 .. (iregions.nextevent[t] - 1) :
             f[i] = q[i] /\ q[i].icount <= iregions.count[t]
  BY DEF RegionsInv, Progress, ProgressOf
<1>3. PICK E : WellApart(E) /\ Listed(q, E)
  BY DEF RegionsInv, Lists
<1> HIDE DEF q, f
<1>4. \A i \in DOMAIN q : q[i].icount \in Int
  <2>1. \A i \in DOMAIN q : q[i] \in RegionEvents
    BY <1>1
  <2>2. \A e \in RegionEvents : e.icount \in Int
    BY DEF RegionEvents
  <2> QED BY <2>1, <2>2
<1>5. \A i, j \in DOMAIN q : i < j => q[i] # q[j] /\ EventLessThan(q[i], q[j])
  BY <1>3 DEF Listed
<1>6. \A i \in DOMAIN q : q[i] \in E
  BY <1>3 DEF Listed
<1>7. /\ Len(f) \in Nat /\ Len(f) <= Len(q) /\ iregions.nextevent[t] = Len(f) + 1
      /\ DOMAIN f = 1 .. Len(f) /\ DOMAIN q = 1 .. Len(q) /\ Len(q) \in Nat
  BY <1>1, <1>2
<1>8. \A i \in DOMAIN f : i \in DOMAIN q /\ f[i] = q[i] /\ q[i].icount <= iregions.count[t]
  <2> TAKE i \in DOMAIN f
  <2>1. i \in 1 .. (iregions.nextevent[t] - 1) /\ i \in DOMAIN q
    BY <1>7
  <2> QED BY <1>2, <2>1
<1> QED BY <1>1, <1>3, <1>4, <1>5, <1>6, <1>7, <1>8 DEF q, f

LEMMA OnTime == RegionsInv => EventsFiredOnTime
<1> SUFFICES ASSUME RegionsInv, NEW t \in Threads,
                    iregions.stage[t] = "done", iregions.count[t] > 0
             PROVE  /\ ToSet(iregions.fired[t]) =
                           {e \in ToSet(iregions.events[t]) : e.icount <= iregions.count[t]}
                    /\ IsInjective(iregions.fired[t])
  BY DEF EventsFiredOnTime
<1> DEFINE q == iregions.events[t]
           f == iregions.fired[t]
           c == iregions.count[t]
<1>1. /\ q \in Seq(RegionEvents) /\ f \in Seq(RegionEvents)
      /\ Len(f) \in Nat /\ Len(f) <= Len(q) /\ iregions.nextevent[t] = Len(f) + 1
      /\ \A i \in DOMAIN f : i \in DOMAIN q /\ f[i] = q[i] /\ q[i].icount <= c
      /\ \A i \in DOMAIN q : q[i].icount \in Int
      /\ \A i, j \in DOMAIN q : i < j => q[i] # q[j] /\ EventLessThan(q[i], q[j])
  BY FiredEvents
<1>2. CountOf(t, Len(f) + 1) > c /\ c \in Nat
  BY <1>1 DEF RegionsInv, Progress, ProgressOf, IregionsType
<1>3. Len(f) + 1 \in DOMAIN q => CountOf(t, Len(f) + 1) = q[Len(f) + 1].icount
  <2>1. Len(f) + 1 \in Nat \ {0}
    BY <1>1
  <2> QED BY <2>1, CountType DEF RegionsInv
<1> HIDE DEF q, f, c
<1>4. DOMAIN f = 1 .. Len(f) /\ DOMAIN q = 1 .. Len(q) /\ Len(q) \in Nat
  BY <1>1
<1>5. ASSUME NEW i \in DOMAIN q, q[i].icount <= c PROVE i \in DOMAIN f
  <2> SUFFICES ASSUME i \notin DOMAIN f PROVE FALSE
    OBVIOUS
  <2> DEFINE k == Len(f) + 1
  <2>1. i \in Nat /\ k \in DOMAIN q /\ k <= i
    BY <1>1, <1>4
  <2>2. q[k].icount > c /\ q[k].icount \in Int /\ q[i].icount \in Int
    BY <1>1, <1>2, <1>3, <2>1
  <2>3. q[k].icount <= q[i].icount
    <3>1. CASE i = k
      BY <2>2, <3>1
    <3>2. CASE i # k
      <4>1. EventLessThan(q[k], q[i])
        BY <1>1, <2>1, <3>2
      <4> QED BY <2>2, <4>1 DEF EventLessThan
    <3> QED BY <3>1, <3>2
  <2> HIDE DEF k
  <2> QED BY <1>2, <1>5, <2>2, <2>3
<1>6. ToSet(f) = {e \in ToSet(q) : e.icount <= c}
  BY <1>1, <1>5 DEF ToSet
<1>7. IsInjective(f)
  <2> SUFFICES ASSUME NEW i \in DOMAIN f, NEW j \in DOMAIN f, i # j PROVE f[i] # f[j]
    BY DEF IsInjective
  <2>1. i < j \/ j < i
    BY <1>4
  <2> QED BY <1>1, <2>1
<1> QED BY <1>6, <1>7 DEF q, f, c

LEMMA AsPictured == RegionsInv => RegionsAsPictured
<1> SUFFICES ASSUME RegionsInv, NEW t \in Threads,
                    NEW i \in DOMAIN iregions.fired[t], NEW j \in DOMAIN iregions.fired[t], i < j
             PROVE  LET a == iregions.fired[t][i]
                        b == iregions.fired[t][j]
                    IN  /\ a.region = b.region => Rank(a.type) < Rank(b.type)
                        /\ a.region # b.region /\ ~Around(a.region, b.region) =>
                               \A k \in DOMAIN iregions.fired[t] :
                                   iregions.fired[t][k].region = a.region => k < j
  BY DEF RegionsAsPictured
<1> DEFINE q == iregions.events[t]
           f == iregions.fired[t]
           a == f[i]
           b == f[j]
<1>1. PICK E : /\ f \in Seq(RegionEvents) /\ Len(f) \in Nat
               /\ \A m \in DOMAIN f : m \in DOMAIN q /\ f[m] = q[m]
               /\ WellApart(E) /\ \A m \in DOMAIN q : q[m] \in E
               /\ \A m, n \in DOMAIN q : m < n => q[m] # q[n] /\ EventLessThan(q[m], q[n])
  BY FiredEvents
<1> HIDE DEF q
<1>2. \A e \in E : /\ IsRegion(e.region)
                   /\ e = Event(e.region, e.icount, e.type) /\ e.icount \in Int
                   /\ Rank(e.type) \in 1 .. 8 /\ Picture[Rank(e.type)] = e.type
                   /\ e.icount = RankCount(e.region, Rank(e.type))
                   /\ SpanBegin(e.region) <= e.icount /\ e.icount <= SpanEnd(e.region)
                   /\ SpanBegin(e.region) \in Int /\ SpanEnd(e.region) \in Int
                   /\ e.icount \in {SpanBegin(e.region), PrologStart(e.region), e.region.start,
                                    e.region.end, SpanEnd(e.region)}
  <2> TAKE e \in E
  <2>1. IsRegion(e.region) /\ e \in EventsOfRegion(e.region)
    BY <1>1 DEF WellApart
  <2> QED BY <2>1, EventFacts
<1>3. /\ a \in E /\ b \in E /\ a # b /\ EventLessThan(a, b)
      /\ \A m \in DOMAIN f : f[m] \in E /\ m \in Nat
      /\ \A m, n \in DOMAIN f : m < n => EventLessThan(f[m], f[n])
  BY <1>1
<1> HIDE DEF f, a, b
<1>4. ASSUME a.region = b.region PROVE Rank(a.type) < Rank(b.type)
  <2> DEFINE x == Rank(a.type)
             y == Rank(b.type)
  <2>1. x \in 1 .. 8 /\ y \in 1 .. 8 /\ a.icount \in Int /\ b.icount \in Int
    BY <1>2, <1>3
  <2>2. x # y
    <3> SUFFICES ASSUME x = y PROVE FALSE
      OBVIOUS
    <3>1. a.icount = b.icount /\ a.type = b.type
      BY <1>2, <1>3, <1>4
    <3> QED BY <1>2, <1>3, <1>4, <3>1
  <2>3. a.icount = RankCount(b.region, x) /\ b.icount = RankCount(b.region, y)
        /\ IsRegion(b.region)
    BY <1>2, <1>3, <1>4
  <2>4. y <= x => RankCount(b.region, y) <= RankCount(b.region, x)
    BY <2>1, <2>3, RankCounts
  <2>5. a.icount < b.icount \/ (a.icount = b.icount /\ x <= y)
    BY <1>3 DEF EventLessThan
  <2> HIDE DEF x, y
  <2>6. x < y
    BY <2>1, <2>2, <2>3, <2>4, <2>5
  <2> QED BY <2>6 DEF x, y
<1>5. ASSUME a.region # b.region, ~Around(a.region, b.region),
             NEW k \in DOMAIN f, f[k].region = a.region
      PROVE  k < j
  <2> SUFFICES ASSUME ~(k < j) PROVE FALSE
    OBVIOUS
  <2> DEFINE d == f[k]
  <2>1. k # j /\ k \in Nat /\ j \in Nat
    BY <1>3, <1>5 DEF f, b
  <2>2. d \in E /\ EventLessThan(b, d)
    BY <1>3, <2>1 DEF f, b
  <2> HIDE DEF d
  <2>3. /\ a.icount \in Int /\ b.icount \in Int /\ d.icount \in Int
        /\ a.icount <= b.icount /\ b.icount <= d.icount
    BY <1>2, <1>3, <2>2 DEF EventLessThan
  <2>4. d.region = a.region
    BY <1>5 DEF d
  <2>5. CASE Apart(E, a.region, b.region)
    <3>1. /\ ~(SpanBegin(b.region) <= a.icount /\ a.icount <= SpanEnd(b.region))
          /\ ~(SpanBegin(b.region) <= d.icount /\ d.icount <= SpanEnd(b.region))
      BY <1>3, <2>2, <2>4, <2>5 DEF Apart
    <3>2. SpanBegin(b.region) <= b.icount /\ b.icount <= SpanEnd(b.region)
          /\ SpanBegin(b.region) \in Int /\ SpanEnd(b.region) \in Int
      BY <1>2, <1>3
    <3>3. a.icount < SpanBegin(b.region) /\ SpanEnd(b.region) < d.icount
      BY <2>3, <3>1, <3>2
    <3>4. Around(a.region, b.region)
      BY <1>2, <1>3, <2>2, <2>4, <3>3 DEF Around
    <3> QED BY <1>5, <3>4
  <2>6. CASE Apart(E, b.region, a.region)
    <3>1. ~(SpanBegin(a.region) <= b.icount /\ b.icount <= SpanEnd(a.region))
      BY <1>3, <2>6 DEF Apart
    <3>2. SpanBegin(a.region) <= a.icount /\ d.icount <= SpanEnd(a.region)
          /\ SpanBegin(a.region) \in Int /\ SpanEnd(a.region) \in Int
      BY <1>2, <1>3, <2>2, <2>4
    <3> QED BY <2>3, <3>1, <3>2
  <2> QED BY <1>1, <1>3, <1>5, <2>5, <2>6 DEF WellApart
<1> QED BY <1>4, <1>5 DEF f, a, b

(* With a bound on the instructions of a thread (LogOn), below the largest    *)
(* count: the state of the controller of regions is well typed.               *)
THEOREM RegionsTyped == ASSUME LogOn PROVE RegionsSpec => [](TypeOK /\ IregionsType)
<1>1. RegionsInv => TypeOK /\ IregionsType
  BY DEF RegionsInv
<1> QED BY <1>1, RegionsInitInv, RegionsStepInv, PTL DEF RegionsSpec

(* Whatever the files and the blocks: between blocks a thread has fired every *)
(* event whose count it has reached, once, and no other.                      *)
THEOREM EventsOnTime == ASSUME LogOn PROVE RegionsSpec => []EventsFiredOnTime
BY RegionsInitInv, RegionsStepInv, OnTime, PTL DEF RegionsSpec

(* Whatever the regions of a file, overlapping or nested: their events come   *)
(* in the order of the picture, and regions are not mixed up.                 *)
THEOREM InPictureOrder == ASSUME LogOn PROVE RegionsSpec => []RegionsAsPictured
BY RegionsInitInv, RegionsStepInv, AsPictured, PTL DEF RegionsSpec
(* The alarms and the regions together: the regions leave the alarms alone,   *)
(* so that each chain still runs as it would without them.                    *)
LEMMA ChainsInit == PerThreadChains /\ RegionsInit => Inv
<1> SUFFICES ASSUME PerThreadChains, RegionsInit PROVE Inv
  OBVIOUS
<1>1. InitChains /\ TypeOK
  BY RegionsInitInv DEF RegionsInit, RegionsInv
<1>2. Counters
  BY <1>1 DEF InitChains, Counters, PerThreadChains, FiresOnlyIfArmed, At
<1>3. \A t \in Threads, a \in AlarmIds :
        /\ armed[a][t] => a[2] = 1 /\ WaitFor[a[1]] = NoWait
        /\ ~InFlight(a, t)
  BY <1>1 DEF InitChains, Activated, InFlight
<1>4. OneStagePerThread
  BY <1>3, AlarmId DEF OneStagePerThread
<1>5. \A c \in Chains, t \in Threads : repeat[c][t] = 0 /\ ~Completed(c, t)
  BY <1>1 DEF InitChains, Completed
<1>6. Places
  BY <1>3, <1>4, <1>5, AlarmId, ChainAssumption DEF Places
<1> QED BY <1>1, <1>2, <1>6 DEF Inv

LEMMA ChainsStep ==
    PerThreadChains /\ Inv /\ TypeOK' /\ [RegionsNext]_vars => Inv'
<1> SUFFICES ASSUME PerThreadChains, Inv, TypeOK', [RegionsNext]_vars PROVE Inv'
  OBVIOUS
<1>1. CASE UNCHANGED vars
  BY <1>1, StepInv
<1>2. ASSUME NEW t \in Threads, Analysis(t) PROVE Inv'
  BY <1>2, StepInv DEF Next
<1>3. ASSUME NEW t \in Threads, RegionsThreadStart(t) PROVE Inv'
  <2>1. pc' = [pc EXCEPT ![t] = "run"] /\ UNCHANGED <<alarmVars, managerVars, cur, localVars>>
    BY <1>3 DEF RegionsThreadStart, BeginThread, Goto
  <2> QED BY <2>1, FrameInv DEF alarmVars, managerVars, localVars, Inv, TypeOK
<1>4. ASSUME NEW t \in Threads, NEW b \in Blocks, RegionsExec(t, b) PROVE Inv'
  <2>1. UNCHANGED <<alarmVars, managerVars, pc, cur, localVars>>
    BY <1>4 DEF RegionsExec, ReachBlock
  <2> QED BY <2>1, FrameInv DEF alarmVars, managerVars, localVars, Inv
<1>5. ASSUME NEW t \in Threads, AdvanceIf(t) \/ AdvanceThenFire(t) \/ AdvanceThenReturn(t)
      PROVE  Inv'
  <2>1. UNCHANGED <<alarmVars, managerVars, pc, cur, localVars>>
    BY <1>5 DEF AdvanceIf, AdvanceThenFire, AdvanceThenReturn, chainVars
  <2> QED BY <2>1, FrameInv DEF alarmVars, managerVars, localVars, Inv
<1> QED BY <1>1, <1>2, <1>3, <1>4, <1>5 DEF RegionsNext

(* A file of regions beside chains that wait does not let a thread enter a    *)
(* chain early, nor be at two places of one.                                  *)
THEOREM ChainsBesideRegions ==
    ASSUME LogOn, PerThreadChains
    PROVE  RegionsSpec => [](WaitsForCompletion /\ OneStagePerThread)
<1> DEFINE Both == RegionsInv /\ Inv
<1>1. Both => WaitsForCompletion /\ OneStagePerThread
  BY DEF Inv, Places, WaitsForCompletion
<1>2. RegionsInit => Both
  BY RegionsInitInv, ChainsInit
<1>3. Both /\ [RegionsNext]_vars => Both'
  <2> SUFFICES ASSUME RegionsInv, Inv, [RegionsNext]_vars PROVE RegionsInv' /\ Inv'
    OBVIOUS
  <2>1. RegionsInv'
    BY RegionsStepInv
  <2>2. TypeOK'
    BY <2>1 DEF RegionsInv
  <2> QED BY <2>1, <2>2, ChainsStep
<1> QED BY <1>1, <1>2, <1>3, PTL DEF RegionsSpec
=============================================================================
