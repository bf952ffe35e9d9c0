--------------------------------- MODULE Cache ---------------------------------
(***************************************************************************)
(* The caches of the tool: il1, dl1 and, with the dl2 knob, dl2; their     *)
(* sets, the sector flags of their lines and their statistics; the         *)
(* analysis calls for instructions, loads and stores; and the handler that *)
(* switches tracing, which another thread may do in the middle of a call.  *)
(* One application thread accesses the caches: CacheSet has the races of   *)
(* several.                                                                *)
(***************************************************************************)
EXTENDS Integers, FiniteSets

CONSTANTS
    DL2,          \* the dl2 knob
    Sets, Assoc,  \* the sets of each cache and their associativity
    LineSize,     \* bytes of a line of each cache
    SectorLen,    \* SECTOR_LEN
    WordLen,      \* WORD_LEN
    Track,        \* the kinds of access with individual counts: knobs ti, tl, ts
    Refs,         \* the accesses the application makes
    AddrMod,      \* modulus of the UINT32 an instruction address is passed as
    MaxCalls      \* bound: analysis calls

Caches == {"il1", "dl1"} \cup (IF DL2 THEN {"dl2"} ELSE {})
Kinds == {"inst", "load", "store"}
Types == {"load", "store"}
Outcomes == {"hit", "miss"}
Outcome(h) == IF h THEN "hit" ELSE "miss"

ASSUME CacheAssumption ==
    /\ DL2 \in BOOLEAN
    /\ Sets \in [Caches -> Nat \ {0}] /\ Assoc \in [Caches -> Nat \ {0}]
    /\ LineSize \in [Caches -> Nat \ {0}]
    /\ SectorLen \in Nat \ {0} /\ WordLen \in Nat
    /\ AddrMod \in Nat \ {0} /\ MaxCalls \in Nat
    /\ Track \subseteq Kinds
    /\ Refs \subseteq [kind : Kinds, addr : Nat, size : Nat \ {0}]

ASSUME SectorAssumption == \A l \in Caches : LineSize[l] % SectorLen = 0

VARIABLES
    tags, next,   \* the ways of every set and its index for replacement
    util,         \* CACHE_BASE::_lineUtil
    access,       \* CACHE_BASE::_access, by kind of access and hit
    touched,      \* COUNTER_TYPE_TOUCH, summed over the profile of a cache
    evicted,      \* COUNTER_TYPE_EVICT, summed likewise
    profile,      \* iprofile and dprofile, summed over instructions
    doTrace,      \* whether statistics are recorded
    pc,           \* "idle", "line", "count" or "profile"
    ref,          \* the access being made
    level, addr,  \* the cache being accessed and where
    recording,    \* Access's parameter doTrace, read when the cache is entered
    allHit,       \* Access: whether every line so far was a hit
    torn,         \* history: tracing was switched during this call
    tears,        \* history: the number of calls during which it was
    calls         \* bound: analysis calls made

stats == <<access, touched, evicted>>
history == <<torn, tears>>
vars == <<tags, next, util, stats, profile, doTrace, pc, ref, level, addr, allHit, recording,
          history, calls>>

Ways(l) == 0..(Assoc[l] - 1)
\* The way to replace after way w.
WayBeforeUnwrapped(l, w) == w - 1
WayBefore(l, w) == IF w = 0 THEN Assoc[l] - 1 ELSE w - 1
NumSectors(l) == LineSize[l] \div SectorLen
NumLines(l) == Sets[l] * Assoc[l]

\* SplitAddress: tag, set and sector of an address.
Tag(l, a) == a \div LineSize[l]
SetIndex(l, a) == Tag(l, a) % Sets[l]
LineIndex(l, a) == (a % LineSize[l]) \div SectorLen

\* Where the flags of a line begin, and the flag of an address in it.
LineOffset(l, s, w) == s * Assoc[l] + w
Sectors(l, s, w) == LineOffset(l, s, w) .. (LineOffset(l, s, w) + NumSectors(l) - 1)
Flag(l, w, a) == LineOffset(l, SetIndex(l, a), w) + LineIndex(l, a)

\* Where the next line begins.
NextLineUnaligned(l, a) == a + LineSize[l]
NextLine(l, a) == (Tag(l, a) + 1) * LineSize[l]

\* Accesses of at most a word are made by the routines for a single line.
Single(r) == r.size <= WordLen
AccessType(r) == IF r.kind = "store" THEN "store" ELSE "load"
FirstLevel(r) == IF r.kind = "inst" THEN "il1" ELSE "dl1"

\* Every way starts with CACHE_TAG(0).
Init ==
    /\ tags = [l \in Caches |-> [s \in 0..(Sets[l] - 1) |-> [w \in Ways(l) |-> 0]]]
    /\ next = [l \in Caches |-> [s \in 0..(Sets[l] - 1) |-> Assoc[l] - 1]]
    /\ util = [l \in Caches |-> [k \in 0..(NumLines(l) * NumSectors(l) - 1) |-> FALSE]]
    /\ access = [l \in Caches |-> [ty \in Types |-> [o \in Outcomes |-> 0]]]
    /\ touched = [l \in Caches |-> 0]
    /\ evicted = [l \in Caches |-> 0]
    /\ profile = [p \in {"il1", "dl1"} |-> [o \in Outcomes |-> 0]]
    /\ doTrace = FALSE
    /\ pc = "idle"
    /\ ref \in Refs
    /\ level = "dl1" /\ addr = 0 /\ allHit = TRUE /\ recording = FALSE
    /\ torn = FALSE /\ tears = 0
    /\ calls = 0
-----------------------------------------------------------------------------
\* cache.cpp: Handler. The controller raises its events in every thread, in this
\* one between two analysis calls and in the others at any time.
Handler ==
    /\ doTrace' = ~doTrace
    /\ torn' = (pc # "idle")
    /\ tears' = IF torn' /\ ~torn THEN tears + 1 ELSE tears
    /\ UNCHANGED <<tags, next, util, stats, profile, pc, ref, level, addr, allHit, recording,
                   calls>>

\* Cache l is entered at address a.
Enter(l, a) ==
    pc' = "line" /\ level' = l /\ addr' = a /\ allHit' = TRUE /\ recording' = doTrace

\* An analysis call: an instruction's address is passed as a UINT32.
Call(r) ==
    /\ pc = "idle" /\ calls < MaxCalls
    /\ calls' = calls + 1
    /\ ref' = r
    /\ Enter(FirstLevel(r), IF r.kind = "inst" THEN r.addr % AddrMod ELSE r.addr)
    /\ UNCHANGED <<tags, next, util, stats, profile, doTrace, history>>

\* The access goes on with the next line, if there is one.
HighAddr == (IF ref.kind = "inst" THEN ref.addr % AddrMod ELSE ref.addr) + ref.size
Advance ==
    /\ addr' = NextLine(level, addr)
    /\ pc' = IF ~Single(ref) /\ addr' < HighAddr THEN "line" ELSE "count"
    /\ UNCHANGED <<access, profile, doTrace, ref, level, recording, history, calls>>

Set == SetIndex(level, addr)
WaysHolding == {w \in Ways(level) : tags[level][Set][w] = Tag(level, addr)}

\* Whether all lines of the access are hits, after one more with result h.
AllHitOfLast(h) == h
AllHitWith(h) == allHit /\ h

\* A line that is found: its sector is marked as used.
LineHit ==
    /\ pc = "line"
    /\ \E w \in WaysHolding :
           /\ \A v \in WaysHolding : v <= w
           /\ util' = [util EXCEPT ![level][Flag(level, w, addr)] = TRUE]
    /\ allHit' = AllHitWith(TRUE)
    /\ UNCHANGED <<tags, next, touched, evicted>>
    /\ Advance

\* Loads and stores allocate (STORE_ALLOCATE in cache.cpp).
AllocatesLoadsOnly == AccessType(ref) = "load"
Allocates == TRUE

\* A line that is not found replaces one: the used sectors of the way are
\* counted, then all are cleared but the one accessed.
LineMiss ==
    /\ pc = "line" /\ WaysHolding = {}
    /\ \/ /\ Allocates
          /\ LET w == next[level][Set]
                 sectors == Sectors(level, Set, w)
             IN  /\ tags' = [tags EXCEPT ![level][Set][w] = Tag(level, addr)]
                 /\ next' = [next EXCEPT ![level][Set] = WayBefore(level, w)]
                 /\ util' = [util EXCEPT ![level] = [k \in DOMAIN @ |->
                                IF k \in sectors THEN k = Flag(level, w, addr) ELSE @[k]]]
                 /\ IF recording
                    THEN /\ touched' = [touched EXCEPT ![level] = @ +
                                Cardinality({k \in sectors : util[level][k]})]
                         /\ evicted' = [evicted EXCEPT ![level] = @ + 1]
                    ELSE UNCHANGED <<touched, evicted>>
       \/ /\ ~Allocates
          /\ UNCHANGED <<tags, next, util, touched, evicted>>
    /\ allHit' = AllHitWith(FALSE)
    /\ Advance

\* A miss in dl1 goes on to dl2.
GoesToDL2Always == DL2 /\ level = "dl1"
GoesToDL2 == DL2 /\ level = "dl1" /\ ~allHit

\* The end of an access to one cache: it is one hit or one miss, however many
\* lines it touched. The instruction's own counter is for the first level; it
\* is counted if doTrace is set now.
CountIn(recorded) ==
    /\ pc = "count"
    /\ access' = IF recording THEN [access EXCEPT ![level][AccessType(ref)][Outcome(allHit)] = @ + 1]
                              ELSE access
    /\ \/ GoesToDL2 /\ Enter("dl2", ref.addr) /\ UNCHANGED <<profile, torn>>
       \/ /\ ~GoesToDL2 /\ pc' = "idle" /\ torn' = FALSE
          /\ profile' = IF doTrace /\ ref.kind \in Track
                        THEN [profile EXCEPT ![FirstLevel(ref)][Outcome(recorded)] = @ + 1]
                        ELSE profile
          /\ UNCHANGED <<level, addr, allHit, recording>>
    /\ UNCHANGED <<tags, next, util, touched, evicted, doTrace, ref, tears, calls>>
FirstLevelHit == level # "dl2" /\ allHit
CountLastLevel == CountIn(allHit)
Count == CountIn(FirstLevelHit)

Next == Handler \/ (\E r \in Refs : Call(r)) \/ LineHit \/ LineMiss \/ Count

Spec == Init /\ [][Next]_vars
-----------------------------------------------------------------------------
\* Type invariant.
TypeOK ==
    /\ \A l \in Caches : \A s \in 0..(Sets[l] - 1) :
           next[l][s] \in Ways(l) /\ \A w \in Ways(l) : tags[l][s][w] \in Nat
    /\ \A l \in Caches : util[l] \in [0..(NumLines(l) * NumSectors(l) - 1) -> BOOLEAN]
    /\ access \in [Caches -> [Types -> [Outcomes -> Nat]]]
    /\ touched \in [Caches -> Nat] /\ evicted \in [Caches -> Nat]
    /\ profile \in [{"il1", "dl1"} -> [Outcomes -> Nat]]
    /\ doTrace \in BOOLEAN /\ recording \in BOOLEAN /\ torn \in BOOLEAN
    /\ tears \in 0..calls
    /\ pc \in {"idle", "line", "count"}
    /\ ref \in Refs /\ level \in Caches /\ addr \in Nat
    /\ allHit \in BOOLEAN /\ calls \in 0..MaxCalls

Hits(l) == access[l]["load"]["hit"] + access[l]["store"]["hit"]
Misses(l) == access[l]["load"]["miss"] + access[l]["store"]["miss"]

\* m and n differ by at most d.
Within(m, n, d) == m - n <= d /\ n - m <= d

\* Between two analysis calls the second level has counted the accesses that the
\* first level counted as misses. doTrace is read anew for each level, so a call
\* during which another thread switches tracing may be counted in one level
\* only; wherever else it is switched, the numbers are exact (cache.cpp:
\* LoadSingle, StoreMulti and their kin).
DL2ServesDL1Misses ==
    DL2 /\ pc = "idle" => \A ty \in Types :
        Within(access["dl2"][ty]["hit"] + access["dl2"][ty]["miss"],
               access["dl1"][ty]["miss"], tears)

\* The lines an access covers in cache l.
Base == IF ref.kind = "inst" THEN ref.addr % AddrMod ELSE ref.addr
LinesOf(l) == Tag(l, Base) .. Tag(l, Base + ref.size - 1)

\* Every line that an access covers is in the cache when the access is over
\* (cache.H: Access covers addr to addr+size-1, AccessSingleLine never two lines).
AccessedLinesResident ==
    pc = "count" => \A x \in LinesOf(level) :
        \E w \in Ways(level) : tags[level][x % Sets[level]][w] = x

\* The utilisation is averaged over evictions and the miss rate over accesses:
\* a counted miss has brought in, and evicted, at least one line ...
EveryMissFills ==
    pc = "idle" => \A l \in Caches : Misses(l) <= evicted[l]

\* ... and at most the lines it covers.
Span(l, r) == (r.addr + r.size - 1) \div LineSize[l] - r.addr \div LineSize[l] + 1
FillsBounded ==
    pc = "idle" => \A l \in Caches :
        \E r \in Refs : evicted[l] <= Span(l, r) * Misses(l)

\* With the knobs ti, tl and ts, the counters of the instructions add up to the
\* hits and misses of il1 and dl1, but for calls during which tracing was switched.
ProfileAgrees ==
    pc = "idle" /\ Track = Kinds => \A p \in {"il1", "dl1"} :
        /\ Within(profile[p]["hit"], Hits(p), tears)
        /\ Within(profile[p]["miss"], Misses(p), tears)

\* The numbers of the final report fit each other: an access misses when one of
\* its lines does, whichever it is, and is charged to its instruction as it is
\* to the cache (cache.H, Access; cache.cpp, LoadMulti and the like).
ReportAgrees == FillsBounded /\ ProfileAgrees

\* A line in the cache was brought in by an access to one of its sectors, so at
\* least one of its sector flags is set (cache.H:331, one flag per sector of
\* every line).
ResidentLineTouched ==
    \A l \in Caches : \A s \in 0..(Sets[l] - 1), w \in Ways(l) :
        tags[l][s][w] # 0 => \E k \in Sectors(l, s, w) : util[l][k]
=============================================================================
