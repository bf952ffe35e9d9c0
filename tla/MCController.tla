---------------------------- MODULE MCController ----------------------------
(* Small instances of Controller for TLC: the chains of each run. *)
EXTENDS Controller, TLC

CONSTANTS t1, t2

IcountAlarm(e, n, b) ==
    [kind |-> "icount", ev |-> e, tid |-> AllThreads, bcast |-> b, count |-> n,
     uniform |-> FALSE, period |-> 0, length |-> 0, cycles |-> 0]
MarkAlarm(e, m, n) == [IcountAlarm(e, n, FALSE) EXCEPT !.kind = m]

\* start:icount:1,stop:icount:3 (the tool's -skip 1 -length 3)
SkipLength == << <<IcountAlarm(Start, 1, FALSE), IcountAlarm(Stop, 3, FALSE)>> >>
\* stop:icount:3,name:a (the tool's -length 3) and precond:ssc:m,stop:icount:1,waitfor:a
LengthThenMark == << <<IcountAlarm(Stop, 3, FALSE)>>,
                     <<MarkAlarm(Precond, "m", 1), IcountAlarm(Stop, 1, FALSE)>> >>
\* start:icount:1:bcast,stop:icount:2:bcast
Bcast == << <<IcountAlarm(Start, 1, TRUE), IcountAlarm(Stop, 2, TRUE)>> >>
\* uniform:3:2:2
Uniform == << <<[IcountAlarm(Start, 1, FALSE) EXCEPT !.uniform = TRUE,
                     !.period = 3, !.length = 2, !.cycles = 2]>> >>
\* The broadcast chain, and uniform:2:1:2:tid0 beside it.
BcastAndUniform ==
    Bcast \o << <<[Uniform[1][1] EXCEPT !.tid = t1, !.period = 2, !.length = 1]>> >>

Once == <<1>>
Twice == <<2>>
ForEver == <<Indefinite>>
OnceEach == <<1, 1>>
ForEverAndOnce == <<Indefinite, 1>>
NoneWaits == <<NoWait>>
NeitherWaits == <<NoWait, NoWait>>
SecondWaits == <<NoWait, 1>>

Blocks12 == {[size |-> 1, marks |-> {}], [size |-> 2, marks |-> {}]}
\* The marked instruction is the first one of its block.
BlocksMark == {[size |-> 1, marks |-> {}], [size |-> 1, marks |-> {"m"}]}
Sym == Permutations({t1, t2})
=============================================================================
