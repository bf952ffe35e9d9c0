------------------------------- MODULE FifoSet -------------------------------
(***************************************************************************)
(* What one set of the data cache promises its caller: it holds the lines  *)
(* of the last Assoc misses, says hit exactly when the line is one of      *)
(* them, and replaces the oldest one on a miss.                            *)
(***************************************************************************)
EXTENDS Naturals

CONSTANTS Assoc,   \* the associativity
          Lines,   \* the line tags the application uses
          NoLine   \* the content of an unused way

Slots == 1..Assoc

VARIABLES queue,   \* the lines, the oldest first
          phase,   \* "idle", "asked" or "missed"
          asked,   \* the line asked for
          found    \* the answer to the last question, once it is given

fifoVars == <<queue, phase, asked, found>>

Holds(x) == \E i \in Slots : queue[i] = x
Pushed(q, x) == [i \in Slots |-> IF i = Assoc THEN x ELSE q[i + 1]]

Init == /\ queue = [i \in Slots |-> NoLine]
        /\ phase = "idle"
        /\ asked \in Lines
        /\ found \in BOOLEAN

Ask == /\ phase = "idle"
       /\ phase' = "asked"
       /\ asked' \in Lines
       /\ found' \in BOOLEAN
       /\ UNCHANGED queue

Hit == /\ phase = "asked" /\ Holds(asked)
       /\ phase' = "idle"
       /\ found' = TRUE
       /\ UNCHANGED <<queue, asked>>

Miss == /\ phase = "asked" /\ ~Holds(asked)
        /\ phase' = "missed"
        /\ found' = FALSE
        /\ UNCHANGED <<queue, asked>>

Fill == /\ phase = "missed"
        /\ phase' = "idle"
        /\ queue' = Pushed(queue, asked)
        /\ UNCHANGED <<asked, found>>

Next == Ask \/ Hit \/ Miss \/ Fill

Spec == Init /\ [][Next]_fifoVars
=============================================================================
