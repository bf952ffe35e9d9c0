---------------------------- MODULE BoundedStack ----------------------------
(***************************************************************************)
(* What FIXED_LIFO promises the threads that share it: a stack of objects  *)
(* with a fixed number of slots.  A slot is reserved for an object before  *)
(* the object is put on the stack, and is released after the object was    *)
(* taken off; between the two nobody else has the slot, and the object in  *)
(* it does not change.                                                     *)
(***************************************************************************)
EXTENDS Naturals, Sequences

CONSTANTS Object, Slots

VARIABLES
    stack,     \* the slots with their objects, last in first
    spare,     \* the slots nobody uses
    reserved,  \* the slots with objects not yet on the stack
    taken      \* the slots of objects that were taken off

vars == <<stack, spare, reserved, taken>>

Init == stack = << >> /\ spare = Slots /\ reserved = {} /\ taken = {}

Reserve(s, o) ==
    /\ s \in spare
    /\ spare' = spare \ {s}
    /\ reserved' = reserved \cup {<<s, o>>}
    /\ UNCHANGED <<stack, taken>>

Push(s, o) ==
    /\ <<s, o>> \in reserved
    /\ reserved' = reserved \ {<<s, o>>}
    /\ stack' = <<<<s, o>>>> \o stack
    /\ UNCHANGED <<spare, taken>>

Pop ==
    /\ stack # << >>
    /\ stack' = Tail(stack)
    /\ taken' = taken \cup {stack[1][1]}
    /\ UNCHANGED <<spare, reserved>>

\* All objects are taken off at once.
TakeAll ==
    /\ stack' = << >>
    /\ taken' = taken \cup {stack[i][1] : i \in DOMAIN stack}
    /\ UNCHANGED <<spare, reserved>>

Release(s) ==
    /\ s \in taken
    /\ taken' = taken \ {s}
    /\ spare' = spare \cup {s}
    /\ UNCHANGED <<stack, reserved>>

Next ==
    \/ \E s \in Slots : (\E o \in Object : Reserve(s, o) \/ Push(s, o)) \/ Release(s)
    \/ Pop
    \/ TakeAll

Spec == Init /\ [][Next]_vars
=============================================================================
