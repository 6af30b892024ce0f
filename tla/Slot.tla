-------------------------------- MODULE Slot --------------------------------
(***************************************************************************)
(* What a confirmer promises to the manager: a place for one generation,   *)
(* in which a later submission replaces the one that waits, until the one  *)
(* in it is granted; that one is then offered, without being replaced any  *)
(* more, and given away once.                                              *)
(***************************************************************************)
CONSTANTS
    Uuids,
    None

VARIABLES
    waiting,   \* the generation in the place, or None
    offered    \* it has been granted

vars == <<waiting, offered>>

Init == waiting = None /\ offered = FALSE

\* Mutant of Put: a generation that is waiting is not replaced.
PutFirst(u) ==
    /\ ~offered
    /\ waiting' = IF waiting = None THEN u ELSE waiting
    /\ offered' \in BOOLEAN

\* A generation is submitted; it may be granted at once.
Put(u) ==
    /\ ~offered
    /\ waiting' = u
    /\ offered' \in BOOLEAN

\* The user or the timer grants what waits.
Grant ==
    /\ waiting # None /\ ~offered
    /\ offered' = TRUE
    /\ UNCHANGED waiting

\* The manager takes it.
Take ==
    /\ offered
    /\ waiting' = None /\ offered' = FALSE

Next == (\E u \in Uuids : Put(u)) \/ Grant \/ Take

Spec == Init /\ [][Next]_vars
=============================================================================
