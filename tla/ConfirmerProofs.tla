-------------------------- MODULE ConfirmerProofs --------------------------
(***************************************************************************)
(* Proofs about Confirmer, for every set of generations and every mode.    *)
(***************************************************************************)
EXTENDS Confirmer, TLAPS

\* Every step keeps the type of each variable.
LEMMA TypeStep == TypeOK /\ [Next]_vars => TypeOK'
<1> SUFFICES ASSUME TypeOK, [Next]_vars PROVE TypeOK'
  OBVIOUS
<1> USE DEF TypeOK, state, history
<1>1. ASSUME NEW u \in Uuids, Submit(u) PROVE TypeOK'
  <2>1. /\ AutoconfirmStarted' \in BOOLEAN
        /\ notified' \in BOOLEAN
        /\ cancelled' \in BOOLEAN
    BY <1>1, Zenon DEF Submit, Settle
  <2> QED
    BY <2>1, <1>1 DEF Submit, Settle
<1>2. ASSUME NEW u \in Uuids, Confirm(u) PROVE TypeOK'
  <2>1. notified' \in BOOLEAN
    BY <1>2, Zenon DEF Confirm, Settle
  <2> QED
    BY <2>1, <1>2 DEF Confirm, Settle
<1>3. CASE Cancel
  <2>1. notified' \in BOOLEAN /\ AutoconfirmStarted' \in BOOLEAN /\ cancelled' \in BOOLEAN
    BY <1>3, Zenon DEF Cancel, Settle
  <2> QED
    BY <2>1, <1>3 DEF Cancel, Settle
<1>4. CASE Tick
  <2>1. notified' \in BOOLEAN /\ AutoconfirmStarted' \in BOOLEAN
    BY <1>4, Zenon DEF Tick, Settle
  <2> QED
    BY <2>1, <1>4 DEF Tick, Settle
<1>5. CASE Deliver
  <2>1. AutoconfirmStarted' \in BOOLEAN
    BY <1>5, Zenon DEF Deliver
  <2> QED
    BY <2>1, <1>5 DEF Deliver
<1>6. CASE UNCHANGED vars
  BY <1>6 DEF vars
<1> QED
  BY <1>1, <1>2, <1>3, <1>4, <1>5, <1>6 DEF Next

\* Every variable keeps its type.
THEOREM TypeCorrect == Spec => []TypeOK
<1>1. Init => TypeOK
  BY DEF Init, TypeOK
<1> QED
  BY <1>1, TypeStep, PTL DEF Spec

-----------------------------------------------------------------------------
\* The loop delivers the generation that is both submitted and confirmed; one that
\* still waits has not been delivered.
DeliversSubmitted ==
    /\ Submitted # None => Submitted = latest
    /\ loop = "deliver" => Submitted # None /\ Confirmed = Submitted
    /\ loop = "select" /\ Submitted # None => ~notified

\* In the mode Manual, and after a Cancel, no timer runs and what is confirmed was
\* confirmed by the user.
ConfirmedByUser ==
    mode = "Manual" \/ cancelled =>
        timer = None /\ (Confirmed # None => Confirmed \in granted)

SafetyInv == TypeOK /\ DeliversSubmitted /\ ConfirmedByUser /\ AutoHasTimer

\* Every step preserves the invariant of the confirmer.
LEMMA SafetyStep == SafetyInv /\ [Next]_vars => SafetyInv'
<1> SUFFICES ASSUME SafetyInv, [Next]_vars PROVE SafetyInv'
  OBVIOUS
<1>0. TypeOK'
  BY TypeStep DEF SafetyInv
<1>a. TypeOK /\ DeliversSubmitted /\ ConfirmedByUser /\ AutoHasTimer
  BY DEF SafetyInv
<1> SUFFICES (DeliversSubmitted /\ ConfirmedByUser /\ AutoHasTimer)'
  BY <1>0 DEF SafetyInv
<1> USE <1>a, UuidsAssumption
        DEF TypeOK, Modes, DeliversSubmitted, ConfirmedByUser, AutoHasTimer, state, history
<1>1. ASSUME NEW u \in Uuids, Submit(u)
      PROVE  (DeliversSubmitted /\ ConfirmedByUser /\ AutoHasTimer)'
  BY <1>1 DEF Submit, Settle
<1>2. ASSUME NEW u \in Uuids, Confirm(u)
      PROVE  (DeliversSubmitted /\ ConfirmedByUser /\ AutoHasTimer)'
  BY <1>2 DEF Confirm, Settle
<1>3. CASE Cancel
  BY <1>3 DEF Cancel, Settle
<1>4. CASE Tick
  BY <1>4 DEF Tick, Settle
<1>5. CASE Deliver
  BY <1>5 DEF Deliver
<1>6. CASE UNCHANGED vars
  BY <1>6 DEF vars
<1> QED
  BY <1>1, <1>2, <1>3, <1>4, <1>5, <1>6 DEF Next

\* The invariant of the confirmer holds in every reachable state.
LEMMA SafetyAlways == Spec => []SafetyInv
<1>1. Init => SafetyInv
  BY DEF Init, SafetyInv, TypeOK, DeliversSubmitted, ConfirmedByUser, AutoHasTimer
<1> QED
  BY <1>1, SafetyStep, PTL DEF Spec

\* Only the generation submitted last is ever handed over to the manager.
THEOREM LatestIsDelivered == Spec => []DeliversLatest
<1>1. SafetyInv => DeliversLatest
  BY DEF SafetyInv, DeliversSubmitted, DeliversLatest
<1> QED
  BY <1>1, SafetyAlways, PTL

\* In the mode Manual, each delivery uses up a confirmation of its generation.
THEOREM ManualIsConfirmed == Spec => []ManualNeedsUser
<1>1. SafetyInv => ManualNeedsUser
  BY DEF SafetyInv, DeliversSubmitted, ConfirmedByUser, ManualNeedsUser
<1> QED
  BY <1>1, SafetyAlways, PTL

\* A cancelled generation is only delivered after the user has confirmed it.
THEOREM CancelPrevails == Spec => []CancelIsFinal
<1>1. SafetyInv => CancelIsFinal
  BY DEF SafetyInv, DeliversSubmitted, ConfirmedByUser, CancelIsFinal
<1> QED
  BY <1>1, SafetyAlways, PTL

\* In the mode Auto, a waiting generation has a timer started for itself.
THEOREM AutoIsTimed == Spec => []AutoHasTimer
<1>1. SafetyInv => AutoHasTimer
  BY DEF SafetyInv
<1> QED
  BY <1>1, SafetyAlways, PTL

-----------------------------------------------------------------------------
\* Every step of the confirmer is a step of the place, or leaves it as it is.
LEMMA PlaceStep == SafetyInv /\ [Next]_vars => [Place!Next]_(Place!vars)
<1> SUFFICES ASSUME SafetyInv, [Next]_vars PROVE [Place!Next]_(Place!vars)
  OBVIOUS
<1> USE UuidsAssumption DEF Place!vars
<1>a. (loop' = "deliver") \in BOOLEAN
  OBVIOUS
<1>1. ASSUME NEW u \in Uuids, Submit(u) PROVE Place!Next
  <2>1. Place!Put(u)
    BY <1>1, <1>a DEF Submit, Settle, Place!Put
  <2> QED
    BY <2>1 DEF Place!Next
<1>2. ASSUME NEW u \in Uuids, Confirm(u) PROVE Place!Grant \/ UNCHANGED Place!vars
  BY <1>2 DEF Confirm, Settle, Place!Grant
<1>3. CASE Cancel
  BY <1>3 DEF Cancel, Settle
<1>4. ASSUME Tick PROVE Place!Grant \/ UNCHANGED Place!vars
  BY <1>4 DEF Tick, Settle, Place!Grant
<1>5. ASSUME Deliver PROVE Place!Take
  BY <1>5 DEF Deliver, Place!Take
<1>6. CASE UNCHANGED vars
  BY <1>6 DEF vars, state
<1> QED
  BY <1>1, <1>2, <1>3, <1>4, <1>5, <1>6 DEF Next, Place!Next

\* For every set of generations and in every mode, the confirmer is a place in which
\* the last submission replaces the others until it is granted, and from which what
\* was granted is given away once.
THEOREM ConfirmerIsSlot == Spec => ImplementsSlot
<1>1. Init => Place!Init
  BY DEF Init, Place!Init
<1> QED
  BY <1>1, SafetyAlways, PlaceStep, PTL DEF Spec, ImplementsSlot, Place!Spec
=============================================================================
