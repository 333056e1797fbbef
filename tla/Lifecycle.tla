----------------------------- MODULE Lifecycle -----------------------------
(***************************************************************************)
(* What the lifecycle of one identity promises, with no log, no signatures *)
(* and no copies: it is issued once, its operational key may be rotated,   *)
(* its entity key is the one it was issued with, and a revocation ends it. *)
(* `length' counts the events that took effect, so an event that would     *)
(* take effect twice is a behaviour this module does not have.             *)
(* EventReduce is shown to implement it.                                   *)
(***************************************************************************)
EXTENDS Naturals

CONSTANTS Key,      \* key thumbprints
          NoState   \* "no lifecycle yet", not a LifecycleState

LifecycleState == [status : {"ACTIVE", "REVOKED"}, entity : Key, operational : Key]

VARIABLES state,    \* NoState, or the computed lifecycle state
          length    \* how many events took effect

lifecycleVars == <<state, length>>

Init ==
  /\ state = NoState
  /\ length = 0

Issue ==
  /\ state = NoState
  /\ \E entity, operational \in Key :
       state' = [status |-> "ACTIVE", entity |-> entity, operational |-> operational]
  /\ length' = 1

Rotate ==
  /\ state # NoState
  /\ state.status = "ACTIVE"
  /\ \E operational \in Key : state' = [state EXCEPT !.operational = operational]
  /\ length' = length + 1

Revoke ==
  /\ state # NoState
  /\ state.status = "ACTIVE"
  /\ state' = [state EXCEPT !.status = "REVOKED"]
  /\ length' = length + 1

Next == Issue \/ Rotate \/ Revoke

Spec == Init /\ [][Next]_lifecycleVars
=============================================================================
