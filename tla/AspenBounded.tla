---------------------------- MODULE AspenBounded ----------------------------
(***************************************************************************)
(* Aspen cut down to a size TLC can explore: a step of BoundedNext is one  *)
(* of Next that keeps within the bounds.                                   *)
(***************************************************************************)
EXTENDS Aspen

CONSTANTS
    MaxLog,          \* bound: no speculation at or beyond this log size
    MaxRound,        \* bound: a replica that reaches this round stops
    MaxView          \* bound: no step into a later view

ASSUME BoundAssumption == MaxLog \in Nat /\ MaxRound \in Nat /\ MaxView \in Nat

BoundedNext ==
    \E r \in Correct :
        /\ rep[r].round < MaxRound
        /\ \/ rep[r].kv_size < MaxLog /\ \E m \in Requests : ReceiveMessage(r, m)
           \/ \E m \in sent \cup FaultyMessages : Reaches(m, r) /\ ReceiveMessage(r, m)
           \/ \E e \in Timers : TimerEvent(r, e)
        /\ rep'[r].view <= MaxView

BoundedSpec == Init /\ [][BoundedNext]_vars
=============================================================================
