-------------------------- MODULE AspenRefinement ---------------------------
(***************************************************************************)
(* The cluster implements RepairDecision: REPAIR-COMMITs of correct        *)
(* replicas are the votes, REPAIR-DONEs the decisions.                     *)
(***************************************************************************)
EXTENDS Aspen

VoteOf(c) == [from |-> c.from, round |-> c.round, hist |-> c.history_hash]
DecisionOf(d) == [round |-> d.round, hist |-> d.history_hash]

Decision == INSTANCE RepairDecision WITH
    votes <- {VoteOf(c) : c \in SentOf("RepairCommit")},
    decided <- {DecisionOf(d) : d \in SentOf("RepairDone")}

\* Every step of the cluster is a step of RepairDecision or leaves votes and
\* decisions alone: whatever the views, the order of delivery and the votes
\* of the faulty replicas, a round is decided once, for a history that n - f
\* replicas may have voted for, each of them once (repair.rs:160, 219).
ImplementsDecision == Decision!Spec
=============================================================================
