---------------------------- MODULE AspenClaims -----------------------------
(***************************************************************************)
(* What the repository says of the replica and the code does not do.  Every*)
(* definition here is refuted by a run; the invariants that hold are in    *)
(* Aspen.                                                                  *)
(***************************************************************************)
EXTENDS Aspen

\* specs/aspen.qnt:862: any two correct replicas that have checkpointed the
\* same index agree on its hash.
CheckpointAgreement ==
    \A r, q \in Correct :
        rep[r].chkpt_idx = rep[q].chkpt_idx /\ rep[r].chkpt_idx > 0 =>
            rep[r].chkpt_hash = rep[q].chkpt_hash

\* repair.rs:321: a replica that catches up follows a correct one that has
\* successfully exited REPAIR.
CatchupBacked ==
    \A r \in Correct :
        rep[r].round > 0 =>
            \E d \in SentOf("RepairDone") : d.round = rep[r].round - 1
=============================================================================
