------------------------- MODULE ServiceRefinement --------------------------
(***************************************************************************)
(* The actors of Service implement the cluster of Aspen.  The instance is  *)
(* of AspenProofs, which is Aspen with its theorems, so that they can be   *)
(* cited of the service too.                                               *)
(***************************************************************************)
EXTENDS Service

Cluster == INSTANCE AspenProofs WITH rep <- state, sent <- produced

\* The actors, with their queues, implement the cluster: a turn of a loop is
\* one atomic step of one replica, whatever is queued elsewhere (node.rs:38).
ImplementsCluster == Cluster!Spec
=============================================================================
