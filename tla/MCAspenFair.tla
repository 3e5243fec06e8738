---------------------------- MODULE MCAspenFair -----------------------------
(***************************************************************************)
(* Instances of AspenFair for TLC, over the scenarios of MCAspen.          *)
(***************************************************************************)
EXTENDS MCAspen, AspenFair
=============================================================================
