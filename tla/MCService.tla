----------------------------- MODULE MCService ------------------------------
(***************************************************************************)
(* Instances of Service for TLC.                                           *)
(***************************************************************************)
EXTENDS ServiceRefinement

CONSTANTS r0, r1, c0, c1

Order == <<r0, r1>>
OneOp == {Bytes(7)}
HostTasks == {"pump", "driver"}
Nothing == {}
SyncTimer == {SyncTimeout}

\* r1 hears the SYNCs of r0 and its own timer.
DriverOfR1(i, r) ==
    /\ r = r1
    /\ \/ i.type = "Sync" /\ i.from = r0
       \/ i.type = "SyncTimeout"
=============================================================================
