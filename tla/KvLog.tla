------------------------------- MODULE KvLog --------------------------------
(***************************************************************************)
(* What the replica expects of a persistent log store (KvStoreOps): a log  *)
(* that changes by put and by rebuild_from_entries, each at once.  A crash *)
(* takes it back to an earlier state, or to the empty log when a rebuild   *)
(* was among the writes that are lost.                                     *)
(***************************************************************************)
EXTENDS AspenTypes

CONSTANT Sizes       \* the log sizes that alignment and repair rebuild to

VARIABLES
    log,             \* the entries, oldest first
    past             \* the logs a crash may leave

Init == log = <<>> /\ past = {<<>>}

Put(idx) ==
    /\ log' = put(log, idx,
                  [op_hash |-> idx,
                   prev_hash |-> IF idx > 0 THEN hash_at(log, idx - 1) ELSE ZeroHash])
    /\ past' = past \cup {log'}

Rebuild(n) ==
    /\ log' = rebuilt(n)
    /\ past' = past \cup {<<>>, log'}

Crash ==
    /\ log' \in past
    /\ past' = {log'}

Next ==
    \/ \E idx \in 0 .. Len(log) : Put(idx)
    \/ \E n \in Sizes : Rebuild(n)
    \/ Crash

Spec == Init /\ [][Next]_<<log, past>>
=============================================================================
