--------------------------- MODULE Checkpointing ----------------------------
(***************************************************************************)
(* checkpoint.rs: SYNC messages and the checkpoints formed from them.      *)
(***************************************************************************)
EXTENDS AspenTypes

\* Mutant: no check that the log is non-empty, so kv_size - 1 underflows.
can_send_sync_on_event_empty(s, e) ==
    e.type = "SyncTimeout" /\ s.phase = "Speculative"

can_send_sync_on_event(s, e) ==
    /\ e.type = "SyncTimeout"
    /\ s.phase = "Speculative"
    /\ s.kv_size > 0

can_send_sync_threshold(s) ==
    /\ s.phase = "Speculative"
    /\ s.kv_size > 0
    /\ s.kv_size > s.chkpt_idx

\* SYNC for the log top; no other change.
handle_send_sync(s) ==
    [s EXCEPT !.effects = @ \cup
        {[type |-> "Sync", from |-> s.node_id, round |-> s.round,
          log_idx |-> s.kv_size - 1, log_hash |-> top_hash(s.kv_store),
          eta_star |-> s.eta_star]}]

\* The threshold stage of process_message, tried on every message.
send_sync_threshold(s) ==
    IF can_send_sync_threshold(s) THEN handle_send_sync(s) ELSE s

\* The SYNCs collected for the log top, and those that agree with it.
TopSyncs(s) ==
    {m \in s.sync_msgs : m.round = s.round /\ m.log_idx = s.kv_size - 1}

ConsistentSyncs(s) ==
    {m \in TopSyncs(s) : m.log_hash = top_hash(s.kv_store)}

\* Mutant: the quorum counts every SYNC for the log top, whatever its hash.
can_form_checkpoint_any_hash(s) ==
    /\ s.phase = "Speculative"
    /\ s.kv_size > 0
    /\ Cardinality(TopSyncs(s)) >= fast_quorum

can_form_checkpoint(s) ==
    /\ s.phase = "Speculative"
    /\ s.kv_size > 0
    /\ Cardinality(ConsistentSyncs(s)) >= fast_quorum

handle_form_checkpoint(s) ==
    LET idx == s.kv_size - 1
        hash == top_hash(s.kv_store)
    IN  [s EXCEPT !.chkpt_idx = idx,
                  !.chkpt_hash = hash,
                  !.effects = @ \cup
                      {[type |-> "Checkpoint", from |-> s.node_id,
                        round |-> s.round, log_idx |-> idx,
                        log_hash |-> hash]}]

store_sync(s, m) ==
    IF m.type = "Sync" THEN [s EXCEPT !.sync_msgs = @ \cup {m}] ELSE s

try_form_checkpoint(s) ==
    IF can_form_checkpoint(s) THEN handle_form_checkpoint(s) ELSE s

on_receive_sync(s, m) == try_form_checkpoint(store_sync(s, m))
=============================================================================
