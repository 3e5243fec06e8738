------------------------------ MODULE Replica -------------------------------
(***************************************************************************)
(* replica.rs: the initial state of a replica and the two dispatchers.     *)
(* process_message runs every stage on every message, in this order; each  *)
(* stage sees the state the stages before it left.                         *)
(***************************************************************************)
EXTENDS AspenTypes, FastPath, Checkpointing, Alignment, RepairEntry, Repair

new(r) ==
    [node_id |-> r,
     phase |-> "Speculative",
     round |-> 0,
     view |-> 0,
     start_idx |-> 0,
     kv_size |-> 0,
     kv_store |-> <<>>,
     chkpt_idx |-> 0,
     chkpt_hash |-> ZeroHash,
     eta_star |-> 0,
     in_repair |-> FALSE,
     proposed_history_hash |-> 0,
     sync_msgs |-> {},
     chkpt_msgs |-> {},
     timeout_msgs |-> {},
     log_msgs |-> {},
     repair_history_msgs |-> {},
     repair_prepare_msgs |-> {},
     repair_commit_msgs |-> {},
     repair_done_msgs |-> {},
     effects |-> {}]

\* Speculation, checkpoint formation and alignment entry, repair entry.
fast_stages(s, m) ==
    LET s1 == on_receive_speculate(s, m)
        s2 == send_sync_threshold(s1)
        s3 == on_receive_sync(s2, m)
        s4 == on_receive_checkpoint(s3, m)
        s5 == try_conflict_proof(s4)
        s6 == on_receive_timeout(s5, m)
        s7 == on_receive_proof(s6, m)
        s8 == on_state_request(s7, m)
    IN  on_state_reply(s8, m)

repair_stages(s, m, pick) ==
    LET s1 == on_receive_log_msg(s, m)
        s2 == on_receive_repair_history(s1, m, pick)
        s3 == on_receive_repair_prepare(s2, m)
        s4 == on_receive_repair_commit(s3, m)
    IN  on_receive_repair_done(s4, m)

process_message(s, m, pick) == repair_stages(fast_stages(s, m), m, pick)

handle_event(s, e) ==
    LET s1 == IF can_send_sync_on_event(s, e) THEN handle_send_sync(s) ELSE s
        s2 == IF can_chkpt_timeout(s1, e)
                THEN handle_chkpt_timeout(s1, e.log_idx) ELSE s1
    IN  IF can_view_change(s2, e) THEN handle_view_change(s2) ELSE s2

\* Effect::Send goes to one replica, Effect::Broadcast to all.
AddressedTo(m, r) == m.type = "StateReply" => m.to = r

\* The values HashSet iteration may pick in can_repair_prepare; when there is
\* none to pick, the value is not used.
Picks(s, m) ==
    LET choices == HistoryChoices(store_repair_history(s, m))
    IN  IF choices = {} THEN {0} ELSE choices
=============================================================================
