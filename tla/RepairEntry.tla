---------------------------- MODULE RepairEntry -----------------------------
(***************************************************************************)
(* repair_entry.rs: the two ways into REPAIR, by a conflict proof and by a *)
(* timeout proof.                                                          *)
(***************************************************************************)
EXTENDS AspenTypes, Checkpointing

OwnLog(s, v) == [type |-> "LogMsg", from |-> s.node_id, view |-> v,
                 round |-> s.round, log_hash |-> top_hash(s.kv_store)]

\* The part common to the three ways in: CollectingLogs, in_repair, and a
\* LOG broadcast together with the messages in proofs.
start_repair(s, proofs) ==
    [s EXCEPT !.phase = "CollectingLogs",
              !.in_repair = TRUE,
              !.effects = @ \cup proofs \cup {OwnLog(s, s.view)}]

\* Mutant: f+1 SYNCs are enough to judge.
can_conflict_proof_f_plus_1(s) ==
    /\ s.phase = "Speculative"
    /\ s.kv_size > 0
    /\ ~s.in_repair
    /\ Cardinality(TopSyncs(s)) >= f_plus_1
    /\ Cardinality(ConsistentSyncs(s)) < fast_quorum

can_conflict_proof(s) ==
    /\ s.phase = "Speculative"
    /\ s.kv_size > 0
    /\ ~s.in_repair
    /\ Cardinality(TopSyncs(s)) >= byz_quorum
    /\ Cardinality(ConsistentSyncs(s)) < fast_quorum

handle_conflict_proof(s) ==
    start_repair(s, {[type |-> "ConflictProof", round |-> s.round,
                      log_idx |-> s.kv_size - 1]})

try_conflict_proof(s) ==
    IF can_conflict_proof(s) THEN handle_conflict_proof(s) ELSE s

can_chkpt_timeout(s, e) ==
    /\ s.phase = "Speculative"
    /\ ~s.in_repair
    /\ e.type = "ChkptTimeout"

\* TIMEOUT for the index of the expired timer; no other change.
handle_chkpt_timeout(s, idx) ==
    [s EXCEPT !.effects = @ \cup
        {[type |-> "TimeoutMsg", from |-> s.node_id, round |-> s.round,
          log_idx |-> idx]}]

\* Mutant: TIMEOUTs of earlier rounds count.
TopTimeouts_any_round(s) == {m \in s.timeout_msgs : m.log_idx = s.kv_size - 1}

TopTimeouts(s) ==
    {m \in s.timeout_msgs : m.round = s.round /\ m.log_idx = s.kv_size - 1}

can_timeout_proof(s) ==
    /\ s.phase = "Speculative"
    /\ ~s.in_repair
    /\ s.kv_size > 0
    /\ Cardinality(TopTimeouts(s)) >= f_plus_1

handle_timeout_proof(s) ==
    start_repair(s, {[type |-> "TimeoutProof", round |-> s.round,
                      log_idx |-> s.kv_size - 1]})

store_timeout(s, m) ==
    IF m.type = "TimeoutMsg" THEN [s EXCEPT !.timeout_msgs = @ \cup {m}] ELSE s

try_timeout_proof(s) ==
    IF can_timeout_proof(s) THEN handle_timeout_proof(s) ELSE s

on_receive_timeout(s, m) == try_timeout_proof(store_timeout(s, m))

\* Mutant: a proof restarts a replica that is already in REPAIR.
can_enter_repair_again(s, m) == m.type \in {"TimeoutProof", "ConflictProof"}

\* A proof of any round, received in any phase outside REPAIR.
can_enter_repair(s, m) ==
    ~s.in_repair /\ m.type \in {"TimeoutProof", "ConflictProof"}

\* Mutant: the LOG is not sent.
handle_enter_repair_silent(s) ==
    [s EXCEPT !.phase = "CollectingLogs", !.in_repair = TRUE]

handle_enter_repair(s) == start_repair(s, {})

on_receive_proof(s, m) ==
    IF can_enter_repair(s, m) THEN handle_enter_repair(s) ELSE s
=============================================================================
