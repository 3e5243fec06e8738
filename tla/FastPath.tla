------------------------------ MODULE FastPath ------------------------------
(***************************************************************************)
(* fast_path.rs: speculative execution of a sequenced request.             *)
(***************************************************************************)
EXTENDS AspenTypes

\* Only the kind of the message and the phase matter: the round, the
\* operation and the sequence number the sequencer assigned are not read.
can_speculate(s, m) == m.type = "Speculate" /\ s.phase = "Speculative"

\* Mutants: chain to the top hash, which is the predecessor's own prev_hash;
\* begin every round with a genesis entry.
prev_hash_top(s, idx) == top_hash(s.kv_store)

prev_hash_round(s, idx) ==
    IF idx > s.start_idx THEN hash_at(s.kv_store, idx - 1) ELSE ZeroHash

\* The hash the new entry is chained to, zero for the genesis entry.
prev_hash(s, idx) == IF idx > 0 THEN hash_at(s.kv_store, idx - 1) ELSE ZeroHash

\* Append an entry at kv_size and send the SPEC-REPLY with its hash.  The
\* entry's op_hash is the index itself.
handle_speculate(s) ==
    LET idx == s.kv_size
        store == put(s.kv_store, idx,
                     [op_hash |-> idx, prev_hash |-> prev_hash(s, idx)])
    IN  [s EXCEPT !.kv_store = store,
                  !.kv_size = idx + 1,
                  !.effects = @ \cup
                      {[type |-> "SpecReply", from |-> s.node_id,
                        round |-> s.round, log_idx |-> idx,
                        log_hash |-> hash_at(store, idx)]}]

on_receive_speculate(s, m) ==
    IF can_speculate(s, m) THEN handle_speculate(s) ELSE s
=============================================================================
