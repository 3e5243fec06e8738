----------------------------- MODULE Alignment ------------------------------
(***************************************************************************)
(* alignment.rs: state transfer of a checkpoint.                           *)
(***************************************************************************)
EXTENDS AspenTypes

\* f+1 CHECKPOINTs for the replica's own (round, chkpt_idx); their hash is
\* not compared with the replica's.
can_enter_align(s) ==
    /\ s.phase = "Speculative"
    /\ Cardinality({m \in s.chkpt_msgs : m.round = s.round
                                         /\ m.log_idx = s.chkpt_idx}) >= f_plus_1

handle_enter_align(s) ==
    [s EXCEPT !.phase = "Aligning",
              !.effects = @ \cup {[type |-> "StateRequest", from |-> s.node_id,
                                   chkpt_idx |-> s.chkpt_idx]}]

store_checkpoint(s, m) ==
    IF m.type = "Checkpoint" THEN [s EXCEPT !.chkpt_msgs = @ \cup {m}] ELSE s

try_enter_align(s) == IF can_enter_align(s) THEN handle_enter_align(s) ELSE s

on_receive_checkpoint(s, m) == try_enter_align(store_checkpoint(s, m))

\* Answered in every phase, with the current checkpoint and not the
\* requested one.
on_state_request(s, m) ==
    IF m.type = "StateRequest"
      THEN [s EXCEPT !.effects = @ \cup
               {[type |-> "StateReply", from |-> s.node_id, to |-> m.from,
                 chkpt_idx |-> s.chkpt_idx, chkpt_hash |-> s.chkpt_hash]}]
      ELSE s

can_state_reply(s, m) == s.phase = "Aligning" /\ m.type = "StateReply"

\* Mutant: kv_size leaves out the checkpoint index itself.
handle_state_reply_short(s, idx) ==
    [s EXCEPT !.kv_store = rebuilt(idx + 1),
              !.phase = "Speculative",
              !.chkpt_idx = idx,
              !.chkpt_hash = hash_at(rebuilt(idx + 1), idx),
              !.kv_size = idx,
              !.start_idx = idx]

\* Rebuild the entries 0 .. idx of the recovered checkpoint; the hash the
\* reply carries is not used.
handle_state_reply(s, idx) ==
    [s EXCEPT !.kv_store = rebuilt(idx + 1),
              !.phase = "Speculative",
              !.chkpt_idx = idx,
              !.chkpt_hash = hash_at(rebuilt(idx + 1), idx),
              !.kv_size = idx + 1,
              !.start_idx = idx]

on_state_reply(s, m) ==
    IF can_state_reply(s, m) THEN handle_state_reply(s, m.chkpt_idx) ELSE s
=============================================================================
