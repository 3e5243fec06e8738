---------------------------- MODULE AspenProofs -----------------------------
(***************************************************************************)
(* Proofs about the cluster of module Aspen.  The argument: ReplicaInv is  *)
(* preserved by every stage of process_message and handle_event, hence by  *)
(* both; executing the effects turns it into the inductive invariant IInv; *)
(* agreement follows from IInv by quorum intersection.                     *)
(***************************************************************************)
EXTENDS Aspen, TLAPS, FiniteSetTheorems

\* The tag of a message (the Rust enum variant it came from) fixes its
\* fields, so what a store_* stage keeps has the type of its collection.
LEMMA MessageKinds ==
  ASSUME NEW m \in Message
  PROVE  /\ m.type = "Sync" => m \in Sync
         /\ m.type = "Checkpoint" => m \in Checkpoint
         /\ m.type = "TimeoutMsg" => m \in TimeoutMsg
         /\ m.type = "LogMsg" => m \in LogMsg
         /\ m.type = "StateRequest" => m \in StateRequest
         /\ m.type = "StateReply" => m \in StateReply
         /\ m.type = "RepairHistory" => m \in RepairHistory
         /\ m.type = "RepairPrepare" => m \in RepairPrepare
         /\ m.type = "RepairCommit" => m \in RepairCommit
         /\ m.type = "RepairDone" => m \in RepairDone
  BY DEF Message, Speculate, SpecReply, Sync, Checkpoint, StateRequest,
     StateReply, TimeoutMsg, Proof, LogMsg, RepairMsg, RepairHistory,
     RepairPrepare, RepairCommit, RepairDone, CommittedReply

\* The store operations top_hash, hash_at and put of kv_store.rs stay within
\* their types on every store.
LEMMA StoreTypes ==
  ASSUME NEW store \in KvStore
  PROVE  /\ top_hash(store) \in Hash
         /\ \A idx \in Nat : hash_at(store, idx) \in Hash
         /\ \A idx \in Nat, e \in KvEntry : put(store, idx, e) \in KvStore
<1>1. ZeroHash \in Hash
  BY DEF ZeroHash, Bytes, Hash
<1>2. \A e \in KvEntry : e.prev_hash \in Hash /\ entry_hash(e) \in Hash
  BY DEF KvEntry, entry_hash, Hash
<1>3. top_hash(store) \in Hash
  BY <1>1, <1>2 DEF top_hash, KvStore
<1>4. ASSUME NEW idx \in Nat PROVE hash_at(store, idx) \in Hash
  BY <1>1, <1>2 DEF hash_at, KvStore
<1>5. ASSUME NEW idx \in Nat, NEW e \in KvEntry
      PROVE  put(store, idx, e) \in KvStore
  BY DEF put, KvStore
<1> QED BY <1>3, <1>4, <1>5

\* The synthetic log that alignment and repair write (rebuild_from_entries)
\* is a store.
LEMMA RebuiltType ==
  ASSUME NEW size \in Nat
  PROVE  rebuilt(size) \in KvStore
<1>1. \A k \in 1 .. size :
         [op_hash |-> k - 1, prev_hash |-> Bytes(k - 1)] \in KvEntry
  BY DEF KvEntry, Bytes, Hash
<1> QED BY <1>1 DEF rebuilt, KvStore

\* The stage from s to t neither votes to commit nor ends the round; it sends
\* E, and a replica in CommitPhase keeps its phase, view and vote.
Quiet(s, t, E, S) ==
    /\ t \in ReplicaState
    /\ t.node_id = s.node_id
    /\ t.round = s.round
    /\ t.repair_commit_msgs \subseteq S \cup FaultyMessages
    /\ t.effects = s.effects \cup E
    /\ t.in_repair <=> t.phase \in RepairPhase
    /\ s.phase = "CommitPhase" =>
        /\ t.phase = "CommitPhase"
        /\ t.view = s.view
        /\ t.proposed_history_hash = s.proposed_history_hash
    /\ \A m \in E : /\ HasSender(m) => m.from = s.node_id
                    /\ m.type \notin {"RepairCommit", "RepairDone"}

\* A stage that neither votes to commit nor ends the round, and keeps view,
\* vote and phase of a replica in CommitPhase, preserves ReplicaInv.
LEMMA QuietStep ==
  ASSUME NEW r, NEW S, NEW s, ReplicaInv(r, s, S),
         NEW t, NEW E, Quiet(s, t, E, S)
  PROVE  ReplicaInv(r, t, S)
<1> USE DEF Quiet
<1>1. OwnCommits(t, S) = OwnCommits(s, S)
  BY DEF OwnCommits
<1>2. \A m \in t.effects : HasSender(m) => m.from = t.node_id
  BY DEF ReplicaInv
<1>3. \A c \in OwnCommits(t, S) :
        /\ c.round <= t.round
        /\ c.round = t.round =>
            /\ t.phase = "CommitPhase"
            /\ c.view = t.view
            /\ c.history_hash = t.proposed_history_hash
  BY <1>1 DEF ReplicaInv
<1>4. \A c1, c2 \in OwnCommits(t, S) : c1.round = c2.round => c1 = c2
  BY <1>1 DEF ReplicaInv
<1>5. \A d \in t.effects : d.type = "RepairDone" => Vouched(S, d)
  BY DEF ReplicaInv
<1> QED BY <1>2, <1>3, <1>4, <1>5 DEF ReplicaInv

\* on_receive_speculate, appending to the log or not, preserves ReplicaInv.
LEMMA SpeculateStage ==
  ASSUME NEW r, NEW S, NEW s, ReplicaInv(r, s, S), NEW m \in Message
  PROVE  ReplicaInv(r, on_receive_speculate(s, m), S)
<1>1. CASE ~can_speculate(s, m)
  BY <1>1 DEF on_receive_speculate
<1>2. CASE can_speculate(s, m)
  <2> DEFINE idx == s.kv_size
             store == put(s.kv_store, idx,
                          [op_hash |-> idx, prev_hash |-> prev_hash(s, idx)])
             reply == [type |-> "SpecReply", from |-> s.node_id,
                        round |-> s.round, log_idx |-> idx,
                        log_hash |-> hash_at(store, idx)]
             next == idx + 1
             sends == s.effects \cup {reply}
             t == [s EXCEPT !.kv_store = store, !.kv_size = next, !.effects = sends]
  <2>1. s \in ReplicaState
    BY DEF ReplicaInv
  <2>2. idx \in Nat /\ next \in Nat /\ s.kv_store \in KvStore
    BY <2>1 DEF ReplicaState
  <2>3. prev_hash(s, idx) \in Hash
    BY <2>2, StoreTypes DEF prev_hash, ZeroHash, Bytes, Hash
  <2>4. store \in KvStore
    BY <2>2, <2>3, StoreTypes DEF KvEntry
  <2>5. reply \in SpecReply
    BY <2>1, <2>2, <2>4, StoreTypes DEF SpecReply, ReplicaState
  <2>6. sends \in SUBSET Message
    BY <2>1, <2>5 DEF Message, ReplicaState
  <2>7. on_receive_speculate(s, m) = t
    BY <1>2 DEF on_receive_speculate, handle_speculate
  <2>8. reply.type = "SpecReply" /\ reply.from = s.node_id
    OBVIOUS
  <2> HIDE DEF store, next, reply
  <2>9. t \in ReplicaState
    BY <2>1, <2>2, <2>4, <2>6, Zenon DEF ReplicaState
  <2>10. /\ t.node_id = s.node_id /\ t.round = s.round /\ t.phase = s.phase
         /\ t.view = s.view /\ t.in_repair = s.in_repair
         /\ t.proposed_history_hash = s.proposed_history_hash
         /\ t.repair_commit_msgs = s.repair_commit_msgs
         /\ t.effects = s.effects \cup {reply}
    BY <2>1 DEF ReplicaState
  <2> HIDE DEF t
  <2>11. /\ t.in_repair <=> t.phase \in RepairPhase
         /\ t.repair_commit_msgs \subseteq S \cup FaultyMessages
    BY <2>10 DEF ReplicaInv
  <2>12. Quiet(s, t, {reply}, S)
    BY <2>8, <2>9, <2>10, <2>11 DEF Quiet
  <2> QED BY <2>7, <2>12, QuietStep
<1> QED BY <1>1, <1>2

\* A stage whose only effect is one message of the replica that is neither a
\* REPAIR-COMMIT nor a REPAIR-DONE preserves ReplicaInv.
LEMMA SendStep ==
  ASSUME NEW r, NEW S, NEW s, ReplicaInv(r, s, S), NEW x \in Message,
         x.from = s.node_id,
         x.type \notin {"RepairCommit", "RepairDone"}
  PROVE  ReplicaInv(r, [s EXCEPT !.effects = @ \cup {x}], S)
<1> DEFINE sends == s.effects \cup {x}
           t == [s EXCEPT !.effects = sends]
<1>1. s \in ReplicaState
  BY DEF ReplicaInv
<1>2. sends \in SUBSET Message
  BY <1>1 DEF ReplicaState
<1>3. t \in ReplicaState
  BY <1>1, <1>2, Zenon DEF ReplicaState
<1>4. /\ t.node_id = s.node_id /\ t.round = s.round /\ t.phase = s.phase
      /\ t.view = s.view /\ t.in_repair = s.in_repair
      /\ t.proposed_history_hash = s.proposed_history_hash
      /\ t.repair_commit_msgs = s.repair_commit_msgs
      /\ t.effects = s.effects \cup {x}
  BY <1>1 DEF ReplicaState
<1>5. /\ t.in_repair <=> t.phase \in RepairPhase
      /\ t.repair_commit_msgs \subseteq S \cup FaultyMessages
  BY <1>4 DEF ReplicaInv
<1>6. Quiet(s, t, {x}, S)
  BY <1>3, <1>4, <1>5 DEF Quiet
<1> QED BY <1>6, QuietStep

\* handle_send_sync preserves ReplicaInv when the log is not empty: the
\* guard that keeps kv_size - 1 from underflowing is what gives the type.
LEMMA SendSyncStage ==
  ASSUME NEW r, NEW S, NEW s, ReplicaInv(r, s, S), s.kv_size > 0
  PROVE  ReplicaInv(r, handle_send_sync(s), S)
<1> DEFINE x == [type |-> "Sync", from |-> s.node_id, round |-> s.round,
                 log_idx |-> s.kv_size - 1, log_hash |-> top_hash(s.kv_store),
                 eta_star |-> s.eta_star]
<1>1. s \in ReplicaState
  BY DEF ReplicaInv
<1>2. s.kv_size - 1 \in Nat /\ top_hash(s.kv_store) \in Hash
  BY <1>1, StoreTypes DEF ReplicaState
<1>3. x \in Sync
  BY <1>1, <1>2 DEF Sync, ReplicaState
<1>4. x \in Message
  BY <1>3 DEF Message
<1>5. x.type = "Sync" /\ x.from = s.node_id
  OBVIOUS
<1>6. handle_send_sync(s) = [s EXCEPT !.effects = @ \cup {x}]
  BY DEF handle_send_sync
<1> HIDE DEF x
<1> QED BY <1>4, <1>5, <1>6, SendStep

\* The SYNC sent at a multiple of the checkpoint interval preserves it.
LEMMA SyncThresholdStage ==
  ASSUME NEW r, NEW S, NEW s, ReplicaInv(r, s, S)
  PROVE  ReplicaInv(r, send_sync_threshold(s), S)
BY SendSyncStage DEF send_sync_threshold, can_send_sync_threshold

\* Answering a STATE-REQUEST preserves ReplicaInv.
LEMMA StateRequestStage ==
  ASSUME NEW r, NEW S, NEW s, ReplicaInv(r, s, S), NEW m \in Message
  PROVE  ReplicaInv(r, on_state_request(s, m), S)
<1>1. CASE m.type # "StateRequest"
  BY <1>1 DEF on_state_request
<1>2. CASE m.type = "StateRequest"
  <2> DEFINE x == [type |-> "StateReply", from |-> s.node_id, to |-> m.from,
                   chkpt_idx |-> s.chkpt_idx, chkpt_hash |-> s.chkpt_hash]
  <2>1. s \in ReplicaState
    BY DEF ReplicaInv
  <2>2. m.from \in Node
    BY <1>2, MessageKinds DEF StateRequest
  <2>3. x \in StateReply
    BY <2>1, <2>2 DEF StateReply, ReplicaState
  <2>4. x \in Message
    BY <2>3 DEF Message
  <2>5. x.type = "StateReply" /\ x.from = s.node_id
    OBVIOUS
  <2>6. on_state_request(s, m) = [s EXCEPT !.effects = @ \cup {x}]
    BY <1>2 DEF on_state_request
  <2> HIDE DEF x
  <2> QED BY <2>4, <2>5, <2>6, SendStep
<1> QED BY <1>1, <1>2

\* Inserting a received message into its collection preserves ReplicaInv.
\* A REPAIR-COMMIT must have been sent or come from a faulty replica: that is
\* what makes the collected commits evidence.
LEMMA StoreSteps ==
  ASSUME NEW r, NEW S, NEW s, ReplicaInv(r, s, S), NEW m \in Message,
         m \in S \cup FaultyMessages \/ m.type # "RepairCommit"
  PROVE  /\ ReplicaInv(r, store_sync(s, m), S)
         /\ ReplicaInv(r, store_checkpoint(s, m), S)
         /\ ReplicaInv(r, store_timeout(s, m), S)
         /\ ReplicaInv(r, store_log_msg(s, m), S)
         /\ ReplicaInv(r, store_repair_history(s, m), S)
         /\ ReplicaInv(r, store_repair_prepare(s, m), S)
         /\ ReplicaInv(r, store_repair_commit(s, m), S)
         /\ ReplicaInv(r, store_repair_done(s, m), S)
<1>1. s \in ReplicaState
  BY DEF ReplicaInv
<1>2. /\ s.in_repair <=> s.phase \in RepairPhase
      /\ s.repair_commit_msgs \subseteq S \cup FaultyMessages
  BY DEF ReplicaInv
<1>3. ASSUME NEW t, t \in ReplicaState,
             t.node_id = s.node_id, t.round = s.round, t.phase = s.phase,
             t.view = s.view, t.in_repair = s.in_repair, t.effects = s.effects,
             t.proposed_history_hash = s.proposed_history_hash,
             t.repair_commit_msgs \subseteq S \cup FaultyMessages
      PROVE  ReplicaInv(r, t, S)
  <2>1. Quiet(s, t, {}, S)
    BY <1>2, <1>3 DEF Quiet
  <2> QED BY <2>1, QuietStep
<1>4. ReplicaInv(r, store_sync(s, m), S)
  <2>1. CASE m.type = "Sync"
    <3> DEFINE c == s.sync_msgs \cup {m}
               t == [s EXCEPT !.sync_msgs = c]
    <3>1. c \in SUBSET Sync
      BY <1>1, <2>1, MessageKinds DEF ReplicaState
    <3>2. t \in ReplicaState
      BY <1>1, <3>1, Zenon DEF ReplicaState
    <3> QED BY <1>1, <1>2, <1>3, <2>1, <3>2 DEF store_sync, ReplicaState
  <2> QED BY <2>1 DEF store_sync
<1>5. ReplicaInv(r, store_checkpoint(s, m), S)
  <2>1. CASE m.type = "Checkpoint"
    <3> DEFINE c == s.chkpt_msgs \cup {m}
               t == [s EXCEPT !.chkpt_msgs = c]
    <3>1. c \in SUBSET Checkpoint
      BY <1>1, <2>1, MessageKinds DEF ReplicaState
    <3>2. t \in ReplicaState
      BY <1>1, <3>1, Zenon DEF ReplicaState
    <3> QED BY <1>1, <1>2, <1>3, <2>1, <3>2 DEF store_checkpoint, ReplicaState
  <2> QED BY <2>1 DEF store_checkpoint
<1>6. ReplicaInv(r, store_timeout(s, m), S)
  <2>1. CASE m.type = "TimeoutMsg"
    <3> DEFINE c == s.timeout_msgs \cup {m}
               t == [s EXCEPT !.timeout_msgs = c]
    <3>1. c \in SUBSET TimeoutMsg
      BY <1>1, <2>1, MessageKinds DEF ReplicaState
    <3>2. t \in ReplicaState
      BY <1>1, <3>1, Zenon DEF ReplicaState
    <3> QED BY <1>1, <1>2, <1>3, <2>1, <3>2 DEF store_timeout, ReplicaState
  <2> QED BY <2>1 DEF store_timeout
<1>7. ReplicaInv(r, store_log_msg(s, m), S)
  <2>1. CASE m.type = "LogMsg"
    <3> DEFINE c == s.log_msgs \cup {m}
               t == [s EXCEPT !.log_msgs = c]
    <3>1. c \in SUBSET LogMsg
      BY <1>1, <2>1, MessageKinds DEF ReplicaState
    <3>2. t \in ReplicaState
      BY <1>1, <3>1, Zenon DEF ReplicaState
    <3> QED BY <1>1, <1>2, <1>3, <2>1, <3>2 DEF store_log_msg, ReplicaState
  <2> QED BY <2>1 DEF store_log_msg
<1>8. ReplicaInv(r, store_repair_history(s, m), S)
  <2>1. CASE m.type = "RepairHistory"
    <3> DEFINE c == s.repair_history_msgs \cup {m}
               t == [s EXCEPT !.repair_history_msgs = c]
    <3>1. c \in SUBSET RepairHistory
      BY <1>1, <2>1, MessageKinds DEF ReplicaState
    <3>2. t \in ReplicaState
      BY <1>1, <3>1, Zenon DEF ReplicaState
    <3> QED BY <1>1, <1>2, <1>3, <2>1, <3>2 DEF store_repair_history, ReplicaState
  <2> QED BY <2>1 DEF store_repair_history
<1>9. ReplicaInv(r, store_repair_prepare(s, m), S)
  <2>1. CASE m.type = "RepairPrepare"
    <3> DEFINE c == s.repair_prepare_msgs \cup {m}
               t == [s EXCEPT !.repair_prepare_msgs = c]
    <3>1. c \in SUBSET RepairPrepare
      BY <1>1, <2>1, MessageKinds DEF ReplicaState
    <3>2. t \in ReplicaState
      BY <1>1, <3>1, Zenon DEF ReplicaState
    <3> QED BY <1>1, <1>2, <1>3, <2>1, <3>2 DEF store_repair_prepare, ReplicaState
  <2> QED BY <2>1 DEF store_repair_prepare
<1>10. ReplicaInv(r, store_repair_commit(s, m), S)
  <2>1. CASE m.type = "RepairCommit"
    <3> DEFINE c == s.repair_commit_msgs \cup {m}
               t == [s EXCEPT !.repair_commit_msgs = c]
    <3>1. c \in SUBSET RepairCommit
      BY <1>1, <2>1, MessageKinds DEF ReplicaState
    <3>2. t \in ReplicaState
      BY <1>1, <3>1, Zenon DEF ReplicaState
    <3> QED BY <1>1, <1>2, <1>3, <2>1, <3>2 DEF store_repair_commit, ReplicaState
  <2> QED BY <2>1 DEF store_repair_commit
<1>11. ReplicaInv(r, store_repair_done(s, m), S)
  <2>1. CASE m.type = "RepairDone"
    <3> DEFINE c == s.repair_done_msgs \cup {m}
               t == [s EXCEPT !.repair_done_msgs = c]
    <3>1. c \in SUBSET RepairDone
      BY <1>1, <2>1, MessageKinds DEF ReplicaState
    <3>2. t \in ReplicaState
      BY <1>1, <3>1, Zenon DEF ReplicaState
    <3> QED BY <1>1, <1>2, <1>3, <2>1, <3>2 DEF store_repair_done, ReplicaState
  <2> QED BY <2>1 DEF store_repair_done
<1> QED BY <1>4, <1>5, <1>6, <1>7, <1>8, <1>9, <1>10, <1>11

\* try_form_checkpoint preserves ReplicaInv.
LEMMA FormCheckpointStage ==
  ASSUME NEW r, NEW S, NEW s, ReplicaInv(r, s, S)
  PROVE  ReplicaInv(r, try_form_checkpoint(s), S)
<1>1. CASE ~can_form_checkpoint(s)
  BY <1>1 DEF try_form_checkpoint
<1>2. CASE can_form_checkpoint(s)
  <2> DEFINE idx == s.kv_size - 1
             hash == top_hash(s.kv_store)
             x == [type |-> "Checkpoint", from |-> s.node_id, round |-> s.round,
                   log_idx |-> idx, log_hash |-> hash]
             sends == s.effects \cup {x}
             t == [s EXCEPT !.chkpt_idx = idx, !.chkpt_hash = hash, !.effects = sends]
  <2>1. s \in ReplicaState
    BY DEF ReplicaInv
  <2>2. idx \in Nat /\ hash \in Hash
    BY <1>2, <2>1, StoreTypes DEF can_form_checkpoint, ReplicaState
  <2>3. x \in Checkpoint
    BY <2>1, <2>2 DEF Checkpoint, ReplicaState
  <2>4. sends \in SUBSET Message
    BY <2>1, <2>3 DEF Message, ReplicaState
  <2>5. try_form_checkpoint(s) = t
    BY <1>2 DEF try_form_checkpoint, handle_form_checkpoint
  <2>6. x.type = "Checkpoint" /\ x.from = s.node_id
    OBVIOUS
  <2> HIDE DEF idx, hash, x
  <2>7. t \in ReplicaState
    BY <2>1, <2>2, <2>4, Zenon DEF ReplicaState
  <2>8. /\ t.node_id = s.node_id /\ t.round = s.round /\ t.phase = s.phase
        /\ t.view = s.view /\ t.in_repair = s.in_repair
        /\ t.proposed_history_hash = s.proposed_history_hash
        /\ t.repair_commit_msgs = s.repair_commit_msgs
        /\ t.effects = s.effects \cup {x}
    BY <2>1 DEF ReplicaState
  <2> HIDE DEF t
  <2>9. Quiet(s, t, {x}, S)
    BY <2>6, <2>7, <2>8 DEF Quiet, ReplicaInv
  <2> QED BY <2>5, <2>9, QuietStep
<1> QED BY <1>1, <1>2

\* try_enter_align preserves ReplicaInv: it starts from Speculative only, so
\* in_repair is false and stays so.
LEMMA EnterAlignStage ==
  ASSUME NEW r, NEW S, NEW s, ReplicaInv(r, s, S)
  PROVE  ReplicaInv(r, try_enter_align(s), S)
<1>1. CASE ~can_enter_align(s)
  BY <1>1 DEF try_enter_align
<1>2. CASE can_enter_align(s)
  <2> DEFINE x == [type |-> "StateRequest", from |-> s.node_id,
                   chkpt_idx |-> s.chkpt_idx]
             sends == s.effects \cup {x}
             t == [s EXCEPT !.phase = "Aligning", !.effects = sends]
  <2>1. s \in ReplicaState
    BY DEF ReplicaInv
  <2>2. x \in StateRequest
    BY <2>1 DEF StateRequest, ReplicaState
  <2>3. sends \in SUBSET Message
    BY <2>1, <2>2 DEF Message, ReplicaState
  <2>4. try_enter_align(s) = t
    BY <1>2 DEF try_enter_align, handle_enter_align
  <2>5. x.type = "StateRequest" /\ x.from = s.node_id
    OBVIOUS
  <2> HIDE DEF x
  <2>6. "Aligning" \in Phase
    BY DEF Phase
  <2>7. t \in ReplicaState
    BY <2>1, <2>3, <2>6, Zenon DEF ReplicaState
  <2>8. /\ t.node_id = s.node_id /\ t.round = s.round /\ t.phase = "Aligning"
        /\ t.in_repair = s.in_repair
        /\ t.repair_commit_msgs = s.repair_commit_msgs
        /\ t.effects = s.effects \cup {x}
    BY <2>1 DEF ReplicaState
  <2> HIDE DEF t
  <2>9. s.phase = "Speculative"
    BY <1>2 DEF can_enter_align
  <2>10. Quiet(s, t, {x}, S)
    BY <2>5, <2>7, <2>8, <2>9 DEF Quiet, ReplicaInv, RepairPhase
  <2> QED BY <2>4, <2>10, QuietStep
<1> QED BY <1>1, <1>2

\* on_state_reply, which rewrites log, checkpoint and start index, preserves
\* ReplicaInv.
LEMMA StateReplyStage ==
  ASSUME NEW r, NEW S, NEW s, ReplicaInv(r, s, S), NEW m \in Message
  PROVE  ReplicaInv(r, on_state_reply(s, m), S)
<1>1. CASE ~can_state_reply(s, m)
  BY <1>1 DEF on_state_reply
<1>2. CASE can_state_reply(s, m)
  <2> DEFINE idx == m.chkpt_idx
             size == idx + 1
             store == rebuilt(size)
             hash == hash_at(store, idx)
             t == [s EXCEPT !.kv_store = store, !.phase = "Speculative",
                            !.chkpt_idx = idx, !.chkpt_hash = hash,
                            !.kv_size = size, !.start_idx = idx]
  <2>1. s \in ReplicaState
    BY DEF ReplicaInv
  <2>2. idx \in Nat /\ size \in Nat
    BY <1>2, MessageKinds DEF can_state_reply, StateReply
  <2>3. store \in KvStore /\ hash \in Hash
    BY <2>2, RebuiltType, StoreTypes
  <2>4. on_state_reply(s, m) = t
    BY <1>2 DEF on_state_reply, handle_state_reply
  <2> HIDE DEF idx, size, store, hash
  <2>5. "Speculative" \in Phase
    BY DEF Phase
  <2>6. t \in ReplicaState
    BY <2>1, <2>2, <2>3, <2>5, Zenon DEF ReplicaState
  <2>7. /\ t.node_id = s.node_id /\ t.round = s.round
        /\ t.phase = "Speculative" /\ t.in_repair = s.in_repair
        /\ t.repair_commit_msgs = s.repair_commit_msgs
        /\ t.effects = s.effects
    BY <2>1, Zenon DEF ReplicaState
  <2> HIDE DEF t
  <2>8. s.phase = "Aligning"
    BY <1>2 DEF can_state_reply
  <2>9. Quiet(s, t, {}, S)
    BY <2>6, <2>7, <2>8 DEF Quiet, ReplicaInv, RepairPhase
  <2> QED BY <2>4, <2>9, QuietStep
<1> QED BY <1>1, <1>2

\* The LOG a replica broadcasts on entering REPAIR or a view is a message of
\* its own.
LEMMA OwnLogType ==
  ASSUME NEW s \in ReplicaState, NEW v \in Nat
  PROVE  /\ OwnLog(s, v) \in LogMsg /\ OwnLog(s, v) \in Message
         /\ OwnLog(s, v).type = "LogMsg"
         /\ OwnLog(s, v).from = s.node_id
BY StoreTypes DEF OwnLog, LogMsg, Message, ReplicaState

\* Entering REPAIR preserves ReplicaInv when in_repair is false: a replica in
\* CommitPhase cannot be thrown back to CollectingLogs, so its vote stands.
LEMMA StartRepairStep ==
  ASSUME NEW r, NEW S, NEW s, ReplicaInv(r, s, S), ~s.in_repair,
         NEW proofs \in SUBSET Proof
  PROVE  ReplicaInv(r, start_repair(s, proofs), S)
<1> DEFINE E == proofs \cup {OwnLog(s, s.view)}
           sends == s.effects \cup E
           t == [s EXCEPT !.phase = "CollectingLogs", !.in_repair = TRUE,
                          !.effects = sends]
<1>1. s \in ReplicaState
  BY DEF ReplicaInv
<1>2. s.view \in Nat
  BY <1>1 DEF ReplicaState
<1>3. sends \in SUBSET Message
  BY <1>1, <1>2, OwnLogType DEF Message, ReplicaState
<1>4. start_repair(s, proofs) = t
  BY DEF start_repair
<1>5. \A m \in E : /\ HasSender(m) => m.from = s.node_id
                   /\ m.type \notin {"RepairCommit", "RepairDone"}
  BY <1>1, <1>2, OwnLogType DEF Proof, HasSender
<1> HIDE DEF E
<1>6. "CollectingLogs" \in Phase
  BY DEF Phase, RepairPhase
<1>7. t \in ReplicaState
  BY <1>1, <1>3, <1>6, Zenon DEF ReplicaState
<1>8. /\ t.node_id = s.node_id /\ t.round = s.round
      /\ t.phase = "CollectingLogs" /\ t.in_repair = TRUE
      /\ t.repair_commit_msgs = s.repair_commit_msgs
      /\ t.effects = s.effects \cup E
  BY <1>1 DEF ReplicaState
<1> HIDE DEF t
<1>9. s.phase # "CommitPhase"
  BY DEF ReplicaInv, RepairPhase
<1>10. Quiet(s, t, E, S)
  BY <1>5, <1>7, <1>8, <1>9 DEF Quiet, ReplicaInv, RepairPhase
<1> QED BY <1>4, <1>10, QuietStep

\* The three ways into REPAIR (conflict proof, timeout proof, a received
\* proof) preserve ReplicaInv.
LEMMA RepairEntryStages ==
  ASSUME NEW r, NEW S, NEW s, ReplicaInv(r, s, S), NEW m \in Message
  PROVE  /\ ReplicaInv(r, try_conflict_proof(s), S)
         /\ ReplicaInv(r, try_timeout_proof(s), S)
         /\ ReplicaInv(r, on_receive_proof(s, m), S)
<1>1. s \in ReplicaState
  BY DEF ReplicaInv
<1>2. ASSUME s.kv_size > 0, NEW ty \in {"TimeoutProof", "ConflictProof"}
      PROVE  {[type |-> ty, round |-> s.round, log_idx |-> s.kv_size - 1]} \in SUBSET Proof
  <2>1. s.kv_size - 1 \in Nat /\ s.round \in Nat
    BY <1>1, <1>2 DEF ReplicaState
  <2> QED BY <2>1 DEF Proof
<1>3. ReplicaInv(r, try_conflict_proof(s), S)
  <2>1. CASE can_conflict_proof(s)
    <3>1. ~s.in_repair /\ s.kv_size > 0
      BY <2>1 DEF can_conflict_proof
    <3> QED BY <1>2, <2>1, <3>1, StartRepairStep
            DEF try_conflict_proof, handle_conflict_proof
  <2> QED BY <2>1 DEF try_conflict_proof
<1>4. ReplicaInv(r, try_timeout_proof(s), S)
  <2>1. CASE can_timeout_proof(s)
    <3>1. ~s.in_repair /\ s.kv_size > 0
      BY <2>1 DEF can_timeout_proof
    <3> QED BY <1>2, <2>1, <3>1, StartRepairStep
            DEF try_timeout_proof, handle_timeout_proof
  <2> QED BY <2>1 DEF try_timeout_proof
<1>5. ReplicaInv(r, on_receive_proof(s, m), S)
  <2>1. CASE can_enter_repair(s, m)
    <3>1. ~s.in_repair /\ {} \in SUBSET Proof
      BY <2>1 DEF can_enter_repair
    <3> QED BY <2>1, <3>1, StartRepairStep DEF on_receive_proof, handle_enter_repair
  <2> QED BY <2>1 DEF on_receive_proof
<1> QED BY <1>3, <1>4, <1>5

\* A vote of the four REPAIR phases is a message with the voter's id, view
\* and round.
LEMMA VoteType ==
  ASSUME NEW s \in ReplicaState, NEW h \in Nat,
         NEW ty \in {"RepairHistory", "RepairPrepare", "RepairCommit", "RepairDone"}
  PROVE  /\ RepairVote(s, ty, h) \in RepairMsg(ty)
         /\ RepairVote(s, ty, h) \in Message
         /\ RepairVote(s, ty, h).type = ty
         /\ RepairVote(s, ty, h).from = s.node_id
         /\ RepairVote(s, ty, h).view = s.view
         /\ RepairVote(s, ty, h).round = s.round
         /\ RepairVote(s, ty, h).history_hash = h
<1>1. RepairVote(s, ty, h) \in RepairMsg(ty)
  BY DEF RepairVote, RepairMsg, ReplicaState
<1>2. RepairMsg(ty) \subseteq Message
  BY DEF Message, RepairHistory, RepairPrepare, RepairCommit, RepairDone
<1> QED BY <1>1, <1>2 DEF RepairVote

\* Adopting a proposal (REPAIR-HISTORY by the leader, REPAIR-PREPARE by a
\* follower) before CommitPhase preserves ReplicaInv.
LEMMA ProposeStep ==
  ASSUME NEW r, NEW S, NEW s, ReplicaInv(r, s, S), NEW h \in Nat,
         s.phase \in {"CollectingLogs", "PreparePhase"},
         NEW ty \in {"RepairHistory", "RepairPrepare"}
  PROVE  ReplicaInv(r, [s EXCEPT !.phase = "PreparePhase",
                              !.proposed_history_hash = h,
                              !.effects = @ \cup {RepairVote(s, ty, h)}], S)
<1> DEFINE x == RepairVote(s, ty, h)
           sends == s.effects \cup {x}
           t == [s EXCEPT !.phase = "PreparePhase", !.proposed_history_hash = h,
                          !.effects = sends]
<1>1. s \in ReplicaState
  BY DEF ReplicaInv
<1>2. x \in Message /\ x.type = ty /\ x.from = s.node_id
  BY <1>1, VoteType
<1>3. sends \in SUBSET Message
  BY <1>1, <1>2 DEF ReplicaState
<1> HIDE DEF x
<1>4. "PreparePhase" \in Phase
  BY DEF Phase, RepairPhase
<1>5. t \in ReplicaState
  BY <1>1, <1>3, <1>4, Zenon DEF ReplicaState
<1>6. /\ t.node_id = s.node_id /\ t.round = s.round
      /\ t.phase = "PreparePhase" /\ t.in_repair = s.in_repair
      /\ t.repair_commit_msgs = s.repair_commit_msgs
      /\ t.effects = s.effects \cup {x}
  BY <1>1 DEF ReplicaState
<1> HIDE DEF t
<1>7. Quiet(s, t, {x}, S)
  BY <1>2, <1>5, <1>6 DEF Quiet, ReplicaInv, RepairPhase
<1>8. ReplicaInv(r, t, S)
  BY <1>7, QuietStep
<1> QED BY <1>8 DEF t, x

\* The number of LOG senders, which the leader uses as history hash, is a
\* natural number: the senders are finitely many.
LEMMA LogSenderCount ==
  ASSUME NEW s \in ReplicaState
  PROVE  Cardinality(LogSenders(s)) \in Nat
<1>1. s.log_msgs \subseteq LogMsg
  BY DEF ReplicaState
<1>2. \A m \in LogMsg : m.from \in Node
  BY DEF LogMsg
<1>3. LogSenders(s) \subseteq Node
  BY <1>1, <1>2 DEF LogSenders, Current
<1> QED BY <1>3, NodeAssumption, FS_Subset, FS_CardinalityType

\* The leader's try_broadcast_history preserves ReplicaInv.
LEMMA BroadcastHistoryStage ==
  ASSUME NEW r, NEW S, NEW s, ReplicaInv(r, s, S)
  PROVE  ReplicaInv(r, try_broadcast_history(s), S)
<1>1. Cardinality(LogSenders(s)) \in Nat
  BY LogSenderCount DEF ReplicaInv
<1> QED BY <1>1, ProposeStep
        DEF try_broadcast_history, can_broadcast_history, handle_broadcast_history

\* try_repair_prepare preserves ReplicaInv whatever HashSet iteration picks.
LEMMA RepairPrepareStage ==
  ASSUME NEW r, NEW S, NEW s, ReplicaInv(r, s, S), NEW pick
  PROVE  ReplicaInv(r, try_repair_prepare(s, pick), S)
<1>1. s.repair_history_msgs \subseteq RepairHistory
  BY DEF ReplicaInv, ReplicaState
<1>2. \A m \in RepairHistory : m.history_hash \in Nat
  BY DEF RepairHistory, RepairMsg
<1>3. HistoryChoices(s) \subseteq Nat
  BY <1>1, <1>2 DEF HistoryChoices, Current
<1> QED BY <1>3, ProposeStep
        DEF try_repair_prepare, can_repair_prepare, handle_repair_prepare

\* try_repair_commit preserves ReplicaInv.  The replica was in PreparePhase,
\* so it had not committed in this round: the new vote is its only one.
LEMMA RepairCommitStage ==
  ASSUME NEW r, NEW S, NEW s, ReplicaInv(r, s, S)
  PROVE  ReplicaInv(r, try_repair_commit(s), S)
<1>1. CASE ~can_repair_commit(s)
  BY <1>1 DEF try_repair_commit
<1>2. CASE can_repair_commit(s)
  <2> DEFINE x == RepairVote(s, "RepairCommit", s.proposed_history_hash)
             sends == s.effects \cup {x}
             t == [s EXCEPT !.phase = "CommitPhase", !.effects = sends]
  <2>1. s \in ReplicaState
    BY DEF ReplicaInv
  <2>2. s.proposed_history_hash \in Nat
    BY <2>1 DEF ReplicaState
  <2>3. /\ x \in Message /\ x.type = "RepairCommit" /\ x.from = s.node_id
        /\ x.view = s.view /\ x.round = s.round
        /\ x.history_hash = s.proposed_history_hash
    BY <2>1, <2>2, VoteType
  <2>4. sends \in SUBSET Message
    BY <2>1, <2>3 DEF ReplicaState
  <2>5. try_repair_commit(s) = t
    BY <1>2 DEF try_repair_commit, handle_repair_commit
  <2> HIDE DEF x
  <2>6. "CommitPhase" \in Phase
    BY DEF Phase, RepairPhase
  <2>7. t \in ReplicaState
    BY <2>1, <2>4, <2>6, Zenon DEF ReplicaState
  <2>8. /\ t.node_id = s.node_id /\ t.round = s.round /\ t.view = s.view
        /\ t.proposed_history_hash = s.proposed_history_hash
        /\ t.phase = "CommitPhase" /\ t.in_repair = s.in_repair
        /\ t.repair_commit_msgs = s.repair_commit_msgs
        /\ t.effects = s.effects \cup {x}
    BY <2>1 DEF ReplicaState
  <2> HIDE DEF t
  <2>9. s.phase = "PreparePhase"
    BY <1>2 DEF can_repair_commit
  <2>10. \A c \in OwnCommits(s, S) : c.round <= s.round /\ c.round # s.round
    BY <2>9 DEF ReplicaInv
  <2>11. OwnCommits(t, S) = OwnCommits(s, S) \cup {x}
    BY <2>3, <2>8 DEF OwnCommits
  <2>12. t.in_repair <=> t.phase \in RepairPhase
    BY <2>8, <2>9 DEF ReplicaInv, RepairPhase
  <2>13. \A m \in t.effects : HasSender(m) => m.from = t.node_id
    BY <2>3, <2>8 DEF ReplicaInv
  <2>14. \A c \in OwnCommits(t, S) :
           /\ c.round <= t.round
           /\ c.round = t.round =>
               /\ t.phase = "CommitPhase"
               /\ c.view = t.view
               /\ c.history_hash = t.proposed_history_hash
    <3>1. s.round \in Nat
      BY <2>1 DEF ReplicaState
    <3> QED BY <2>3, <2>8, <2>10, <2>11, <3>1
  <2>15. \A c1, c2 \in OwnCommits(t, S) : c1.round = c2.round => c1 = c2
    <3>1. \A c1, c2 \in OwnCommits(s, S) : c1.round = c2.round => c1 = c2
      BY DEF ReplicaInv
    <3> QED BY <2>3, <2>10, <2>11, <3>1
  <2>16. \A d \in t.effects : d.type = "RepairDone" => Vouched(S, d)
    BY <2>3, <2>8 DEF ReplicaInv
  <2>17. t.repair_commit_msgs \subseteq S \cup FaultyMessages
    BY <2>8 DEF ReplicaInv
  <2>18. t.node_id = r
    BY <2>8 DEF ReplicaInv
  <2>19. ReplicaInv(r, t, S)
    BY <2>7, <2>12, <2>13, <2>14, <2>15, <2>16, <2>17, <2>18 DEF ReplicaInv
  <2> QED BY <2>5, <2>19
<1> QED BY <1>1, <1>2

\* Leaving REPAIR for the next round preserves ReplicaInv when every
\* REPAIR-DONE sent on the way is vouched for: all own commits are then of
\* earlier rounds.
LEMMA NextRoundStep ==
  ASSUME NEW r, NEW S \in SUBSET Message, NEW s, ReplicaInv(r, s, S),
         NEW t \in ReplicaState, NEW E,
         t.node_id = s.node_id, t.round = s.round + 1,
         t.phase = "Speculative", t.in_repair = FALSE,
         t.repair_commit_msgs = s.repair_commit_msgs,
         t.effects = s.effects \cup E,
         \A m \in E : /\ HasSender(m) => m.from = s.node_id
                      /\ m.type # "RepairCommit"
                      /\ m.type = "RepairDone" => Vouched(S, m)
  PROVE  ReplicaInv(r, t, S)
<1>1. OwnCommits(t, S) = OwnCommits(s, S)
  BY DEF OwnCommits
<1>2. s.round \in Nat /\ s.effects \subseteq Message
  BY DEF ReplicaInv, ReplicaState
<1>3. \A c \in OwnCommits(s, S) : c.round \in Nat
  <2>1. \A c \in OwnCommits(s, S) : c \in RepairCommit
    BY <1>2, MessageKinds DEF OwnCommits
  <2> QED BY <2>1 DEF RepairCommit, RepairMsg
<1>4. \A c \in OwnCommits(t, S) : c.round <= t.round /\ c.round # t.round
  <2>1. \A c \in OwnCommits(s, S) : c.round <= s.round
    BY DEF ReplicaInv
  <2> QED BY <1>1, <1>2, <1>3, <2>1
<1>5. \A c1, c2 \in OwnCommits(t, S) : c1.round = c2.round => c1 = c2
  BY <1>1 DEF ReplicaInv
<1>6. \A m \in t.effects : /\ HasSender(m) => m.from = t.node_id
                           /\ m.type = "RepairDone" => Vouched(S, m)
  BY DEF ReplicaInv
<1>7. t.repair_commit_msgs \subseteq S \cup FaultyMessages
  BY DEF ReplicaInv
<1> QED BY <1>4, <1>5, <1>6, <1>7 DEF ReplicaInv, RepairPhase

\* When can_apply_repair holds, REPAIR-COMMITs of n - f different replicas
\* support the history that is applied.  The code counts messages, not
\* senders; for a fixed view, round and hash they are the same number.
LEMMA CommitQuorum ==
  ASSUME NEW r, NEW S \in SUBSET Message, NEW s, ReplicaInv(r, s, S),
         can_apply_repair(s)
  PROVE  Vouched(S, RepairVote(s, "RepairDone", s.proposed_history_hash))
<1> DEFINE d == RepairVote(s, "RepairDone", s.proposed_history_hash)
           V == VotesForProposal(s, s.repair_commit_msgs)
           W == CommitVotes(S, d)
           from == [m \in V |-> m.from]
<1>1. s \in ReplicaState
  BY DEF ReplicaInv
<1>2. s.proposed_history_hash \in Nat
  BY <1>1 DEF ReplicaState
<1>3. d.view = s.view /\ d.round = s.round /\ d.history_hash = s.proposed_history_hash
  BY <1>1, <1>2, VoteType
<1> HIDE DEF d
<1>4. s.repair_commit_msgs \subseteq RepairCommit
  BY <1>1 DEF ReplicaState
<1>5. \A m \in RepairCommit : m.type = "RepairCommit" /\ m.from \in Node
  BY DEF RepairCommit, RepairMsg
<1>6. V \subseteq W
  BY <1>3, <1>4, <1>5 DEF VotesForProposal, Current, CommitVotes, ReplicaInv
<1>7. \A m1, m2 \in V : m1.from = m2.from => m1 = m2
  BY <1>4 DEF VotesForProposal, Current, RepairCommit, RepairMsg
<1>8. W \subseteq RepairCommit
  BY FaultyMessageAssumption, MessageKinds DEF CommitVotes
<1>9. Senders(W) \subseteq Node
  BY <1>5, <1>8 DEF Senders
<1>10. IsFiniteSet(Senders(W)) /\ Cardinality(Senders(W)) \in Nat
  BY <1>9, NodeAssumption, FS_Subset, FS_CardinalityType
<1>11. from \in Injection(V, Senders(W))
  BY <1>6, <1>7 DEF Injection, IsInjective, Senders
<1>12. Cardinality(V) <= Cardinality(Senders(W))
  BY <1>10, <1>11, FS_Injection
<1>13. Cardinality(V) >= byz_quorum
  BY DEF can_apply_repair
<1>14. Cardinality(V) \in Nat /\ byz_quorum \in Int
  BY <1>10, <1>11, FS_Injection, FS_CardinalityType, NodeAssumption, FaultAssumption
     DEF byz_quorum, n_replicas
<1> QED BY <1>10, <1>12, <1>13, <1>14 DEF Vouched, d

\* try_apply_repair preserves ReplicaInv; the REPAIR-DONE it sends is vouched
\* for by a quorum.
LEMMA ApplyRepairStage ==
  ASSUME NEW r, NEW S \in SUBSET Message, NEW s, ReplicaInv(r, s, S)
  PROVE  ReplicaInv(r, try_apply_repair(s), S)
<1>1. CASE ~can_apply_repair(s)
  BY <1>1 DEF try_apply_repair
<1>2. CASE can_apply_repair(s)
  <2> DEFINE merged == s.proposed_history_hash
             next == s.round + 1
             store == IF merged > 0 THEN rebuilt(merged) ELSE s.kv_store
             d == RepairVote(s, "RepairDone", merged)
             reply == [type |-> "CommittedReply", from |-> s.node_id,
                       round |-> s.round, log_idx |-> s.kv_size]
             sends == s.effects \cup DoneMessages(s)
             t == [s EXCEPT !.kv_store = store, !.phase = "Speculative",
                            !.round = next, !.start_idx = merged,
                            !.kv_size = merged, !.in_repair = FALSE,
                            !.proposed_history_hash = 0, !.effects = sends]
  <2>1. s \in ReplicaState
    BY DEF ReplicaInv
  <2>2. merged \in Nat /\ next \in Nat /\ s.kv_store \in KvStore
    BY <2>1 DEF ReplicaState
  <2>3. store \in KvStore
    BY <2>2, RebuiltType
  <2>4. d \in Message /\ d.type = "RepairDone" /\ d.from = s.node_id
    BY <2>1, <2>2, VoteType
  <2>5. reply \in CommittedReply
    BY <2>1 DEF CommittedReply, ReplicaState
  <2>6. reply \in Message /\ reply.type = "CommittedReply" /\ reply.from = s.node_id
    BY <2>5 DEF Message
  <2>7. DoneMessages(s) = {d, reply}
    BY DEF DoneMessages
  <2>8. sends \in SUBSET Message
    BY <2>1, <2>4, <2>6, <2>7 DEF ReplicaState
  <2>9. try_apply_repair(s) = t
    BY <1>2 DEF try_apply_repair, handle_apply_repair
  <2>10. Vouched(S, d)
    BY <1>2, CommitQuorum
  <2>11. \A m \in DoneMessages(s) : /\ HasSender(m) => m.from = s.node_id
                                    /\ m.type # "RepairCommit"
                                    /\ m.type = "RepairDone" => Vouched(S, m)
    <3> HIDE DEF d, reply
    <3> QED BY <2>4, <2>6, <2>7, <2>10
  <2> HIDE DEF store, next, merged
  <2>12. "Speculative" \in Phase /\ 0 \in Nat /\ FALSE \in BOOLEAN
    BY DEF Phase
  <2>13. t \in ReplicaState
    BY <2>1, <2>2, <2>3, <2>8, <2>12, Zenon DEF ReplicaState
  <2>14. /\ t.node_id = s.node_id /\ t.round = next
         /\ t.phase = "Speculative" /\ t.in_repair = FALSE
         /\ t.repair_commit_msgs = s.repair_commit_msgs
         /\ t.effects = s.effects \cup DoneMessages(s)
    BY <2>1, Zenon DEF ReplicaState
  <2> HIDE DEF t
  <2>15. t.round = s.round + 1
    BY <2>14 DEF next
  <2>16. ReplicaInv(r, t, S)
    BY <2>11, <2>13, <2>14, <2>15, NextRoundStep
  <2> QED BY <2>9, <2>16
<1> QED BY <1>1, <1>2

\* try_repair_done_catchup, which skips the votes, preserves ReplicaInv.
LEMMA CatchupStage ==
  ASSUME NEW r, NEW S \in SUBSET Message, NEW s, ReplicaInv(r, s, S)
  PROVE  ReplicaInv(r, try_repair_done_catchup(s), S)
<1>1. CASE ~can_repair_done_catchup(s)
  BY <1>1 DEF try_repair_done_catchup
<1>2. CASE can_repair_done_catchup(s)
  <2> DEFINE next == s.round + 1
             size == s.kv_size
             none == {}
             t == [s EXCEPT !.phase = "Speculative", !.round = next,
                            !.start_idx = size, !.in_repair = FALSE,
                            !.proposed_history_hash = 0]
  <2>1. s \in ReplicaState
    BY DEF ReplicaInv
  <2>2. next \in Nat /\ size \in Nat
    BY <2>1 DEF ReplicaState
  <2>3. try_repair_done_catchup(s) = t
    BY <1>2 DEF try_repair_done_catchup, handle_repair_done_catchup
  <2> HIDE DEF next, size
  <2>4. "Speculative" \in Phase /\ 0 \in Nat /\ FALSE \in BOOLEAN
    BY DEF Phase
  <2>5. t \in ReplicaState
    BY <2>1, <2>2, <2>4, Zenon DEF ReplicaState
  <2>6. /\ t.node_id = s.node_id /\ t.round = next
        /\ t.phase = "Speculative" /\ t.in_repair = FALSE
        /\ t.repair_commit_msgs = s.repair_commit_msgs
        /\ t.effects = s.effects \cup none
    BY <2>1, SMT DEF ReplicaState
  <2> HIDE DEF t
  <2>7. t.round = s.round + 1
    BY <2>6 DEF next
  <2>8. \A m \in none : /\ HasSender(m) => m.from = s.node_id
                        /\ m.type # "RepairCommit"
                        /\ m.type = "RepairDone" => Vouched(S, m)
    OBVIOUS
  <2> HIDE DEF none
  <2>9. ReplicaInv(r, t, S)
    BY <2>5, <2>6, <2>7, <2>8, NextRoundStep
  <2> QED BY <2>3, <2>9
<1> QED BY <1>1, <1>2

\* The checkpoint timer and the view change preserve ReplicaInv; the latter
\* runs in CollectingLogs only, before any vote of the round.
LEMMA TimerStages ==
  ASSUME NEW r, NEW S, NEW s, ReplicaInv(r, s, S), NEW e \in Event
  PROVE  /\ can_chkpt_timeout(s, e) =>
             ReplicaInv(r, handle_chkpt_timeout(s, e.log_idx), S)
         /\ can_view_change(s, e) => ReplicaInv(r, handle_view_change(s), S)
<1>1. s \in ReplicaState
  BY DEF ReplicaInv
<1>2. ASSUME can_chkpt_timeout(s, e)
      PROVE  ReplicaInv(r, handle_chkpt_timeout(s, e.log_idx), S)
  <2> DEFINE x == [type |-> "TimeoutMsg", from |-> s.node_id, round |-> s.round,
                   log_idx |-> e.log_idx]
  <2>1. e.log_idx \in Nat
    BY <1>2 DEF Event, can_chkpt_timeout
  <2>2. x \in TimeoutMsg
    BY <1>1, <2>1 DEF TimeoutMsg, ReplicaState
  <2>3. x \in Message /\ x.type = "TimeoutMsg" /\ x.from = s.node_id
    BY <2>2 DEF Message
  <2>4. handle_chkpt_timeout(s, e.log_idx) = [s EXCEPT !.effects = @ \cup {x}]
    BY DEF handle_chkpt_timeout
  <2> HIDE DEF x
  <2> QED BY <2>3, <2>4, SendStep
<1>3. ASSUME can_view_change(s, e)
      PROVE  ReplicaInv(r, handle_view_change(s), S)
  <2> DEFINE v == s.view + 1
             x == OwnLog(s, v)
             sends == s.effects \cup {x}
             t == [s EXCEPT !.view = v, !.effects = sends]
  <2>1. v \in Nat
    BY <1>1 DEF ReplicaState
  <2>2. x \in Message /\ x.type = "LogMsg" /\ x.from = s.node_id
    BY <1>1, <2>1, OwnLogType
  <2>3. sends \in SUBSET Message
    BY <1>1, <2>2 DEF ReplicaState
  <2>4. handle_view_change(s) = t
    BY DEF handle_view_change
  <2> HIDE DEF x, v
  <2>5. t \in ReplicaState
    BY <1>1, <2>1, <2>3, Zenon DEF ReplicaState
  <2>6. /\ t.node_id = s.node_id /\ t.round = s.round /\ t.phase = s.phase
        /\ t.in_repair = s.in_repair
        /\ t.repair_commit_msgs = s.repair_commit_msgs
        /\ t.effects = s.effects \cup {x}
    BY <1>1 DEF ReplicaState
  <2> HIDE DEF t
  <2>7. s.phase = "CollectingLogs"
    BY <1>3 DEF can_view_change
  <2>8. Quiet(s, t, {x}, S)
    BY <2>2, <2>5, <2>6, <2>7 DEF Quiet, ReplicaInv
  <2> QED BY <2>4, <2>8, QuietStep
<1> QED BY <1>2, <1>3

\* process_message as a whole preserves ReplicaInv: its fourteen stages, each
\* on the state the one before it left.
LEMMA ProcessMessageInv ==
  ASSUME NEW r, NEW S \in SUBSET Message, NEW s, ReplicaInv(r, s, S),
         NEW m \in Message, m \in S \cup FaultyMessages \/ m.type # "RepairCommit",
         NEW pick
  PROVE  ReplicaInv(r, process_message(s, m, pick), S)
<1>1. ASSUME NEW u, ReplicaInv(r, u, S)
      PROVE  ReplicaInv(r, fast_stages(u, m), S)
  <2> DEFINE s1 == on_receive_speculate(u, m)
             s2 == send_sync_threshold(s1)
             s3 == on_receive_sync(s2, m)
             s4 == on_receive_checkpoint(s3, m)
             s5 == try_conflict_proof(s4)
             s6 == on_receive_timeout(s5, m)
             s7 == on_receive_proof(s6, m)
             s8 == on_state_request(s7, m)
             s9 == on_state_reply(s8, m)
  <2>1. ReplicaInv(r, s1, S)
    BY <1>1, SpeculateStage
  <2> HIDE DEF s1
  <2>2. ReplicaInv(r, s2, S)
    BY <2>1, SyncThresholdStage
  <2> HIDE DEF s2
  <2>3. ReplicaInv(r, s3, S)
    BY <2>2, StoreSteps, FormCheckpointStage DEF on_receive_sync
  <2> HIDE DEF s3
  <2>4. ReplicaInv(r, s4, S)
    BY <2>3, StoreSteps, EnterAlignStage DEF on_receive_checkpoint
  <2> HIDE DEF s4
  <2>5. ReplicaInv(r, s5, S)
    BY <2>4, RepairEntryStages
  <2> HIDE DEF s5
  <2>6. ReplicaInv(r, s6, S)
    BY <2>5, StoreSteps, RepairEntryStages DEF on_receive_timeout
  <2> HIDE DEF s6
  <2>7. ReplicaInv(r, s7, S)
    BY <2>6, RepairEntryStages
  <2> HIDE DEF s7
  <2>8. ReplicaInv(r, s8, S)
    BY <2>7, StateRequestStage
  <2> HIDE DEF s8
  <2>9. ReplicaInv(r, s9, S)
    BY <2>8, StateReplyStage
  <2> QED BY <2>9 DEF fast_stages, s1, s2, s3, s4, s5, s6, s7, s8
<1>2. ASSUME NEW u, ReplicaInv(r, u, S)
      PROVE  ReplicaInv(r, repair_stages(u, m, pick), S)
  <2> DEFINE s1 == on_receive_log_msg(u, m)
             s2 == on_receive_repair_history(s1, m, pick)
             s3 == on_receive_repair_prepare(s2, m)
             s4 == on_receive_repair_commit(s3, m)
             s5 == on_receive_repair_done(s4, m)
  <2>1. ReplicaInv(r, s1, S)
    BY <1>2, StoreSteps, BroadcastHistoryStage DEF on_receive_log_msg
  <2> HIDE DEF s1
  <2>2. ReplicaInv(r, s2, S)
    BY <2>1, StoreSteps, RepairPrepareStage DEF on_receive_repair_history
  <2> HIDE DEF s2
  <2>3. ReplicaInv(r, s3, S)
    BY <2>2, StoreSteps, RepairCommitStage DEF on_receive_repair_prepare
  <2> HIDE DEF s3
  <2>4. ReplicaInv(r, s4, S)
    BY <2>3, StoreSteps, ApplyRepairStage DEF on_receive_repair_commit
  <2> HIDE DEF s4
  <2>5. ReplicaInv(r, s5, S)
    BY <2>4, StoreSteps, CatchupStage DEF on_receive_repair_done
  <2> QED BY <2>5 DEF repair_stages, s1, s2, s3, s4
<1>3. ReplicaInv(r, fast_stages(s, m), S)
  BY <1>1
<1> QED BY <1>2, <1>3 DEF process_message

\* handle_event as a whole preserves ReplicaInv.
LEMMA HandleEventInv ==
  ASSUME NEW r, NEW S \in SUBSET Message, NEW s, ReplicaInv(r, s, S), NEW e \in Event
  PROVE  ReplicaInv(r, handle_event(s, e), S)
<1> DEFINE s1 == IF can_send_sync_on_event(s, e) THEN handle_send_sync(s) ELSE s
           s2 == IF can_chkpt_timeout(s1, e)
                   THEN handle_chkpt_timeout(s1, e.log_idx) ELSE s1
           s3 == IF can_view_change(s2, e) THEN handle_view_change(s2) ELSE s2
<1>1. ReplicaInv(r, s1, S)
  BY SendSyncStage DEF can_send_sync_on_event
<1> HIDE DEF s1
<1>2. ReplicaInv(r, s2, S)
  BY <1>1, TimerStages
<1> HIDE DEF s2
<1>3. ReplicaInv(r, s3, S)
  BY <1>2, TimerStages
<1> QED BY <1>3 DEF handle_event, s1, s2

\* A quorum of commits stays one when more messages are sent.
LEMMA VouchedMono ==
  ASSUME NEW S, NEW T \in SUBSET Message, S \subseteq T, NEW d, Vouched(S, d)
  PROVE  Vouched(T, d)
<1> DEFINE A == Senders(CommitVotes(S, d))
           B == Senders(CommitVotes(T, d))
<1>1. A \subseteq B
  BY DEF Senders, CommitVotes
<1>2. \A m \in CommitVotes(T, d) : m \in RepairCommit
  BY FaultyMessageAssumption, MessageKinds DEF CommitVotes
<1>3. B \subseteq Node
  BY <1>2 DEF Senders, RepairCommit, RepairMsg
<1>4. IsFiniteSet(B)
  BY <1>3, NodeAssumption, FS_Subset
<1>5. Cardinality(A) <= Cardinality(B)
  BY <1>1, <1>4, FS_Subset
<1>6. Cardinality(A) \in Nat /\ Cardinality(B) \in Nat /\ byz_quorum \in Int
  BY <1>1, <1>4, FS_Subset, FS_CardinalityType, NodeAssumption, FaultAssumption
     DEF byz_quorum, n_replicas
<1>7. Cardinality(A) >= byz_quorum
  BY DEF Vouched
<1>8. Cardinality(B) >= byz_quorum
  BY <1>5, <1>6, <1>7
<1> QED BY <1>8 DEF Vouched

\* The initial states of Replica::new satisfy the inductive invariant.
LEMMA InitInv == Init => IInv
<1> SUFFICES ASSUME Init PROVE IInv
  OBVIOUS
<1>1. ASSUME NEW r \in Correct
      PROVE  /\ new(r) \in ReplicaState
             /\ new(r).node_id = r /\ new(r).effects = {}
             /\ new(r).phase = "Speculative" /\ new(r).in_repair = FALSE
             /\ new(r).repair_commit_msgs = {}
  <2>1. ZeroHash \in Hash /\ <<>> \in KvStore /\ "Speculative" \in Phase /\ r \in Node
    BY DEF ZeroHash, Bytes, Hash, KvStore, Phase, Correct
  <2> QED BY <2>1 DEF new, ReplicaState
<1>2. sent = {} /\ rep = [r \in Correct |-> new(r)]
  BY DEF Init
<1>3. TypeOK
  BY <1>1, <1>2 DEF TypeOK
<1>4. ASSUME NEW r \in Correct
      PROVE  ReplicaInv(r, rep[r], sent)
  <2>1. OwnCommits(rep[r], sent) = {}
    BY <1>1, <1>2 DEF OwnCommits
  <2> QED BY <1>1, <1>2, <2>1 DEF ReplicaInv, RepairPhase
<1> QED BY <1>2, <1>3, <1>4 DEF IInv, DoneCertified, SentOf

\* Handing the effects of a step to the transport keeps the invariant: of the
\* replica that stepped, and of all others, whose votes it cannot add to.
LEMMA ExecuteInv ==
  ASSUME IInv, NEW r \in Correct, NEW t, ReplicaInv(r, t, sent), Execute(r, t)
  PROVE  IInv'
<1> DEFINE u == [t EXCEPT !.effects = {}]
<1>1. t \in ReplicaState /\ t.node_id = r /\ t.effects \subseteq Message
  BY DEF ReplicaInv, ReplicaState
<1>2. u \in ReplicaState
  <2>1. {} \in SUBSET Message
    OBVIOUS
  <2> QED BY <1>1, <2>1, Zenon DEF ReplicaState
<1>3. /\ u.node_id = r /\ u.round = t.round /\ u.phase = t.phase
      /\ u.view = t.view /\ u.in_repair = t.in_repair /\ u.effects = {}
      /\ u.proposed_history_hash = t.proposed_history_hash
      /\ u.repair_commit_msgs = t.repair_commit_msgs
  BY <1>1 DEF ReplicaState
<1>4. rep' = [rep EXCEPT ![r] = u] /\ sent' = sent \cup t.effects
  BY DEF Execute
<1> HIDE DEF u
<1>5. /\ rep \in [Correct -> ReplicaState] /\ sent \subseteq Message
      /\ \A q \in Correct : rep[q].node_id = q /\ rep[q].effects = {}
  BY DEF IInv, TypeOK
<1>6. rep'[r] = u /\ \A q \in Correct \ {r} : rep'[q] = rep[q]
  BY <1>4, <1>5
<1>7. sent' \in SUBSET Message
  BY <1>1, <1>4, <1>5
<1>8. TypeOK'
  <2>1. rep' \in [Correct -> ReplicaState]
    BY <1>2, <1>4, <1>5
  <2> QED BY <1>3, <1>5, <1>6, <1>7, <2>1 DEF TypeOK
<1>9. \A m \in t.effects : HasSender(m) => m.from = r
  BY <1>1 DEF ReplicaInv
<1>10. \A m \in sent' : HasSender(m) => m.from \in Correct
  BY <1>4, <1>9 DEF IInv
<1>11. DoneCertified'
  <2>1. ASSUME NEW d \in sent', d.type = "RepairDone"
        PROVE  Vouched(sent, d)
    <3>1. CASE d \in sent
      BY <2>1, <3>1 DEF IInv, DoneCertified, SentOf
    <3>2. CASE d \in t.effects
      BY <2>1, <3>2 DEF ReplicaInv
    <3> QED BY <1>4, <3>1, <3>2
  <2>2. ASSUME NEW d \in sent', d.type = "RepairDone"
        PROVE  Vouched(sent', d)
    BY <1>4, <1>7, <2>1, <2>2, VouchedMono
  <2> QED BY <2>2 DEF DoneCertified, SentOf, Vouched, CommitVotes
<1>12. ReplicaInv(r, u, sent')
  <2>1. OwnCommits(u, sent') = OwnCommits(t, sent)
    BY <1>1, <1>3, <1>4 DEF OwnCommits
  <2>2. \A c \in OwnCommits(u, sent') :
          /\ c.round <= u.round
          /\ c.round = u.round =>
              /\ u.phase = "CommitPhase"
              /\ c.view = u.view
              /\ c.history_hash = u.proposed_history_hash
    BY <1>3, <2>1 DEF ReplicaInv
  <2>3. \A c1, c2 \in OwnCommits(u, sent') : c1.round = c2.round => c1 = c2
    BY <2>1 DEF ReplicaInv
  <2>4. /\ u.in_repair <=> u.phase \in RepairPhase
        /\ u.repair_commit_msgs \subseteq sent' \cup FaultyMessages
    BY <1>3, <1>4 DEF ReplicaInv
  <2> QED BY <1>2, <1>3, <2>2, <2>3, <2>4 DEF ReplicaInv
<1>13. ASSUME NEW q \in Correct, q # r
       PROVE  ReplicaInv(q, rep[q], sent')
  <2>1. ReplicaInv(q, rep[q], sent)
    BY DEF IInv
  <2>2. OwnCommits(rep[q], sent') = OwnCommits(rep[q], sent)
    <3>1. \A c \in t.effects : c.type = "RepairCommit" => c.from # q
      BY <1>9, <1>13 DEF HasSender
    <3> QED BY <1>4, <1>5, <3>1 DEF OwnCommits
  <2>3. \A c \in OwnCommits(rep[q], sent') :
          /\ c.round <= rep[q].round
          /\ c.round = rep[q].round =>
              /\ rep[q].phase = "CommitPhase"
              /\ c.view = rep[q].view
              /\ c.history_hash = rep[q].proposed_history_hash
    BY <2>1, <2>2 DEF ReplicaInv
  <2>4. \A c1, c2 \in OwnCommits(rep[q], sent') : c1.round = c2.round => c1 = c2
    BY <2>1, <2>2 DEF ReplicaInv
  <2>5. rep[q].repair_commit_msgs \subseteq sent' \cup FaultyMessages
    BY <1>4, <2>1 DEF ReplicaInv
  <2> QED BY <1>5, <2>1, <2>3, <2>4, <2>5 DEF ReplicaInv
<1>14. \A q \in Correct : ReplicaInv(q, rep'[q], sent')
  BY <1>6, <1>12, <1>13
<1>15. (\A q \in Correct : ReplicaInv(q, rep[q], sent))'
  BY <1>14 DEF ReplicaInv, OwnCommits, Vouched, CommitVotes
<1> QED BY <1>8, <1>10, <1>11, <1>15 DEF IInv

\* Every step of the cluster preserves the inductive invariant.
LEMMA NextInv == IInv /\ [Next]_vars => IInv'
<1> SUFFICES ASSUME IInv, [Next]_vars PROVE IInv'
  OBVIOUS
<1>1. sent \in SUBSET Message
  BY DEF IInv, TypeOK
<1>2. ASSUME NEW r \in Correct, NEW m \in Message,
             m \in sent \cup FaultyMessages \/ m.type # "RepairCommit",
             ReceiveMessage(r, m)
      PROVE  IInv'
  <2>1. PICK pick \in Picks(rep[r], m) : Execute(r, process_message(rep[r], m, pick))
    BY <1>2 DEF ReceiveMessage
  <2>2. ReplicaInv(r, rep[r], sent)
    BY DEF IInv
  <2>3. ReplicaInv(r, process_message(rep[r], m, pick), sent)
    BY <1>1, <1>2, <2>2, ProcessMessageInv
  <2> QED BY <2>1, <2>3, ExecuteInv
<1>3. ASSUME NEW r \in Correct, NEW m \in Requests, ReceiveMessage(r, m)
      PROVE  IInv'
  <2>1. m \in Message /\ m.type # "RepairCommit"
    BY RequestAssumption DEF Message, Speculate
  <2> QED BY <1>2, <1>3, <2>1
<1>4. ASSUME NEW r \in Correct, NEW m \in sent \cup FaultyMessages,
             ReceiveMessage(r, m)
      PROVE  IInv'
  <2>1. m \in Message
    BY <1>1, FaultyMessageAssumption
  <2> QED BY <1>2, <1>4, <2>1
<1>5. ASSUME NEW r \in Correct, NEW e \in Timers, TimerEvent(r, e)
      PROVE  IInv'
  <2>1. ReplicaInv(r, rep[r], sent) /\ e \in Event
    BY TimerAssumption DEF IInv
  <2>2. ReplicaInv(r, handle_event(rep[r], e), sent)
    BY <1>1, <2>1, HandleEventInv
  <2> QED BY <1>5, <2>2, ExecuteInv DEF TimerEvent
<1>6. CASE UNCHANGED vars
  BY <1>6 DEF vars, IInv, TypeOK, ReplicaInv, OwnCommits, DoneCertified, SentOf,
     Vouched, CommitVotes
<1> QED BY <1>3, <1>4, <1>5, <1>6 DEF Next

\* IInv, the invariant the other theorems rest on, holds in every reachable
\* state of a cluster of any size.
THEOREM InductiveInvariant == Spec => []IInv
BY InitInv, NextInv, PTL DEF Spec

\* Type correctness of every replica and of everything sent, for every
\* configuration: no field of ReplicaState leaves its range (in particular
\* kv_size - 1 is never computed on an empty log).
THEOREM TypeCorrect == Spec => []TypeOK
<1>1. IInv => TypeOK
  BY DEF IInv
<1> QED BY <1>1, InductiveInvariant, PTL

\* in_repair and phase agree in every reachable state, whatever stages one
\* message runs through.
THEOREM PhasesConsistent == Spec => []PhaseConsistency
<1>1. IInv => PhaseConsistency
  BY DEF IInv, ReplicaInv, PhaseConsistency
<1> QED BY <1>1, InductiveInvariant, PTL

\* Every REPAIR-DONE of a correct replica has REPAIR-COMMITs of n - f
\* different replicas behind it (can_apply_repair, repair.rs).
THEOREM DonesCertified == Spec => []DoneCertified
<1>1. IInv => DoneCertified
  BY DEF IInv
<1> QED BY <1>1, InductiveInvariant, PTL

\* The inductive invariant implies that commits are unique per round.
LEMMA CommitOnceFromInv == IInv => CommitOnce
<1> SUFFICES ASSUME IInv, NEW c1 \in SentOf("RepairCommit"),
                    NEW c2 \in SentOf("RepairCommit"),
                    c1.from = c2.from, c1.round = c2.round
             PROVE  c1 = c2
  BY DEF CommitOnce
<1>1. c1 \in sent /\ c1.type = "RepairCommit" /\ c2 \in sent /\ c2.type = "RepairCommit"
  BY DEF SentOf
<1>2. c1.from \in Correct
  BY <1>1 DEF IInv, HasSender
<1>3. ReplicaInv(c1.from, rep[c1.from], sent)
  BY <1>2 DEF IInv
<1>4. c1 \in OwnCommits(rep[c1.from], sent) /\ c2 \in OwnCommits(rep[c1.from], sent)
  BY <1>1, <1>3 DEF OwnCommits, ReplicaInv
<1> QED BY <1>3, <1>4 DEF ReplicaInv

\* A correct replica sends at most one REPAIR-COMMIT per round, across all
\* views and whatever proofs, timers and votes reach it.
THEOREM CommitsOnce == Spec => []CommitOnce
BY CommitOnceFromInv, InductiveInvariant, PTL

\* Two sets of n - f replicas share a correct one when n > 3f.
LEMMA QuorumIntersection ==
  ASSUME NEW A \in SUBSET Node, NEW B \in SUBSET Node,
         Cardinality(A) >= byz_quorum, Cardinality(B) >= byz_quorum
  PROVE  \E r \in Correct : r \in A /\ r \in B
<1>1. IsFiniteSet(Node) /\ IsFiniteSet(A) /\ IsFiniteSet(B) /\ IsFiniteSet(Faulty)
  BY NodeAssumption, FaultyAssumption, FS_Subset
<1>2. IsFiniteSet(A \cup B) /\ Cardinality(A \cup B) <= Cardinality(Node)
  <2>1. A \cup B \in SUBSET Node
    OBVIOUS
  <2> QED BY <1>1, <2>1, FS_Subset
<1>3. Cardinality(A \cup B) = Cardinality(A) + Cardinality(B) - Cardinality(A \cap B)
  BY <1>1, FS_Union
<1>4. IsFiniteSet(A \cap B)
  BY <1>1, FS_Intersection
<1>5. /\ Cardinality(Node) \in Nat /\ Cardinality(A) \in Nat /\ Cardinality(B) \in Nat
      /\ Cardinality(A \cap B) \in Nat /\ Cardinality(A \cup B) \in Nat
      /\ Cardinality(Faulty) \in Nat
  BY <1>1, <1>2, <1>4, FS_CardinalityType
<1>6. Cardinality(A \cap B) > F
  BY <1>2, <1>3, <1>5, FaultAssumption, ResilienceAssumption DEF byz_quorum, n_replicas
<1>7. ~(A \cap B \subseteq Faulty)
  <2> SUFFICES ASSUME A \cap B \in SUBSET Faulty PROVE FALSE
    OBVIOUS
  <2>1. Cardinality(A \cap B) <= Cardinality(Faulty)
    BY <1>1, FS_Subset
  <2> QED BY <1>5, <1>6, <2>1, FaultyAssumption, FaultAssumption
<1> QED BY <1>7 DEF Correct

\* The inductive invariant implies agreement: the quorums behind two
\* REPAIR-DONEs of a round share a correct replica, which committed once.
LEMMA AgreementFromInv == IInv => RepairAgreement
<1> SUFFICES ASSUME IInv, NEW d1 \in SentOf("RepairDone"),
                    NEW d2 \in SentOf("RepairDone"), d1.round = d2.round
             PROVE  d1.history_hash = d2.history_hash
  BY DEF RepairAgreement
<1>1. Vouched(sent, d1) /\ Vouched(sent, d2)
  BY DEF IInv, DoneCertified
<1>2. sent \subseteq Message
  BY DEF IInv, TypeOK
<1>3. ASSUME NEW d
      PROVE  /\ \A m \in CommitVotes(sent, d) : m \in RepairCommit
             /\ Senders(CommitVotes(sent, d)) \in SUBSET Node
  <2>1. \A m \in CommitVotes(sent, d) : m \in RepairCommit
    BY <1>2, FaultyMessageAssumption, MessageKinds DEF CommitVotes
  <2> QED BY <2>1 DEF Senders, RepairCommit, RepairMsg
<1>4. PICK r \in Correct : /\ r \in Senders(CommitVotes(sent, d1))
                           /\ r \in Senders(CommitVotes(sent, d2))
  BY <1>1, <1>3, QuorumIntersection DEF Vouched
<1>5. PICK c1 \in CommitVotes(sent, d1) : c1.from = r
  BY <1>4 DEF Senders
<1>6. PICK c2 \in CommitVotes(sent, d2) : c2.from = r
  BY <1>4 DEF Senders
<1>7. c1 \in sent /\ c2 \in sent
  BY <1>5, <1>6, FaultyMessageAssumption DEF CommitVotes, HasSender, Correct
<1>8. c1 = c2
  BY <1>5, <1>6, <1>7, CommitOnceFromInv DEF CommitOnce, SentOf, CommitVotes
<1> QED BY <1>8 DEF CommitVotes

\* Agreement of REPAIR: correct replicas that apply a repair in the same
\* round apply the same history, for every n > 3f, every behaviour of the
\* faulty replicas, every delivery order and every view.
THEOREM RepairAgrees == Spec => []RepairAgreement
BY AgreementFromInv, InductiveInvariant, PTL
=============================================================================
