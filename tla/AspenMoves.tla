----------------------------- MODULE AspenMoves -----------------------------
(***************************************************************************)
(* What one stage of process_message or handle_event may change.  Every    *)
(* stage makes a Move or leaves the replica alone, so that a set of states *)
(* closed under moves is closed under both handlers (HandledWalk).  The    *)
(* modules that extend this one argue about moves and not about stages.    *)
(***************************************************************************)
EXTENDS AspenProofs

SameMode(s, t) ==
    /\ t.phase = s.phase
    /\ t.round = s.round
    /\ t.view = s.view
    /\ t.in_repair = s.in_repair
    /\ t.proposed_history_hash = s.proposed_history_hash

SameLog(s, t) ==
    /\ t.start_idx = s.start_idx
    /\ t.kv_size = s.kv_size
    /\ t.kv_store = s.kv_store

\* Every message the replica has collected, of whatever type.
Collected(s) ==
    s.sync_msgs \cup s.chkpt_msgs \cup s.timeout_msgs \cup s.log_msgs
        \cup s.repair_history_msgs \cup s.repair_prepare_msgs
        \cup s.repair_commit_msgs \cup s.repair_done_msgs

\* The replica, its eta_star, which no stage writes, and its collections.
SameSets(s, t) ==
    /\ t.node_id = s.node_id
    /\ t.eta_star = s.eta_star
    /\ Collected(t) = Collected(s)

-----------------------------------------------------------------------------
(* The moves.                                                              *)

\* A store_* stage: a message of M joins a collection.
Keep(s, t, M) ==
    /\ t.node_id = s.node_id /\ t.eta_star = s.eta_star
    /\ SameMode(s, t) /\ SameLog(s, t)
    /\ t.effects = s.effects
    /\ \E m \in M : Collected(t) = Collected(s) \cup {m}

Send(s, t, x) ==
    /\ SameSets(s, t) /\ SameMode(s, t) /\ SameLog(s, t)
    /\ t.effects = s.effects \cup {x}

SendSync(s, t) ==
    \E x : Send(s, t, x) /\ x.type = "Sync" /\ x.eta_star = s.eta_star

FormCheckpoint(s, t) ==
    /\ can_form_checkpoint(s)
    /\ \E x : /\ Send(s, t, x)
              /\ x.type = "Checkpoint" /\ x.round = s.round
              /\ x.log_idx = s.kv_size - 1 /\ x.log_hash = top_hash(s.kv_store)

Answer(s, t) ==
    \E x : Send(s, t, x) /\ x.type \in {"StateReply", "TimeoutMsg"}

Append1(s, t) ==
    /\ SameSets(s, t) /\ SameMode(s, t)
    /\ t.start_idx = s.start_idx
    /\ t.kv_size = s.kv_size + 1
    /\ t.kv_store = put(s.kv_store, s.kv_size,
                        [op_hash |-> s.kv_size, prev_hash |-> prev_hash(s, s.kv_size)])
    /\ \E x : t.effects = s.effects \cup {x} /\ x.type = "SpecReply"

Align(s, t) ==
    /\ s.phase = "Speculative" /\ t.phase = "Aligning"
    /\ SameSets(s, t) /\ SameLog(s, t)
    /\ t.round = s.round /\ t.view = s.view /\ t.in_repair = s.in_repair
    /\ t.proposed_history_hash = s.proposed_history_hash
    /\ \E x : t.effects = s.effects \cup {x} /\ x.type = "StateRequest"

Recover(s, t) ==
    /\ s.phase = "Aligning" /\ t.phase = "Speculative"
    /\ SameSets(s, t)
    /\ t.round = s.round /\ t.view = s.view /\ t.in_repair = s.in_repair
    /\ t.proposed_history_hash = s.proposed_history_hash
    /\ \E i \in Nat : /\ t.kv_store = rebuilt(i + 1)
                      /\ t.kv_size = i + 1 /\ t.start_idx = i
    /\ t.effects = s.effects

TheProof(s, ty) == [type |-> ty, round |-> s.round, log_idx |-> s.kv_size - 1]

EnterRepair(s, t) ==
    /\ ~s.in_repair /\ t.in_repair = TRUE /\ t.phase = "CollectingLogs"
    /\ SameSets(s, t) /\ SameLog(s, t)
    /\ t.round = s.round /\ t.view = s.view
    /\ t.proposed_history_hash = s.proposed_history_hash
    /\ \E proofs :
        /\ t.effects = s.effects \cup proofs \cup {OwnLog(s, s.view)}
        /\ \/ proofs = {}
           \/ proofs = {TheProof(s, "ConflictProof")} /\ can_conflict_proof(s)
           \/ proofs = {TheProof(s, "TimeoutProof")} /\ can_timeout_proof(s)

Propose(s, t) ==
    /\ s.phase \in {"CollectingLogs", "PreparePhase"} /\ t.phase = "PreparePhase"
    /\ SameSets(s, t) /\ SameLog(s, t)
    /\ t.round = s.round /\ t.view = s.view /\ t.in_repair = s.in_repair
    /\ \/ /\ can_broadcast_history(s)
          /\ t.proposed_history_hash = Cardinality(LogSenders(s))
          /\ t.effects = s.effects \cup
                 {RepairVote(s, "RepairHistory", t.proposed_history_hash)}
       \/ /\ t.proposed_history_hash \in HistoryChoices(s)
          /\ t.effects = s.effects \cup
                 {RepairVote(s, "RepairPrepare", t.proposed_history_hash)}

Commit(s, t) ==
    /\ can_repair_commit(s) /\ t.phase = "CommitPhase"
    /\ SameSets(s, t) /\ SameLog(s, t)
    /\ t.round = s.round /\ t.view = s.view /\ t.in_repair = s.in_repair
    /\ t.proposed_history_hash = s.proposed_history_hash
    /\ t.effects = s.effects \cup
           {RepairVote(s, "RepairCommit", s.proposed_history_hash)}

ChangeView(s, t) ==
    /\ s.phase = "CollectingLogs" /\ t.phase = "CollectingLogs"
    /\ SameSets(s, t) /\ SameLog(s, t)
    /\ t.round = s.round /\ t.view = s.view + 1 /\ t.in_repair = s.in_repair
    /\ t.proposed_history_hash = s.proposed_history_hash
    /\ t.effects = s.effects \cup {OwnLog(s, s.view + 1)}

NextRound(s, t) ==
    /\ SameSets(s, t)
    /\ t.phase = "Speculative" /\ t.in_repair = FALSE
    /\ t.round = s.round + 1 /\ t.view = s.view

Apply(s, t) ==
    /\ can_apply_repair(s)
    /\ NextRound(s, t)
    /\ t.kv_store = IF s.proposed_history_hash > 0
                      THEN rebuilt(s.proposed_history_hash) ELSE s.kv_store
    /\ t.kv_size = s.proposed_history_hash
    /\ t.start_idx = s.proposed_history_hash
    /\ t.effects = s.effects \cup DoneMessages(s)

Catchup(s, t) ==
    /\ can_repair_done_catchup(s)
    /\ NextRound(s, t)
    /\ t.kv_store = s.kv_store /\ t.kv_size = s.kv_size /\ t.start_idx = s.kv_size
    /\ t.effects = s.effects

\* The moves within a round, and all of them.
EarlyMove(s, t, M) ==
    \/ t = s \/ Keep(s, t, M)
    \/ SendSync(s, t) \/ FormCheckpoint(s, t) \/ Answer(s, t) \/ Append1(s, t)
    \/ Align(s, t) \/ Recover(s, t) \/ EnterRepair(s, t)
    \/ Propose(s, t) \/ Commit(s, t) \/ ChangeView(s, t)

Move(s, t, M) == EarlyMove(s, t, M) \/ Apply(s, t) \/ Catchup(s, t)

-----------------------------------------------------------------------------
(* Every stage is a move.                                                  *)

\* on_receive_speculate appends an entry, when it does anything.
LEMMA SpeculateMove ==
  ASSUME NEW s \in ReplicaState, NEW m, NEW M
  PROVE  EarlyMove(s, on_receive_speculate(s, m), M)
<1>1. CASE ~can_speculate(s, m)
  BY <1>1 DEF on_receive_speculate, EarlyMove
<1>2. CASE can_speculate(s, m)
  <2> DEFINE idx == s.kv_size
             store == put(s.kv_store, idx,
                          [op_hash |-> idx, prev_hash |-> prev_hash(s, idx)])
             x == [type |-> "SpecReply", from |-> s.node_id,
                    round |-> s.round, log_idx |-> idx,
                    log_hash |-> hash_at(store, idx)]
             t == [s EXCEPT !.kv_store = store, !.kv_size = idx + 1,
                            !.effects = @ \cup {x}]
  <2>1. on_receive_speculate(s, m) = t
    BY <1>2 DEF on_receive_speculate, handle_speculate
  <2>2. x.type = "SpecReply"
    OBVIOUS
  <2> HIDE DEF x, store
  <2>3. /\ t.kv_store = store /\ t.kv_size = idx + 1 /\ t.effects = s.effects \cup {x}
        /\ SameSets(s, t) /\ SameMode(s, t) /\ t.start_idx = s.start_idx
    BY DEF ReplicaState, SameSets, SameMode, Collected
  <2>4. Append1(s, t)
    BY <2>2, <2>3 DEF Append1, store
  <2> QED BY <2>1, <2>4 DEF EarlyMove
<1> QED BY <1>1, <1>2

\* A handler that only adds x to the effects is a Send.
LEMMA SendMove ==
  ASSUME NEW s \in ReplicaState, NEW x
  PROVE  Send(s, [s EXCEPT !.effects = @ \cup {x}], x)
BY DEF ReplicaState, Send, SameSets, SameMode, SameLog, Collected

\* The SYNC of the log top, sent by timer or threshold.
LEMMA SendSyncMove ==
  ASSUME NEW s \in ReplicaState, NEW M
  PROVE  EarlyMove(s, handle_send_sync(s), M)
<1> DEFINE x == [type |-> "Sync", from |-> s.node_id, round |-> s.round,
                 log_idx |-> s.kv_size - 1, log_hash |-> top_hash(s.kv_store),
                 eta_star |-> s.eta_star]
<1>1. x.type = "Sync" /\ x.eta_star = s.eta_star
  OBVIOUS
<1>2. handle_send_sync(s) = [s EXCEPT !.effects = @ \cup {x}]
  BY DEF handle_send_sync
<1> HIDE DEF x
<1>3. SendSync(s, handle_send_sync(s))
  BY <1>1, <1>2, SendMove DEF SendSync
<1> QED BY <1>3 DEF EarlyMove

\* try_form_checkpoint: the CHECKPOINT names the log top.
LEMMA FormCheckpointMove ==
  ASSUME NEW s \in ReplicaState, NEW M
  PROVE  EarlyMove(s, try_form_checkpoint(s), M)
<1>1. CASE ~can_form_checkpoint(s)
  BY <1>1 DEF try_form_checkpoint, EarlyMove
<1>2. CASE can_form_checkpoint(s)
  <2> DEFINE idx == s.kv_size - 1
             hash == top_hash(s.kv_store)
             x == [type |-> "Checkpoint", from |-> s.node_id, round |-> s.round,
                   log_idx |-> idx, log_hash |-> hash]
             t == [s EXCEPT !.chkpt_idx = idx, !.chkpt_hash = hash,
                            !.effects = @ \cup {x}]
  <2>1. try_form_checkpoint(s) = t
    BY <1>2 DEF try_form_checkpoint, handle_form_checkpoint
  <2>2. x.type = "Checkpoint" /\ x.round = s.round /\ x.log_idx = idx /\ x.log_hash = hash
    OBVIOUS
  <2> HIDE DEF x
  <2>3. Send(s, t, x)
    BY DEF ReplicaState, Send, SameSets, SameMode, SameLog, Collected
  <2>4. FormCheckpoint(s, t)
    BY <1>2, <2>2, <2>3 DEF FormCheckpoint
  <2> QED BY <2>1, <2>4 DEF EarlyMove
<1> QED BY <1>1, <1>2

\* try_enter_align.
LEMMA AlignMove ==
  ASSUME NEW s \in ReplicaState, NEW M
  PROVE  EarlyMove(s, try_enter_align(s), M)
<1>1. CASE ~can_enter_align(s)
  BY <1>1 DEF try_enter_align, EarlyMove
<1>2. CASE can_enter_align(s)
  <2> DEFINE x == [type |-> "StateRequest", from |-> s.node_id,
                   chkpt_idx |-> s.chkpt_idx]
             t == [s EXCEPT !.phase = "Aligning", !.effects = @ \cup {x}]
  <2>1. try_enter_align(s) = t /\ s.phase = "Speculative"
    BY <1>2 DEF try_enter_align, handle_enter_align, can_enter_align
  <2>2. x.type = "StateRequest"
    OBVIOUS
  <2> HIDE DEF x
  <2>3. Align(s, t)
    BY <2>1, <2>2 DEF ReplicaState, Align, SameSets, SameLog, Collected
  <2> QED BY <2>1, <2>3 DEF EarlyMove
<1> QED BY <1>1, <1>2

\* on_state_reply rebuilds the log up to the index of the reply.
LEMMA RecoverMove ==
  ASSUME NEW s \in ReplicaState, NEW m \in Message, NEW M
  PROVE  EarlyMove(s, on_state_reply(s, m), M)
<1>1. CASE ~can_state_reply(s, m)
  BY <1>1 DEF on_state_reply, EarlyMove
<1>2. CASE can_state_reply(s, m)
  <2> DEFINE i == m.chkpt_idx
             store == rebuilt(i + 1)
             hash == hash_at(store, i)
             t == [s EXCEPT !.kv_store = store, !.phase = "Speculative",
                            !.chkpt_idx = i, !.chkpt_hash = hash,
                            !.kv_size = i + 1, !.start_idx = i]
  <2>1. i \in Nat
    BY <1>2, MessageKinds DEF can_state_reply, StateReply
  <2>2. on_state_reply(s, m) = t /\ s.phase = "Aligning"
    BY <1>2 DEF on_state_reply, handle_state_reply, can_state_reply
  <2> HIDE DEF i, store, hash
  <2>3. /\ t.phase = "Speculative" /\ t.kv_store = store
        /\ t.kv_size = i + 1 /\ t.start_idx = i /\ t.effects = s.effects
        /\ t.round = s.round /\ t.view = s.view /\ t.in_repair = s.in_repair
        /\ t.proposed_history_hash = s.proposed_history_hash
    BY DEF ReplicaState
  <2>4. SameSets(s, t)
    BY DEF ReplicaState, SameSets, Collected
  <2>5. Recover(s, t)
    BY <2>1, <2>2, <2>3, <2>4 DEF Recover, store
  <2> QED BY <2>2, <2>5 DEF EarlyMove
<1> QED BY <1>1, <1>2

\* start_repair with the proofs that EnterRepair allows.
LEMMA EnterRepairMove ==
  ASSUME NEW s \in ReplicaState, NEW M, NEW proofs, ~s.in_repair,
         \/ proofs = {}
         \/ proofs = {TheProof(s, "ConflictProof")} /\ can_conflict_proof(s)
         \/ proofs = {TheProof(s, "TimeoutProof")} /\ can_timeout_proof(s)
  PROVE  EarlyMove(s, start_repair(s, proofs), M)
<1> DEFINE l == OwnLog(s, s.view)
           t == [s EXCEPT !.phase = "CollectingLogs", !.in_repair = TRUE,
                          !.effects = @ \cup proofs \cup {l}]
<1>1. start_repair(s, proofs) = t
  BY DEF start_repair
<1> HIDE DEF l
<1>2. /\ t.in_repair = TRUE /\ t.phase = "CollectingLogs"
      /\ t.round = s.round /\ t.view = s.view
      /\ t.proposed_history_hash = s.proposed_history_hash
      /\ t.effects = s.effects \cup proofs \cup {l}
      /\ SameSets(s, t) /\ SameLog(s, t)
  BY DEF ReplicaState, SameSets, SameLog, Collected
<1>3. EnterRepair(s, t)
  BY <1>2 DEF EnterRepair, l
<1> QED BY <1>1, <1>3 DEF EarlyMove

\* The three ways into REPAIR.
LEMMA RepairEntryMoves ==
  ASSUME NEW s \in ReplicaState, NEW m, NEW M
  PROVE  /\ EarlyMove(s, try_conflict_proof(s), M)
         /\ EarlyMove(s, try_timeout_proof(s), M)
         /\ EarlyMove(s, on_receive_proof(s, m), M)
<1>1. EarlyMove(s, s, M)
  BY DEF EarlyMove
<1>2. EarlyMove(s, try_conflict_proof(s), M)
  <2>1. CASE can_conflict_proof(s)
    <3>1. ~s.in_repair
      BY <2>1 DEF can_conflict_proof
    <3> QED BY <2>1, <3>1, EnterRepairMove
            DEF try_conflict_proof, handle_conflict_proof, TheProof
  <2> QED BY <1>1, <2>1 DEF try_conflict_proof
<1>3. EarlyMove(s, try_timeout_proof(s), M)
  <2>1. CASE can_timeout_proof(s)
    <3>1. ~s.in_repair
      BY <2>1 DEF can_timeout_proof
    <3> QED BY <2>1, <3>1, EnterRepairMove
            DEF try_timeout_proof, handle_timeout_proof, TheProof
  <2> QED BY <1>1, <2>1 DEF try_timeout_proof
<1>4. EarlyMove(s, on_receive_proof(s, m), M)
  <2>1. CASE can_enter_repair(s, m)
    <3>1. ~s.in_repair
      BY <2>1 DEF can_enter_repair
    <3> QED BY <2>1, <3>1, EnterRepairMove DEF on_receive_proof, handle_enter_repair
  <2> QED BY <1>1, <2>1 DEF on_receive_proof
<1> QED BY <1>2, <1>3, <1>4

\* The eight store_* stages.
LEMMA StoreMoves ==
  ASSUME NEW s \in ReplicaState, NEW m
  PROVE  /\ EarlyMove(s, store_sync(s, m), {m})
         /\ EarlyMove(s, store_checkpoint(s, m), {m})
         /\ EarlyMove(s, store_timeout(s, m), {m})
         /\ EarlyMove(s, store_log_msg(s, m), {m})
         /\ EarlyMove(s, store_repair_history(s, m), {m})
         /\ EarlyMove(s, store_repair_prepare(s, m), {m})
         /\ EarlyMove(s, store_repair_commit(s, m), {m})
         /\ EarlyMove(s, store_repair_done(s, m), {m})
<1>1. EarlyMove(s, s, {m})
  BY DEF EarlyMove
<1>2. ASSUME NEW t, Keep(s, t, {m}) PROVE EarlyMove(s, t, {m})
  BY <1>2 DEF EarlyMove
<1> USE DEF ReplicaState, Keep, SameMode, SameLog
<1>3. Keep(s, [s EXCEPT !.sync_msgs = @ \cup {m}], {m})
  BY DEF Collected
<1>4. Keep(s, [s EXCEPT !.chkpt_msgs = @ \cup {m}], {m})
  BY DEF Collected
<1>5. Keep(s, [s EXCEPT !.timeout_msgs = @ \cup {m}], {m})
  BY DEF Collected
<1>6. Keep(s, [s EXCEPT !.log_msgs = @ \cup {m}], {m})
  BY DEF Collected
<1>7. Keep(s, [s EXCEPT !.repair_history_msgs = @ \cup {m}], {m})
  BY DEF Collected
<1>8. Keep(s, [s EXCEPT !.repair_prepare_msgs = @ \cup {m}], {m})
  BY DEF Collected
<1>9. Keep(s, [s EXCEPT !.repair_commit_msgs = @ \cup {m}], {m})
  BY DEF Collected
<1>10. Keep(s, [s EXCEPT !.repair_done_msgs = @ \cup {m}], {m})
  BY DEF Collected
<1> QED BY <1>1, <1>2, <1>3, <1>4, <1>5, <1>6, <1>7, <1>8, <1>9, <1>10
        DEF store_sync, store_checkpoint, store_timeout, store_log_msg,
            store_repair_history, store_repair_prepare, store_repair_commit,
            store_repair_done

\* A REPAIR-DONE is stored like any other message.
LEMMA KeepDone ==
  ASSUME NEW s \in ReplicaState, NEW m
  PROVE  store_repair_done(s, m) = s \/ Keep(s, store_repair_done(s, m), {m})
<1>1. Keep(s, [s EXCEPT !.repair_done_msgs = @ \cup {m}], {m})
  BY DEF ReplicaState, Keep, SameMode, SameLog, Collected
<1> QED BY <1>1 DEF store_repair_done

\* The leader's proposal.
LEMMA BroadcastHistoryMove ==
  ASSUME NEW s \in ReplicaState, NEW M
  PROVE  EarlyMove(s, try_broadcast_history(s), M)
<1>1. CASE ~can_broadcast_history(s)
  BY <1>1 DEF try_broadcast_history, EarlyMove
<1>2. CASE can_broadcast_history(s)
  <2> DEFINE h == Cardinality(LogSenders(s))
             x == RepairVote(s, "RepairHistory", h)
             t == [s EXCEPT !.phase = "PreparePhase", !.proposed_history_hash = h,
                            !.effects = @ \cup {x}]
  <2>1. try_broadcast_history(s) = t /\ s.phase = "CollectingLogs"
    BY <1>2 DEF try_broadcast_history, handle_broadcast_history, can_broadcast_history
  <2> HIDE DEF x, h
  <2>2. /\ t.phase = "PreparePhase" /\ t.proposed_history_hash = h
        /\ t.effects = s.effects \cup {x}
        /\ t.round = s.round /\ t.view = s.view /\ t.in_repair = s.in_repair
        /\ SameSets(s, t) /\ SameLog(s, t)
    BY DEF ReplicaState, SameSets, SameLog, Collected
  <2>3. Propose(s, t)
    BY <1>2, <2>1, <2>2 DEF Propose, x, h
  <2> QED BY <2>1, <2>3 DEF EarlyMove
<1> QED BY <1>1, <1>2

\* The vote for a proposal, whichever one HashSet iteration yields.
LEMMA RepairPrepareMove ==
  ASSUME NEW s \in ReplicaState, NEW pick, NEW M
  PROVE  EarlyMove(s, try_repair_prepare(s, pick), M)
<1>1. CASE ~can_repair_prepare(s, pick)
  BY <1>1 DEF try_repair_prepare, EarlyMove
<1>2. CASE can_repair_prepare(s, pick)
  <2> DEFINE x == RepairVote(s, "RepairPrepare", pick)
             t == [s EXCEPT !.phase = "PreparePhase",
                            !.proposed_history_hash = pick, !.effects = @ \cup {x}]
  <2>1. /\ try_repair_prepare(s, pick) = t
        /\ s.phase \in {"CollectingLogs", "PreparePhase"}
        /\ pick \in HistoryChoices(s)
    BY <1>2 DEF try_repair_prepare, handle_repair_prepare, can_repair_prepare
  <2> HIDE DEF x
  <2>2. /\ t.phase = "PreparePhase" /\ t.proposed_history_hash = pick
        /\ t.effects = s.effects \cup {x}
        /\ t.round = s.round /\ t.view = s.view /\ t.in_repair = s.in_repair
        /\ SameSets(s, t) /\ SameLog(s, t)
    BY DEF ReplicaState, SameSets, SameLog, Collected
  <2>3. Propose(s, t)
    BY <2>1, <2>2 DEF Propose, x
  <2> QED BY <2>1, <2>3 DEF EarlyMove
<1> QED BY <1>1, <1>2

\* The vote to commit.
LEMMA RepairCommitMove ==
  ASSUME NEW s \in ReplicaState, NEW M
  PROVE  EarlyMove(s, try_repair_commit(s), M)
<1>1. CASE ~can_repair_commit(s)
  BY <1>1 DEF try_repair_commit, EarlyMove
<1>2. CASE can_repair_commit(s)
  <2> DEFINE x == RepairVote(s, "RepairCommit", s.proposed_history_hash)
             t == [s EXCEPT !.phase = "CommitPhase", !.effects = @ \cup {x}]
  <2>1. try_repair_commit(s) = t
    BY <1>2 DEF try_repair_commit, handle_repair_commit
  <2> HIDE DEF x
  <2>2. /\ t.phase = "CommitPhase"
        /\ t.proposed_history_hash = s.proposed_history_hash
        /\ t.effects = s.effects \cup {x}
        /\ t.round = s.round /\ t.view = s.view /\ t.in_repair = s.in_repair
        /\ SameSets(s, t) /\ SameLog(s, t)
    BY DEF ReplicaState, SameSets, SameLog, Collected
  <2>3. Commit(s, t)
    BY <1>2, <2>2 DEF Commit, x
  <2> QED BY <2>1, <2>3 DEF EarlyMove
<1> QED BY <1>1, <1>2

\* The two stages that end a round.
LEMMA NextRoundMoves ==
  ASSUME NEW s \in ReplicaState
  PROVE  /\ try_apply_repair(s) = s \/ Apply(s, try_apply_repair(s))
         /\ try_repair_done_catchup(s) = s \/ Catchup(s, try_repair_done_catchup(s))
<1>1. ASSUME can_apply_repair(s)
      PROVE  Apply(s, handle_apply_repair(s))
  <2> DEFINE merged == s.proposed_history_hash
             store == IF merged > 0 THEN rebuilt(merged) ELSE s.kv_store
             done == DoneMessages(s)
             next == s.round + 1
             t == [s EXCEPT !.kv_store = store, !.phase = "Speculative",
                            !.round = next, !.start_idx = merged,
                            !.kv_size = merged, !.in_repair = FALSE,
                            !.proposed_history_hash = 0,
                            !.effects = @ \cup done]
  <2>1. handle_apply_repair(s) = t
    BY DEF handle_apply_repair
  <2> HIDE DEF store, merged, done, next
  <2>2. /\ t.phase = "Speculative" /\ t.in_repair = FALSE
        /\ t.round = next /\ t.view = s.view
        /\ t.kv_store = store /\ t.kv_size = merged /\ t.start_idx = merged
        /\ t.effects = s.effects \cup done
        /\ SameSets(s, t)
    BY DEF ReplicaState, SameSets, Collected
  <2> HIDE DEF t
  <2>3. Apply(s, t)
    BY <1>1, <2>2 DEF Apply, NextRound, store, merged, done, next
  <2> QED BY <2>1, <2>3
<1>2. ASSUME can_repair_done_catchup(s)
      PROVE  Catchup(s, handle_repair_done_catchup(s))
  <2> DEFINE size == s.kv_size
             next == s.round + 1
             t == [s EXCEPT !.phase = "Speculative", !.round = next,
                            !.start_idx = size, !.in_repair = FALSE,
                            !.proposed_history_hash = 0]
  <2>1. handle_repair_done_catchup(s) = t
    BY DEF handle_repair_done_catchup
  <2> HIDE DEF size, next
  <2>2. /\ t.phase = "Speculative" /\ t.in_repair = FALSE
        /\ t.round = next /\ t.view = s.view
        /\ t.kv_store = s.kv_store /\ t.kv_size = s.kv_size /\ t.start_idx = size
        /\ t.effects = s.effects
        /\ SameSets(s, t)
    BY DEF ReplicaState, SameSets, Collected
  <2> HIDE DEF t
  <2>3. Catchup(s, t)
    BY <1>2, <2>2 DEF Catchup, NextRound, size, next
  <2> QED BY <2>1, <2>3
<1> QED BY <1>1, <1>2 DEF try_apply_repair, try_repair_done_catchup

\* The timers' handlers.
LEMMA TimerMoves ==
  ASSUME NEW s \in ReplicaState, NEW e, NEW M
  PROVE  /\ EarlyMove(s, handle_chkpt_timeout(s, e.log_idx), M)
         /\ can_view_change(s, e) => EarlyMove(s, handle_view_change(s), M)
<1>1. EarlyMove(s, handle_chkpt_timeout(s, e.log_idx), M)
  <2> DEFINE x == [type |-> "TimeoutMsg", from |-> s.node_id, round |-> s.round,
                   log_idx |-> e.log_idx]
  <2>1. x.type = "TimeoutMsg"
    OBVIOUS
  <2>2. handle_chkpt_timeout(s, e.log_idx) = [s EXCEPT !.effects = @ \cup {x}]
    BY DEF handle_chkpt_timeout
  <2> HIDE DEF x
  <2>3. Answer(s, handle_chkpt_timeout(s, e.log_idx))
    BY <2>1, <2>2, SendMove DEF Answer
  <2> QED BY <2>3 DEF EarlyMove
<1>2. ASSUME can_view_change(s, e)
      PROVE  EarlyMove(s, handle_view_change(s), M)
  <2> DEFINE v == s.view + 1
             l == OwnLog(s, v)
             t == [s EXCEPT !.view = v, !.effects = @ \cup {l}]
  <2>1. handle_view_change(s) = t /\ s.phase = "CollectingLogs"
    BY <1>2 DEF handle_view_change, can_view_change
  <2> HIDE DEF l, v
  <2>2. /\ t.phase = s.phase /\ t.round = s.round /\ t.view = v
        /\ t.in_repair = s.in_repair
        /\ t.proposed_history_hash = s.proposed_history_hash
        /\ t.effects = s.effects \cup {l}
        /\ SameSets(s, t) /\ SameLog(s, t)
    BY DEF ReplicaState, SameSets, SameLog, Collected
  <2>3. ChangeView(s, t)
    BY <2>1, <2>2 DEF ChangeView, l, v
  <2> QED BY <2>1, <2>3 DEF EarlyMove
<1> QED BY <1>1, <1>2

\* The answer to a STATE-REQUEST.
LEMMA StateRequestMove ==
  ASSUME NEW s \in ReplicaState, NEW m, NEW M
  PROVE  EarlyMove(s, on_state_request(s, m), M)
<1> DEFINE x == [type |-> "StateReply", from |-> s.node_id, to |-> m.from,
                 chkpt_idx |-> s.chkpt_idx, chkpt_hash |-> s.chkpt_hash]
<1>1. x.type = "StateReply"
  OBVIOUS
<1>2. \/ on_state_request(s, m) = s
      \/ on_state_request(s, m) = [s EXCEPT !.effects = @ \cup {x}]
  BY DEF on_state_request
<1> HIDE DEF x
<1> QED BY <1>1, <1>2, SendMove DEF EarlyMove, Answer

-----------------------------------------------------------------------------
(* The handlers as sequences of moves.                                     *)

\* The replica when process_message comes to try_apply_repair.
before_apply(s, m, pick) ==
    LET s1 == on_receive_log_msg(fast_stages(s, m), m)
        s2 == on_receive_repair_history(s1, m, pick)
        s3 == on_receive_repair_prepare(s2, m)
    IN  store_repair_commit(s3, m)

\* A set I of states that no early move leaves is not left before that.
LEMMA EarlyWalk ==
  ASSUME NEW r, NEW S \in SUBSET Message, NEW m \in Message, NEW pick,
         m \in S \cup FaultyMessages \/ m.type # "RepairCommit",
         NEW I,
         \A s, t : /\ s \in I
                   /\ ReplicaInv(r, s, S) /\ ReplicaInv(r, t, S)
                   /\ EarlyMove(s, t, {m})
                   => t \in I,
         NEW s \in I, ReplicaInv(r, s, S)
  PROVE  /\ before_apply(s, m, pick) \in I
         /\ ReplicaInv(r, before_apply(s, m, pick), S)
<1> DEFINE Safe(t) == t \in I /\ ReplicaInv(r, t, S)
<1>1. ASSUME NEW u, NEW v, Safe(u), ReplicaInv(r, v, S), EarlyMove(u, v, {m})
      PROVE  Safe(v)
  BY <1>1
<1>2. ASSUME NEW u, Safe(u)
      PROVE  u \in ReplicaState /\ ReplicaInv(r, u, S)
  BY <1>2 DEF ReplicaInv
<1> HIDE DEF Safe
<1>3. ASSUME NEW u, Safe(u) PROVE Safe(fast_stages(u, m))
  <2> DEFINE s1 == on_receive_speculate(u, m)
             s2 == send_sync_threshold(s1)
             s3 == store_sync(s2, m)
             s4 == try_form_checkpoint(s3)
             s5 == store_checkpoint(s4, m)
             s6 == try_enter_align(s5)
             s7 == try_conflict_proof(s6)
             s8 == store_timeout(s7, m)
             s9 == try_timeout_proof(s8)
             s10 == on_receive_proof(s9, m)
             s11 == on_state_request(s10, m)
             s12 == on_state_reply(s11, m)
  <2>1. Safe(s1)
    BY <1>1, <1>2, <1>3, SpeculateMove, SpeculateStage
  <2> HIDE DEF s1
  <2>2. Safe(s2)
    <3>1. EarlyMove(s1, s2, {m})
      BY <1>2, <2>1, SendSyncMove DEF send_sync_threshold, EarlyMove
    <3> QED BY <1>1, <1>2, <2>1, <3>1, SyncThresholdStage
  <2> HIDE DEF s2
  <2>3. Safe(s3)
    BY <1>1, <1>2, <2>2, StoreMoves, StoreSteps
  <2> HIDE DEF s3
  <2>4. Safe(s4)
    BY <1>1, <1>2, <2>3, FormCheckpointMove, FormCheckpointStage
  <2> HIDE DEF s4
  <2>5. Safe(s5)
    BY <1>1, <1>2, <2>4, StoreMoves, StoreSteps
  <2> HIDE DEF s5
  <2>6. Safe(s6)
    BY <1>1, <1>2, <2>5, AlignMove, EnterAlignStage
  <2> HIDE DEF s6
  <2>7. Safe(s7)
    BY <1>1, <1>2, <2>6, RepairEntryMoves, RepairEntryStages
  <2> HIDE DEF s7
  <2>8. Safe(s8)
    BY <1>1, <1>2, <2>7, StoreMoves, StoreSteps
  <2> HIDE DEF s8
  <2>9. Safe(s9)
    BY <1>1, <1>2, <2>8, RepairEntryMoves, RepairEntryStages
  <2> HIDE DEF s9
  <2>10. Safe(s10)
    BY <1>1, <1>2, <2>9, RepairEntryMoves, RepairEntryStages
  <2> HIDE DEF s10
  <2>11. Safe(s11)
    BY <1>1, <1>2, <2>10, StateRequestMove, StateRequestStage
  <2> HIDE DEF s11
  <2>12. Safe(s12)
    BY <1>1, <1>2, <2>11, RecoverMove, StateReplyStage
  <2> QED BY <2>12 DEF fast_stages, on_receive_sync, on_receive_checkpoint,
              on_receive_timeout, s1, s2, s3, s4, s5, s6, s7, s8, s9, s10, s11
<1>4. ASSUME NEW u, Safe(u), u = fast_stages(s, m)
      PROVE  Safe(before_apply(s, m, pick))
  <2> DEFINE s1 == store_log_msg(u, m)
             s2 == try_broadcast_history(s1)
             s3 == store_repair_history(s2, m)
             s4 == try_repair_prepare(s3, pick)
             s5 == store_repair_prepare(s4, m)
             s6 == try_repair_commit(s5)
             s7 == store_repair_commit(s6, m)
  <2>1. Safe(s1)
    BY <1>1, <1>2, <1>4, StoreMoves, StoreSteps
  <2> HIDE DEF s1
  <2>2. Safe(s2)
    BY <1>1, <1>2, <2>1, BroadcastHistoryMove, BroadcastHistoryStage
  <2> HIDE DEF s2
  <2>3. Safe(s3)
    BY <1>1, <1>2, <2>2, StoreMoves, StoreSteps
  <2> HIDE DEF s3
  <2>4. Safe(s4)
    BY <1>1, <1>2, <2>3, RepairPrepareMove, RepairPrepareStage
  <2> HIDE DEF s4
  <2>5. Safe(s5)
    BY <1>1, <1>2, <2>4, StoreMoves, StoreSteps
  <2> HIDE DEF s5
  <2>6. Safe(s6)
    BY <1>1, <1>2, <2>5, RepairCommitMove, RepairCommitStage
  <2> HIDE DEF s6
  <2>7. Safe(s7)
    BY <1>1, <1>2, <2>6, StoreMoves, StoreSteps
  <2> QED BY <1>4, <2>7 DEF before_apply, on_receive_log_msg,
              on_receive_repair_history, on_receive_repair_prepare,
              s1, s2, s3, s4, s5, s6
<1>5. Safe(s)
  BY DEF Safe
<1>6. Safe(before_apply(s, m, pick))
  BY <1>3, <1>4, <1>5
<1> QED BY <1>6 DEF Safe

\* What process_message does after before_apply: it may apply the repair,
\* keeps the message if it is a REPAIR-DONE, and may catch up.
LEMMA LateMoves ==
  ASSUME NEW r, NEW S \in SUBSET Message, NEW m \in Message, NEW pick, NEW s,
         m \in S \cup FaultyMessages \/ m.type # "RepairCommit",
         NEW u, u = before_apply(s, m, pick), ReplicaInv(r, u, S)
  PROVE  \E v, w :
            /\ ReplicaInv(r, v, S) /\ (v = u \/ Apply(u, v))
            /\ ReplicaInv(r, w, S) /\ (w = v \/ Keep(v, w, {m}))
            /\ \/ process_message(s, m, pick) = w
               \/ Catchup(w, process_message(s, m, pick))
            /\ ReplicaInv(r, process_message(s, m, pick), S)
<1> DEFINE v == try_apply_repair(u)
           w == store_repair_done(v, m)
           x == try_repair_done_catchup(w)
<1>1. process_message(s, m, pick) = x
  BY DEF process_message, repair_stages, before_apply,
     on_receive_repair_commit, on_receive_repair_done
<1>2. ASSUME NEW a, ReplicaInv(r, a, S) PROVE a \in ReplicaState
  BY <1>2 DEF ReplicaInv
<1>3. ReplicaInv(r, v, S) /\ (v = u \/ Apply(u, v))
  BY <1>2, ApplyRepairStage, NextRoundMoves
<1> HIDE DEF v
<1>4. ReplicaInv(r, w, S) /\ (w = v \/ Keep(v, w, {m}))
  <2>1. ReplicaInv(r, w, S)
    BY <1>3, StoreSteps
  <2>2. w = v \/ Keep(v, w, {m})
    BY <1>2, <1>3, KeepDone
  <2> QED BY <2>1, <2>2
<1> HIDE DEF w
<1>5. ReplicaInv(r, x, S) /\ (x = w \/ Catchup(w, x))
  BY <1>2, <1>4, CatchupStage, NextRoundMoves
<1> HIDE DEF x
<1> QED BY <1>1, <1>3, <1>4, <1>5

\* The same for handle_event, whose moves are all early ones and keep nothing.
LEMMA HandleEventWalk ==
  ASSUME NEW r, NEW S \in SUBSET Message, NEW e \in Event,
         NEW I,
         \A s, t : /\ s \in I
                   /\ ReplicaInv(r, s, S) /\ ReplicaInv(r, t, S)
                   /\ EarlyMove(s, t, {})
                   => t \in I,
         NEW s \in I, ReplicaInv(r, s, S)
  PROVE  handle_event(s, e) \in I
<1> DEFINE s1 == IF can_send_sync_on_event(s, e) THEN handle_send_sync(s) ELSE s
           s2 == IF can_chkpt_timeout(s1, e)
                   THEN handle_chkpt_timeout(s1, e.log_idx) ELSE s1
           s3 == IF can_view_change(s2, e) THEN handle_view_change(s2) ELSE s2
<1>1. ASSUME NEW a, ReplicaInv(r, a, S) PROVE a \in ReplicaState
  BY <1>1 DEF ReplicaInv
<1>2. ReplicaInv(r, s1, S) /\ s1 \in I
  <2>1. ReplicaInv(r, s1, S)
    BY SendSyncStage DEF can_send_sync_on_event
  <2>2. EarlyMove(s, s1, {})
    BY <1>1, SendSyncMove DEF EarlyMove
  <2> QED BY <2>1, <2>2
<1> HIDE DEF s1
<1>3. ReplicaInv(r, s2, S) /\ s2 \in I
  <2>1. ReplicaInv(r, s2, S)
    BY <1>2, TimerStages
  <2>2. EarlyMove(s1, s2, {})
    BY <1>1, <1>2, TimerMoves DEF EarlyMove
  <2> QED BY <1>2, <2>1, <2>2
<1> HIDE DEF s2
<1>4. s3 \in I
  <2>1. ReplicaInv(r, s3, S)
    BY <1>3, TimerStages
  <2>2. EarlyMove(s2, s3, {})
    BY <1>1, <1>3, TimerMoves DEF EarlyMove
  <2> QED BY <1>3, <2>1, <2>2
<1> QED BY <1>4 DEF handle_event, s1, s2

-----------------------------------------------------------------------------
(* The cluster.                                                            *)

\* The messages that can reach a replica: sent ones, those of the faulty
\* replicas, and the requests of the sequencer.
Reachable(M) == \A m \in M : m \in sent \cup FaultyMessages \/ m.type = "Speculate"

\* t is what one of the two handlers makes of replica r.
Handled(r, t) ==
    \/ \E m \in Message :
        /\ Reachable({m})
        /\ \E pick : t = process_message(rep[r], m, pick)
    \/ \E e \in Event : t = handle_event(rep[r], e)

\* A step of the cluster is a call of process_message or handle_event of one
\* replica, whose effects are then executed.
LEMMA StepCases ==
  ASSUME IInv, Next
  PROVE  \E r \in Correct : \E t :
            /\ ReplicaInv(r, rep[r], sent) /\ ReplicaInv(r, t, sent)
            /\ Execute(r, t)
            /\ Handled(r, t)
<1>1. sent \in SUBSET Message
  BY DEF IInv, TypeOK
<1>2. PICK r \in Correct :
        \/ \E m \in Requests : ReceiveMessage(r, m)
        \/ \E m \in sent \cup FaultyMessages : Reaches(m, r) /\ ReceiveMessage(r, m)
        \/ \E e \in Timers : TimerEvent(r, e)
  BY DEF Next
<1>3. ReplicaInv(r, rep[r], sent)
  BY DEF IInv
<1>4. ASSUME NEW m \in Message, m \in sent \cup FaultyMessages \/ m.type = "Speculate",
             ReceiveMessage(r, m)
      PROVE  \E t : ReplicaInv(r, t, sent) /\ Execute(r, t) /\ Handled(r, t)
  <2>1. PICK pick : Execute(r, process_message(rep[r], m, pick))
    BY <1>4 DEF ReceiveMessage
  <2>2. ReplicaInv(r, process_message(rep[r], m, pick), sent)
    BY <1>1, <1>3, <1>4, ProcessMessageInv
  <2> QED BY <1>4, <2>1, <2>2 DEF Handled, Reachable
<1>5. CASE \E m \in Requests : ReceiveMessage(r, m)
  <2>1. PICK m \in Requests : ReceiveMessage(r, m)
    BY <1>5
  <2>2. m \in Message /\ m.type = "Speculate"
    BY RequestAssumption DEF Message, Speculate
  <2> QED BY <1>3, <1>4, <2>1, <2>2
<1>6. CASE \E m \in sent \cup FaultyMessages : ReceiveMessage(r, m)
  <2>1. PICK m \in sent \cup FaultyMessages : ReceiveMessage(r, m)
    BY <1>6
  <2>2. m \in Message
    BY <1>1, FaultyMessageAssumption
  <2> QED BY <1>3, <1>4, <2>1, <2>2
<1>7. CASE \E e \in Timers : TimerEvent(r, e)
  <2>1. PICK e \in Timers : Execute(r, handle_event(rep[r], e))
    BY <1>7 DEF TimerEvent
  <2>2. e \in Event
    BY TimerAssumption
  <2>3. ReplicaInv(r, handle_event(rep[r], e), sent)
    BY <1>1, <1>3, <2>2, HandleEventInv
  <2> QED BY <1>3, <2>1, <2>2, <2>3 DEF Handled
<1> QED BY <1>2, <1>5, <1>6, <1>7

\* Whichever handler runs, it makes early moves, which keep I, and then may
\* apply the repair, keep a REPAIR-DONE and catch up, at most once each.
LEMMA RoundWalk ==
  ASSUME NEW I, NEW r \in Correct, NEW t, rep[r] \in I,
         sent \in SUBSET Message, ReplicaInv(r, rep[r], sent), Handled(r, t),
         \A M, a, b : /\ Reachable(M) /\ a \in I
                      /\ ReplicaInv(r, a, sent) /\ ReplicaInv(r, b, sent)
                      /\ EarlyMove(a, b, M)
                      => b \in I
  PROVE  \E M, u, v, w :
            /\ Reachable(M)
            /\ u \in I
            /\ ReplicaInv(r, u, sent) /\ ReplicaInv(r, v, sent)
            /\ ReplicaInv(r, w, sent) /\ ReplicaInv(r, t, sent)
            /\ v = u \/ Apply(u, v)
            /\ w = v \/ Keep(v, w, M)
            /\ t = w \/ Catchup(w, t)
<1>1. CASE \E m \in Message : /\ Reachable({m})
                             /\ \E pick : t = process_message(rep[r], m, pick)
  <2>1. PICK m \in Message : /\ Reachable({m})
                             /\ \E pick : t = process_message(rep[r], m, pick)
    BY <1>1
  <2>2. PICK pick : t = process_message(rep[r], m, pick)
    BY <2>1
  <2>3. m \in sent \cup FaultyMessages \/ m.type # "RepairCommit"
    BY <2>1 DEF Reachable
  <2> DEFINE M == {m}
             u == before_apply(rep[r], m, pick)
  <2>4. Reachable(M)
    BY <2>1
  <2>5. \A a, b : /\ a \in I /\ ReplicaInv(r, a, sent) /\ ReplicaInv(r, b, sent)
                  /\ EarlyMove(a, b, {m})
                  => b \in I
    BY <2>4
  <2>6. u \in I /\ ReplicaInv(r, u, sent)
    BY <2>3, <2>5, EarlyWalk
  <2>7. \E v, w :
            /\ ReplicaInv(r, v, sent) /\ (v = u \/ Apply(u, v))
            /\ ReplicaInv(r, w, sent) /\ (w = v \/ Keep(v, w, {m}))
            /\ \/ process_message(rep[r], m, pick) = w
               \/ Catchup(w, process_message(rep[r], m, pick))
            /\ ReplicaInv(r, process_message(rep[r], m, pick), sent)
    BY <2>3, <2>6, LateMoves
  <2>8. PICK v, w :
            /\ ReplicaInv(r, v, sent) /\ (v = u \/ Apply(u, v))
            /\ ReplicaInv(r, w, sent) /\ (w = v \/ Keep(v, w, M))
            /\ t = w \/ Catchup(w, t)
            /\ ReplicaInv(r, t, sent)
    BY <2>2, <2>7
  <2> HIDE DEF M, u
  <2> QED BY <2>4, <2>6, <2>8
<1>2. CASE \E e \in Event : t = handle_event(rep[r], e)
  <2>1. PICK e \in Event : t = handle_event(rep[r], e)
    BY <1>2
  <2> DEFINE M == {}
  <2>2. Reachable(M)
    BY DEF Reachable
  <2> HIDE DEF M
  <2>3. \A a, b : /\ a \in I /\ ReplicaInv(r, a, sent) /\ ReplicaInv(r, b, sent)
                  /\ EarlyMove(a, b, M)
                  => b \in I
    BY <2>2
  <2>4. t \in I
    BY <2>1, <2>3, HandleEventWalk DEF M
  <2>5. ReplicaInv(r, t, sent)
    BY <2>1, HandleEventInv
  <2> QED BY <2>2, <2>4, <2>5
<1> QED BY <1>1, <1>2 DEF Handled

\* A set that every move keeps is kept by whichever handler runs.
LEMMA HandledWalk ==
  ASSUME NEW I, NEW r \in Correct, NEW t, rep[r] \in I,
         sent \in SUBSET Message, ReplicaInv(r, rep[r], sent), Handled(r, t),
         \A M, a, b : /\ Reachable(M) /\ a \in I
                      /\ ReplicaInv(r, a, sent) /\ ReplicaInv(r, b, sent)
                      /\ Move(a, b, M)
                      => b \in I
  PROVE  t \in I
<1>1. \A M, a, b : /\ Reachable(M) /\ a \in I
                   /\ ReplicaInv(r, a, sent) /\ ReplicaInv(r, b, sent)
                   /\ EarlyMove(a, b, M)
                   => b \in I
  BY DEF Move
<1>2. PICK M, u, v, w :
         /\ Reachable(M)
         /\ u \in I
         /\ ReplicaInv(r, u, sent) /\ ReplicaInv(r, v, sent)
         /\ ReplicaInv(r, w, sent) /\ ReplicaInv(r, t, sent)
         /\ v = u \/ Apply(u, v)
         /\ w = v \/ Keep(v, w, M)
         /\ t = w \/ Catchup(w, t)
  BY <1>1, RoundWalk
<1>3. v \in I
  BY <1>2 DEF Move
<1>4. w \in I
  BY <1>2, <1>3 DEF Move, EarlyMove
<1> QED BY <1>2, <1>4 DEF Move

\* Executing the effects empties them and changes nothing else.
LEMMA ExecuteFrame ==
  ASSUME IInv, NEW r \in Correct, NEW t \in ReplicaState, Execute(r, t)
  PROVE  /\ sent' = sent \cup t.effects
         /\ \A q \in Correct \ {r} : rep'[q] = rep[q]
         /\ rep'[r].effects = {}
         /\ SameSets(t, rep'[r]) /\ SameMode(t, rep'[r]) /\ SameLog(t, rep'[r])
<1> DEFINE u == [t EXCEPT !.effects = {}]
<1>1. rep' = [rep EXCEPT ![r] = u] /\ sent' = sent \cup t.effects
  BY DEF Execute
<1>2. u.effects = {} /\ SameSets(t, u) /\ SameMode(t, u) /\ SameLog(t, u)
  BY DEF ReplicaState, SameSets, SameMode, SameLog, Collected
<1> HIDE DEF u
<1>3. rep \in [Correct -> ReplicaState]
  BY DEF IInv, TypeOK
<1>4. rep'[r] = u /\ \A q \in Correct \ {r} : rep'[q] = rep[q]
  BY <1>1, <1>3
<1> QED BY <1>1, <1>2, <1>4
=============================================================================
