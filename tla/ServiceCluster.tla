--------------------------- MODULE ServiceCluster ---------------------------
(***************************************************************************)
(* The actors implement the cluster: Spec => Cluster!Spec, for any number  *)
(* of clients, tasks, requests and slots.  With it the theorems about the  *)
(* cluster hold of the service.                                            *)
(***************************************************************************)
EXTENDS ServiceRefinement, TLAPS

-----------------------------------------------------------------------------
(* The instance has copies of the handlers, which the provers do not know  *)
(* to be the handlers of NodeActor: one step for every operator that       *)
(* process_message and handle_event reach.                                 *)

\* Thresholds, digests and the store.
LEMMA SameTypes ==
  /\ \A S : Cluster!Cardinality(S) = Cardinality(S)
  /\ Cluster!Correct = Correct
  /\ Cluster!fast_quorum = fast_quorum /\ Cluster!byz_quorum = byz_quorum
  /\ Cluster!f_plus_1 = f_plus_1
  /\ Cluster!ZeroHash = ZeroHash /\ Cluster!RepairPhase = RepairPhase
  /\ \A s, i, e : Cluster!put(s, i, e) = put(s, i, e)
  /\ \A s : Cluster!top_hash(s) = top_hash(s)
  /\ \A s, i : Cluster!hash_at(s, i) = hash_at(s, i)
  /\ \A n : Cluster!rebuilt(n) = rebuilt(n)
<1>1. ASSUME NEW S PROVE Cluster!Cardinality(S) = Cardinality(S)
  BY DEF Cluster!Cardinality, Cardinality
<1>2. Cluster!ZeroHash = ZeroHash /\ Cluster!RepairPhase = RepairPhase
  BY DEF Cluster!ZeroHash, Cluster!Bytes, Cluster!RepairPhase, ZeroHash,
     Bytes, RepairPhase
<1> QED
  BY <1>1, <1>2 DEF Cluster!Correct, Cluster!fast_quorum, Cluster!byz_quorum,
     Cluster!f_plus_1, Cluster!n_replicas, Cluster!put, Cluster!top_hash,
     Cluster!hash_at, Cluster!entry_hash, Cluster!rebuilt, Cluster!Bytes,
     Correct, fast_quorum, byz_quorum, f_plus_1, n_replicas, put, top_hash,
     hash_at, entry_hash, rebuilt, Bytes

\* fast_path.rs.
LEMMA SameFastPath ==
  /\ \A s, m : Cluster!on_receive_speculate(s, m) = on_receive_speculate(s, m)
<1>1. \A s, i : Cluster!prev_hash(s, i) = prev_hash(s, i)
  BY SameTypes DEF Cluster!prev_hash, prev_hash
<1>2. \A s : Cluster!handle_speculate(s) = handle_speculate(s)
  BY SameTypes, <1>1 DEF Cluster!handle_speculate, handle_speculate
<1>3. \A s, m : Cluster!on_receive_speculate(s, m) = on_receive_speculate(s, m)
  BY SameTypes, <1>2 DEF Cluster!on_receive_speculate, Cluster!can_speculate,
     on_receive_speculate, can_speculate
<1> QED BY <1>3

\* checkpoint.rs.
LEMMA SameCheckpointing ==
  /\ \A s : Cluster!TopSyncs(s) = TopSyncs(s)
  /\ \A s : Cluster!ConsistentSyncs(s) = ConsistentSyncs(s)
  /\ \A s : Cluster!handle_send_sync(s) = handle_send_sync(s)
  /\ \A s, m : Cluster!on_receive_sync(s, m) = on_receive_sync(s, m)
  /\ \A s : Cluster!send_sync_threshold(s) = send_sync_threshold(s)
  /\ \A s, e : Cluster!can_send_sync_on_event(s, e) = can_send_sync_on_event(s, e)
<1>1. \A s : Cluster!TopSyncs(s) = TopSyncs(s)
  BY SameTypes DEF Cluster!TopSyncs, TopSyncs
<1>2. \A s : Cluster!ConsistentSyncs(s) = ConsistentSyncs(s)
  BY SameTypes, <1>1 DEF Cluster!ConsistentSyncs, ConsistentSyncs
<1>3. \A s : Cluster!can_form_checkpoint(s) = can_form_checkpoint(s)
  BY SameTypes, <1>2 DEF Cluster!can_form_checkpoint, can_form_checkpoint
<1>4. \A s : Cluster!handle_form_checkpoint(s) = handle_form_checkpoint(s)
  BY SameTypes DEF Cluster!handle_form_checkpoint, handle_form_checkpoint
<1>5. \A s : Cluster!handle_send_sync(s) = handle_send_sync(s)
  BY SameTypes DEF Cluster!handle_send_sync, handle_send_sync
<1>6. \A s, m : Cluster!on_receive_sync(s, m) = on_receive_sync(s, m)
  BY SameTypes, <1>3, <1>4 DEF Cluster!on_receive_sync, Cluster!store_sync,
     Cluster!try_form_checkpoint, on_receive_sync, store_sync,
     try_form_checkpoint
<1>7. \A s : Cluster!send_sync_threshold(s) = send_sync_threshold(s)
  BY SameTypes, <1>5 DEF Cluster!send_sync_threshold,
     Cluster!can_send_sync_threshold, send_sync_threshold,
     can_send_sync_threshold
<1>8. \A s, e : Cluster!can_send_sync_on_event(s, e) = can_send_sync_on_event(s, e)
  BY SameTypes DEF Cluster!can_send_sync_on_event, can_send_sync_on_event
<1> QED BY <1>1, <1>2, <1>5, <1>6, <1>7, <1>8

\* alignment.rs.
LEMMA SameAlignment ==
  /\ \A s, m : Cluster!on_receive_checkpoint(s, m) = on_receive_checkpoint(s, m)
  /\ \A s, m : Cluster!on_state_request(s, m) = on_state_request(s, m)
  /\ \A s, m : Cluster!on_state_reply(s, m) = on_state_reply(s, m)
<1>1. \A s : Cluster!can_enter_align(s) = can_enter_align(s)
  BY SameTypes DEF Cluster!can_enter_align, can_enter_align
<1>2. \A s : Cluster!handle_enter_align(s) = handle_enter_align(s)
  BY SameTypes DEF Cluster!handle_enter_align, handle_enter_align
<1>3. \A s, m : Cluster!on_receive_checkpoint(s, m) = on_receive_checkpoint(s, m)
  BY SameTypes, <1>1, <1>2 DEF Cluster!on_receive_checkpoint,
     Cluster!store_checkpoint, Cluster!try_enter_align, on_receive_checkpoint,
     store_checkpoint, try_enter_align
<1>4. \A s, m : Cluster!on_state_request(s, m) = on_state_request(s, m)
  BY SameTypes DEF Cluster!on_state_request, on_state_request
<1>5. \A s, i : Cluster!handle_state_reply(s, i) = handle_state_reply(s, i)
  BY SameTypes DEF Cluster!handle_state_reply, handle_state_reply
<1>6. \A s, m : Cluster!on_state_reply(s, m) = on_state_reply(s, m)
  BY SameTypes, <1>5 DEF Cluster!on_state_reply, Cluster!can_state_reply,
     on_state_reply, can_state_reply
<1> QED BY <1>3, <1>4, <1>6

\* repair_entry.rs.
LEMMA SameRepairEntry ==
  /\ \A s, v : Cluster!OwnLog(s, v) = OwnLog(s, v)
  /\ \A s : Cluster!try_conflict_proof(s) = try_conflict_proof(s)
  /\ \A s, m : Cluster!on_receive_timeout(s, m) = on_receive_timeout(s, m)
  /\ \A s, m : Cluster!on_receive_proof(s, m) = on_receive_proof(s, m)
  /\ \A s, e : Cluster!can_chkpt_timeout(s, e) = can_chkpt_timeout(s, e)
  /\ \A s, i : Cluster!handle_chkpt_timeout(s, i) = handle_chkpt_timeout(s, i)
<1>1. \A s, v : Cluster!OwnLog(s, v) = OwnLog(s, v)
  BY SameTypes, SameCheckpointing DEF Cluster!OwnLog, OwnLog
<1>2. \A s, proofs : Cluster!start_repair(s, proofs) = start_repair(s, proofs)
  BY SameTypes, SameCheckpointing, <1>1 DEF Cluster!start_repair, start_repair
<1>3. \A s : Cluster!try_conflict_proof(s) = try_conflict_proof(s)
  BY SameTypes, SameCheckpointing, <1>2 DEF Cluster!try_conflict_proof,
     Cluster!can_conflict_proof, Cluster!handle_conflict_proof,
     try_conflict_proof, can_conflict_proof, handle_conflict_proof
<1>4. \A s : Cluster!TopTimeouts(s) = TopTimeouts(s)
  BY SameTypes, SameCheckpointing DEF Cluster!TopTimeouts, TopTimeouts
<1>5. \A s, m : Cluster!on_receive_timeout(s, m) = on_receive_timeout(s, m)
  BY SameTypes, SameCheckpointing, <1>2, <1>4 DEF Cluster!on_receive_timeout,
     Cluster!store_timeout, Cluster!try_timeout_proof,
     Cluster!can_timeout_proof, Cluster!handle_timeout_proof,
     on_receive_timeout, store_timeout, try_timeout_proof, can_timeout_proof,
     handle_timeout_proof
<1>6. \A s, m : Cluster!on_receive_proof(s, m) = on_receive_proof(s, m)
  BY SameTypes, SameCheckpointing, <1>2 DEF Cluster!on_receive_proof,
     Cluster!can_enter_repair, Cluster!handle_enter_repair, on_receive_proof,
     can_enter_repair, handle_enter_repair
<1>7. \A s, e : Cluster!can_chkpt_timeout(s, e) = can_chkpt_timeout(s, e)
  BY SameTypes, SameCheckpointing DEF Cluster!can_chkpt_timeout,
     can_chkpt_timeout
<1>8. \A s, i : Cluster!handle_chkpt_timeout(s, i) = handle_chkpt_timeout(s, i)
  BY SameTypes, SameCheckpointing DEF Cluster!handle_chkpt_timeout,
     handle_chkpt_timeout
<1> QED BY <1>1, <1>3, <1>5, <1>6, <1>7, <1>8

\* repair.rs.
LEMMA SameRepair ==
  /\ \A s, m : Cluster!on_receive_log_msg(s, m) = on_receive_log_msg(s, m)
  /\ \A s : Cluster!HistoryChoices(s) = HistoryChoices(s)
  /\ \A s, m : Cluster!store_repair_history(s, m) = store_repair_history(s, m)
  /\ \A s, m, pick : Cluster!on_receive_repair_history(s, m, pick) = on_receive_repair_history(s, m, pick)
  /\ \A s, m : Cluster!on_receive_repair_prepare(s, m) = on_receive_repair_prepare(s, m)
  /\ \A s, m : Cluster!on_receive_repair_commit(s, m) = on_receive_repair_commit(s, m)
  /\ \A s, m : Cluster!on_receive_repair_done(s, m) = on_receive_repair_done(s, m)
  /\ \A s, e : Cluster!can_view_change(s, e) = can_view_change(s, e)
  /\ \A s : Cluster!handle_view_change(s) = handle_view_change(s)
<1>1. \A s, M : Cluster!Current(s, M) = Current(s, M)
  BY SameTypes, SameRepairEntry DEF Cluster!Current, Current
<1>2. \A s, t, h : Cluster!RepairVote(s, t, h) = RepairVote(s, t, h)
  BY SameTypes, SameRepairEntry DEF Cluster!RepairVote, RepairVote
<1>3. \A s : Cluster!LogSenders(s) = LogSenders(s)
  BY SameTypes, SameRepairEntry, <1>1 DEF Cluster!LogSenders, LogSenders
<1>4. \A s : Cluster!can_broadcast_history(s) = can_broadcast_history(s)
  BY SameTypes, SameRepairEntry, <1>3 DEF Cluster!can_broadcast_history,
     Cluster!is_leader, can_broadcast_history, is_leader
<1>5. \A s, h : Cluster!handle_broadcast_history(s, h) = handle_broadcast_history(s, h)
  BY SameTypes, SameRepairEntry, <1>2 DEF Cluster!handle_broadcast_history,
     handle_broadcast_history
<1>6. \A s, m : Cluster!on_receive_log_msg(s, m) = on_receive_log_msg(s, m)
  BY SameTypes, SameRepairEntry, <1>3, <1>4, <1>5 DEF
     Cluster!on_receive_log_msg, Cluster!store_log_msg,
     Cluster!try_broadcast_history, on_receive_log_msg, store_log_msg,
     try_broadcast_history
<1>7. \A s : Cluster!HistoryChoices(s) = HistoryChoices(s)
  BY SameTypes, SameRepairEntry, <1>1 DEF Cluster!HistoryChoices,
     HistoryChoices
<1>8. \A s, m : Cluster!store_repair_history(s, m) = store_repair_history(s, m)
  BY SameTypes, SameRepairEntry DEF Cluster!store_repair_history,
     store_repair_history
<1>9. \A s, h : Cluster!handle_repair_prepare(s, h) = handle_repair_prepare(s, h)
  BY SameTypes, SameRepairEntry, <1>2 DEF Cluster!handle_repair_prepare,
     handle_repair_prepare
<1>10. \A s, m, pick : Cluster!on_receive_repair_history(s, m, pick) = on_receive_repair_history(s, m, pick)
  BY SameTypes, SameRepairEntry, <1>7, <1>8, <1>9 DEF
     Cluster!on_receive_repair_history, Cluster!try_repair_prepare,
     Cluster!can_repair_prepare, on_receive_repair_history,
     try_repair_prepare, can_repair_prepare
<1>11. \A s, M : Cluster!VotesForProposal(s, M) = VotesForProposal(s, M)
  BY SameTypes, SameRepairEntry, <1>1 DEF Cluster!VotesForProposal,
     VotesForProposal
<1>12. \A s : Cluster!handle_repair_commit(s) = handle_repair_commit(s)
  BY SameTypes, SameRepairEntry, <1>2 DEF Cluster!handle_repair_commit,
     handle_repair_commit
<1>13. \A s, m : Cluster!on_receive_repair_prepare(s, m) = on_receive_repair_prepare(s, m)
  BY SameTypes, SameRepairEntry, <1>11, <1>12 DEF
     Cluster!on_receive_repair_prepare, Cluster!store_repair_prepare,
     Cluster!try_repair_commit, Cluster!can_repair_commit,
     on_receive_repair_prepare, store_repair_prepare, try_repair_commit,
     can_repair_commit
<1>14. \A s : Cluster!DoneMessages(s) = DoneMessages(s)
  BY SameTypes, SameRepairEntry, <1>2 DEF Cluster!DoneMessages, DoneMessages
<1>15. \A s : Cluster!handle_apply_repair(s) = handle_apply_repair(s)
  BY SameTypes, SameRepairEntry, <1>14 DEF Cluster!handle_apply_repair,
     handle_apply_repair
<1>16. \A s, m : Cluster!on_receive_repair_commit(s, m) = on_receive_repair_commit(s, m)
  BY SameTypes, SameRepairEntry, <1>11, <1>15 DEF
     Cluster!on_receive_repair_commit, Cluster!store_repair_commit,
     Cluster!try_apply_repair, Cluster!can_apply_repair,
     on_receive_repair_commit, store_repair_commit, try_apply_repair,
     can_apply_repair
<1>17. \A s : Cluster!handle_repair_done_catchup(s) = handle_repair_done_catchup(s)
  BY SameTypes, SameRepairEntry DEF Cluster!handle_repair_done_catchup,
     handle_repair_done_catchup
<1>18. \A s, m : Cluster!on_receive_repair_done(s, m) = on_receive_repair_done(s, m)
  BY SameTypes, SameRepairEntry, <1>1, <1>17 DEF
     Cluster!on_receive_repair_done, Cluster!store_repair_done,
     Cluster!try_repair_done_catchup, Cluster!can_repair_done_catchup,
     on_receive_repair_done, store_repair_done, try_repair_done_catchup,
     can_repair_done_catchup
<1>19. \A s, e : Cluster!can_view_change(s, e) = can_view_change(s, e)
  BY SameTypes, SameRepairEntry DEF Cluster!can_view_change, can_view_change
<1>20. \A s : Cluster!handle_view_change(s) = handle_view_change(s)
  BY SameTypes, SameRepairEntry DEF Cluster!handle_view_change,
     handle_view_change
<1> QED BY <1>6, <1>7, <1>8, <1>10, <1>13, <1>16, <1>18, <1>19, <1>20

\* replica.rs.
LEMMA SameReplica ==
  /\ \A r : Cluster!new(r) = new(r)
  /\ \A s, m, pick : Cluster!process_message(s, m, pick) = process_message(s, m, pick)
  /\ \A s, e : Cluster!handle_event(s, e) = handle_event(s, e)
  /\ \A m, r : Cluster!AddressedTo(m, r) = AddressedTo(m, r)
  /\ \A s, m : Cluster!Picks(s, m) = Picks(s, m)
<1>1. \A r : Cluster!new(r) = new(r)
  BY SameTypes, SameFastPath, SameCheckpointing, SameAlignment,
     SameRepairEntry, SameRepair DEF Cluster!new, new
<1>2. \A s, m : Cluster!fast_stages(s, m) = fast_stages(s, m)
  BY SameTypes, SameFastPath, SameCheckpointing, SameAlignment,
     SameRepairEntry, SameRepair DEF Cluster!fast_stages, fast_stages
<1>3. \A s, m, pick : Cluster!repair_stages(s, m, pick) = repair_stages(s, m, pick)
  BY SameTypes, SameFastPath, SameCheckpointing, SameAlignment,
     SameRepairEntry, SameRepair DEF Cluster!repair_stages, repair_stages
<1>4. \A s, m, pick : Cluster!process_message(s, m, pick) = process_message(s, m, pick)
  BY SameTypes, SameFastPath, SameCheckpointing, SameAlignment,
     SameRepairEntry, SameRepair, <1>2, <1>3 DEF Cluster!process_message,
     process_message
<1>5. \A s, e : Cluster!handle_event(s, e) = handle_event(s, e)
  BY SameTypes, SameFastPath, SameCheckpointing, SameAlignment,
     SameRepairEntry, SameRepair DEF Cluster!handle_event, handle_event
<1>6. \A m, r : Cluster!AddressedTo(m, r) = AddressedTo(m, r)
  BY SameTypes, SameFastPath, SameCheckpointing, SameAlignment,
     SameRepairEntry, SameRepair DEF Cluster!AddressedTo, AddressedTo
<1>7. \A s, m : Cluster!Picks(s, m) = Picks(s, m)
  BY SameTypes, SameFastPath, SameCheckpointing, SameAlignment,
     SameRepairEntry, SameRepair DEF Cluster!Picks, Picks
<1> QED BY <1>1, <1>4, <1>5, <1>6, <1>7

\* Messages, events and the state of a replica.
LEMMA SameStates ==
  /\ Cluster!Speculate = Speculate
  /\ Cluster!Message = Message
  /\ Cluster!Event = Event
  /\ Cluster!ReplicaState = ReplicaState
<1>1. Cluster!Speculate = Speculate
  BY DEF Cluster!Speculate, Speculate, Cluster!Hash, Hash
<1>2. Cluster!Message = Message
  BY DEF Cluster!Message, Message, Cluster!Speculate, Cluster!SpecReply,
     Cluster!Sync, Cluster!Checkpoint, Cluster!StateRequest,
     Cluster!StateReply, Cluster!TimeoutMsg, Cluster!Proof, Cluster!LogMsg,
     Cluster!RepairHistory, Cluster!RepairPrepare, Cluster!RepairCommit,
     Cluster!RepairDone, Cluster!CommittedReply, Speculate, SpecReply, Sync,
     Checkpoint, StateRequest, StateReply, TimeoutMsg, Proof, LogMsg,
     RepairHistory, RepairPrepare, RepairCommit, RepairDone, CommittedReply,
     RepairMsg, Cluster!RepairMsg, Hash, Cluster!Hash
<1>3. Cluster!Event = Event
  BY DEF Cluster!Event, Event
<1>4. Cluster!ReplicaState = ReplicaState
  BY <1>2 DEF Cluster!ReplicaState, ReplicaState, Cluster!Phase, Phase,
     Cluster!RepairPhase, RepairPhase, Cluster!KvStore, KvStore,
     Cluster!KvEntry, KvEntry, Cluster!Hash, Hash, Cluster!Sync, Sync,
     Cluster!Checkpoint, Checkpoint, Cluster!TimeoutMsg, TimeoutMsg,
     Cluster!LogMsg, LogMsg, Cluster!RepairHistory, Cluster!RepairPrepare,
     Cluster!RepairCommit, Cluster!RepairDone, RepairHistory, RepairPrepare,
     RepairCommit, RepairDone, Cluster!RepairMsg, RepairMsg
<1> QED BY <1>1, <1>2, <1>3, <1>4

\* The assumptions of Aspen hold of the instance.
LEMMA ClusterAssumptions ==
  /\ Cluster!IsFiniteSet(Node) /\ Node # {}
  /\ F \in Nat /\ P \in Nat
  /\ Cluster!Cardinality(Node) > 3 * F /\ Cluster!Cardinality(Node) > P
  /\ NodesOrdered \in Seq(Node)
  /\ Faulty \subseteq Node /\ Cluster!Cardinality(Faulty) <= F
  /\ Requests \subseteq Cluster!Speculate
  /\ FaultyMessages \subseteq Cluster!Message \ Cluster!Speculate
  /\ \A m \in FaultyMessages : Cluster!HasSender(m) => m.from \in Faulty
  /\ Timers \subseteq Cluster!Event
<1>1. Cluster!IsFiniteSet(Node)
  BY NodeAssumption DEF Cluster!IsFiniteSet, IsFiniteSet
<1>2. Requests \subseteq Speculate
  BY OpsAssumption, RequestAssumption DEF Requests, Speculate
<1>3. ASSUME NEW m \in FaultyMessages, Cluster!HasSender(m)
      PROVE  m.from \in Faulty
  <2>1. m \in Message
    BY FaultyMessageAssumption
  <2>2. "from" \in DOMAIN m
    BY <1>3, <2>1 DEF Cluster!HasSender, Message, Speculate, SpecReply, Sync,
       Checkpoint, StateRequest, StateReply, TimeoutMsg, Proof, LogMsg,
       RepairHistory, RepairPrepare, RepairCommit, RepairDone, CommittedReply,
       RepairMsg
  <2> QED BY <2>2, FaultyMessageAssumption
<1> QED
  BY <1>1, <1>2, <1>3, SameTypes, SameStates, NodeAssumption, FaultAssumption,
     ResilienceAssumption, OrderAssumption, FaultyAssumption,
     FaultyMessageAssumption, TimerAssumption

\* The facts of AspenProofs that are used here.
LEMMA ClusterInductive ==
  /\ Cluster!Init => Cluster!IInv
  /\ Cluster!IInv /\ [Cluster!Next]_(Cluster!vars) => Cluster!IInv'
<1>1. Cluster!Init => Cluster!IInv
  BY ClusterAssumptions, Cluster!InitInv
<1>2. Cluster!IInv /\ [Cluster!Next]_(Cluster!vars) => Cluster!IInv'
  BY ClusterAssumptions, Cluster!NextInv
<1> QED BY <1>1, <1>2

-----------------------------------------------------------------------------
(* The invariant: what waits in a queue may be delivered.                  *)

Input == Message \cup Event

Call == [task : {"pump", "driver"}, input : Input]

\* i may reach r: a request, a message on the wire or a faulty replica's, or a
\* timer event.
Deliverable(r, i) ==
    \/ i \in Requests
    \/ i \in wire \cup FaultyMessages /\ Reaches(i, r) /\ AddressedTo(i, r)
    \/ i \in Timers

ActorTypes ==
    /\ inbox \in [Correct -> Seq(Input)]
    /\ calls \in [Correct -> Seq(Call)]
    /\ outbox \in [Correct -> SUBSET Message]
    /\ wire \in SUBSET Message

SequencerTypes ==
    /\ eta \in Nat
    /\ taken \in [Client -> SUBSET Requests]
    /\ channel \in Seq(Requests)
    /\ cursor \in [Subscriber -> Nat]

Provenance ==
    \A r \in Correct :
        /\ \A k \in 1 .. Len(inbox[r]) : Deliverable(r, inbox[r][k])
        /\ \A k \in 1 .. Len(calls[r]) : Deliverable(r, calls[r][k].input)

ServiceInv ==
    /\ Cluster!IInv
    /\ ActorTypes
    /\ SequencerTypes
    /\ Provenance

\* The wire only grows, so that what may be delivered remains so.
LEMMA DeliverableRemains ==
  ASSUME wire \subseteq wire', NEW r, NEW i, Deliverable(r, i)
  PROVE  Deliverable(r, i)'
BY DEF Deliverable

\* A call that starts is queued last, with an input that may be delivered.
LEMMA StartCallTypes ==
  ASSUME ActorTypes, Provenance, UNCHANGED wire,
         NEW r \in Correct, NEW k \in {"pump", "driver"}, NEW i \in Input,
         Deliverable(r, i), StartCall(r, k, i)
  PROVE  ActorTypes' /\ Provenance'
<1> DEFINE c == [task |-> k, input |-> i]
<1>1. /\ calls' = [calls EXCEPT ![r] = Append(calls[r], c)]
      /\ UNCHANGED <<inbox, outbox>>
  BY DEF StartCall
<1>2. calls[r] \in Seq(Call) /\ c \in Call
  BY DEF ActorTypes, Call
<1>3. /\ Append(calls[r], c) \in Seq(Call)
      /\ Len(Append(calls[r], c)) = Len(calls[r]) + 1
      /\ \A j \in 1 .. Len(calls[r]) : Append(calls[r], c)[j] = calls[r][j]
      /\ Append(calls[r], c)[Len(calls[r]) + 1] = c
  BY <1>2
<1>4. ActorTypes'
  BY <1>1, <1>3 DEF ActorTypes
<1>5. ASSUME NEW q \in Correct
      PROVE  /\ \A j \in 1 .. Len(inbox[q]) : Deliverable(q, inbox[q][j])
             /\ \A j \in 1 .. Len(calls'[q]) : Deliverable(q, calls'[q][j].input)
  <2>1. CASE q = r
    <3>1. calls'[r] = Append(calls[r], c)
      BY <1>1 DEF ActorTypes
    <3>2. ASSUME NEW j \in 1 .. Len(calls'[r])
          PROVE  Deliverable(r, calls'[r][j].input)
      <4>1. CASE j = Len(calls[r]) + 1
        BY <1>3, <3>1, <4>1
      <4>2. CASE j # Len(calls[r]) + 1
        BY <1>2, <1>3, <3>1, <4>2 DEF Provenance
      <4> QED BY <4>1, <4>2
    <3> QED BY <2>1, <3>2 DEF Provenance
  <2>2. CASE q # r
    BY <1>1, <2>2 DEF Provenance, ActorTypes
  <2> QED BY <2>1, <2>2
<1> QED BY <1>1, <1>4, <1>5 DEF Provenance, Deliverable

\* An accepted call moves its input from the calls to the channel.
LEMMA AcceptTypes ==
  ASSUME ActorTypes, Provenance, UNCHANGED wire,
         NEW r \in Correct, CallAccepted(r)
  PROVE  ActorTypes' /\ Provenance'
<1> DEFINE i == Head(calls[r]).input
<1>1. /\ inbox' = [inbox EXCEPT ![r] = Append(inbox[r], i)]
      /\ calls' = [calls EXCEPT ![r] = Tail(calls[r])]
      /\ UNCHANGED outbox /\ calls[r] # <<>>
  BY DEF CallAccepted
<1>2. /\ calls[r] \in Seq(Call) /\ Len(calls[r]) > 0
      /\ Head(calls[r]) \in Call /\ Head(calls[r]) = calls[r][1]
      /\ i \in Input /\ inbox[r] \in Seq(Input)
  <2>1. calls[r] \in Seq(Call) /\ inbox[r] \in Seq(Input)
    BY DEF ActorTypes
  <2>2. /\ Len(calls[r]) > 0 /\ Head(calls[r]) \in Call
        /\ Head(calls[r]) = calls[r][1]
    BY <1>1, <2>1
  <2>3. i \in Input
    BY <2>2 DEF Call
  <2> QED BY <2>1, <2>2, <2>3
<1>3. /\ Append(inbox[r], i) \in Seq(Input)
      /\ Len(Append(inbox[r], i)) = Len(inbox[r]) + 1
      /\ \A j \in 1 .. Len(inbox[r]) : Append(inbox[r], i)[j] = inbox[r][j]
      /\ Append(inbox[r], i)[Len(inbox[r]) + 1] = i
      /\ Tail(calls[r]) \in Seq(Call)
      /\ Len(Tail(calls[r])) = Len(calls[r]) - 1
      /\ \A j \in 1 .. Len(Tail(calls[r])) : Tail(calls[r])[j] = calls[r][j + 1]
  BY <1>2
<1>4. ActorTypes'
  BY <1>1, <1>3 DEF ActorTypes
<1>5. ASSUME NEW q \in Correct
      PROVE  /\ \A j \in 1 .. Len(inbox'[q]) : Deliverable(q, inbox'[q][j])
             /\ \A j \in 1 .. Len(calls'[q]) : Deliverable(q, calls'[q][j].input)
  <2>1. CASE q = r
    <3>1. inbox'[r] = Append(inbox[r], i) /\ calls'[r] = Tail(calls[r])
      BY <1>1 DEF ActorTypes
    <3>2. Deliverable(r, i)
      BY <1>2 DEF Provenance
    <3>3. ASSUME NEW j \in 1 .. Len(inbox'[r])
          PROVE  Deliverable(r, inbox'[r][j])
      <4>1. CASE j = Len(inbox[r]) + 1
        BY <1>3, <3>1, <3>2, <4>1
      <4>2. CASE j # Len(inbox[r]) + 1
        BY <1>2, <1>3, <3>1, <4>2 DEF Provenance
      <4> QED BY <4>1, <4>2
    <3>4. ASSUME NEW j \in 1 .. Len(calls'[r])
          PROVE  Deliverable(r, calls'[r][j].input)
      BY <1>2, <1>3, <3>1 DEF Provenance
    <3> QED BY <2>1, <3>3, <3>4
  <2>2. CASE q # r
    BY <1>1, <2>2 DEF Provenance, ActorTypes
  <2> QED BY <2>1, <2>2
<1> QED BY <1>1, <1>4, <1>5 DEF Provenance, Deliverable

\* A refused call leaves nothing behind.
LEMMA RefuseTypes ==
  ASSUME ActorTypes, Provenance, UNCHANGED wire,
         NEW r \in Correct, CallRefused(r)
  PROVE  ActorTypes' /\ Provenance'
<1>1. /\ calls' = [calls EXCEPT ![r] = Tail(calls[r])]
      /\ UNCHANGED <<inbox, outbox>> /\ calls[r] # <<>>
  BY DEF CallRefused
<1>2. calls[r] \in Seq(Call) /\ Len(calls[r]) > 0
  BY <1>1 DEF ActorTypes
<1>3. /\ Tail(calls[r]) \in Seq(Call)
      /\ Len(Tail(calls[r])) = Len(calls[r]) - 1
      /\ \A j \in 1 .. Len(Tail(calls[r])) : Tail(calls[r])[j] = calls[r][j + 1]
  BY <1>2
<1>4. ActorTypes'
  BY <1>1, <1>3 DEF ActorTypes
<1>5. ASSUME NEW q \in Correct, NEW j \in 1 .. Len(calls'[q])
      PROVE  Deliverable(q, calls'[q][j].input)
  <2>1. CASE q = r
    <3>1. calls'[r] = Tail(calls[r])
      BY <1>1 DEF ActorTypes
    <3> QED BY <1>2, <1>3, <2>1, <3>1 DEF Provenance
  <2>2. CASE q # r
    BY <1>1, <2>2 DEF Provenance, ActorTypes
  <2> QED BY <2>1, <2>2
<1> QED BY <1>1, <1>4, <1>5 DEF Provenance, Deliverable

\* The channel shrinks from its head, or is dropped.
LEMMA InboxTypes ==
  ASSUME ActorTypes, Provenance, wire \subseteq wire', wire' \in SUBSET Message,
         UNCHANGED calls, outbox' \in [Correct -> SUBSET Message],
         NEW r \in Correct,
         \/ UNCHANGED inbox
         \/ inbox' = [inbox EXCEPT ![r] = <<>>]
         \/ inbox[r] # <<>> /\ inbox' = [inbox EXCEPT ![r] = Tail(inbox[r])]
  PROVE  ActorTypes' /\ Provenance'
<1>1. /\ inbox' \in [Correct -> Seq(Input)]
      /\ \A q \in Correct : \A j \in 1 .. Len(inbox'[q]) :
            \E k \in 1 .. Len(inbox[q]) : inbox'[q][j] = inbox[q][k]
  <2>1. inbox \in [Correct -> Seq(Input)]
    BY DEF ActorTypes
  <2>2. CASE UNCHANGED inbox
    BY <2>1, <2>2
  <2>3. CASE inbox' = [inbox EXCEPT ![r] = <<>>]
    BY <2>1, <2>3
  <2>4. CASE inbox[r] # <<>> /\ inbox' = [inbox EXCEPT ![r] = Tail(inbox[r])]
    <3>1. /\ Tail(inbox[r]) \in Seq(Input)
          /\ Len(Tail(inbox[r])) = Len(inbox[r]) - 1
          /\ Len(inbox[r]) \in Nat
          /\ \A j \in 1 .. Len(Tail(inbox[r])) : Tail(inbox[r])[j] = inbox[r][j + 1]
      BY <2>1, <2>4
    <3>2. inbox' \in [Correct -> Seq(Input)]
      BY <2>1, <2>4, <3>1
    <3>3. ASSUME NEW q \in Correct, NEW j \in 1 .. Len(inbox'[q])
          PROVE  \E k \in 1 .. Len(inbox[q]) : inbox'[q][j] = inbox[q][k]
      <4>1. CASE q = r
        <5>1. inbox'[r] = Tail(inbox[r])
          BY <2>1, <2>4
        <5>2. j + 1 \in 1 .. Len(inbox[r]) /\ inbox'[q][j] = inbox[r][j + 1]
          BY <3>1, <4>1, <5>1
        <5> QED BY <4>1, <5>2
      <4>2. CASE q # r
        BY <2>1, <2>4, <4>2
      <4> QED BY <4>1, <4>2
    <3> QED BY <3>2, <3>3
  <2> QED BY <2>2, <2>3, <2>4
<1>2. ActorTypes'
  BY <1>1 DEF ActorTypes
<1>3. \A q \in Correct :
        /\ \A j \in 1 .. Len(inbox'[q]) : Deliverable(q, inbox'[q][j])
        /\ \A j \in 1 .. Len(calls[q]) : Deliverable(q, calls[q][j].input)
  BY <1>1 DEF Provenance
<1>4. \A q, i : Deliverable(q, i) => Deliverable(q, i)'
  BY DeliverableRemains
<1> QED BY <1>2, <1>3, <1>4 DEF Provenance

\* The sequencer's part of a step.
LEMMA SequencerStep ==
  ASSUME SequencerTypes,
         \/ \E c \in Client : (\E op \in Ops : TakeEta(c, op)) \/ Broadcast(c)
         \/ \E r \in Correct : Subscribe(r) \/ Recv(r) \/ SkipLost(r)
         \/ UNCHANGED sequencer
  PROVE  SequencerTypes'
<1>1. ASSUME NEW c \in Client, NEW op \in Ops, TakeEta(c, op)
      PROVE  SequencerTypes'
  BY <1>1, RequestAssumption DEF SequencerTypes, TakeEta, next, Requests
<1>2. ASSUME NEW c \in Client, Broadcast(c)
      PROVE  SequencerTypes'
  <2>1. PICK m \in taken[c] :
            channel' = IF \E r \in Subscriber : Subscribed(r)
                         THEN Append(channel, m) ELSE channel
    BY <1>2 DEF Broadcast
  <2>2. channel \in Seq(Requests) /\ m \in Requests
    BY <1>2, <2>1 DEF SequencerTypes
  <2>3. channel' \in Seq(Requests)
    BY <2>1, <2>2
  <2> QED BY <1>2, <2>3 DEF SequencerTypes, Broadcast
<1>3. ASSUME NEW r \in Correct, Subscribe(r) \/ Recv(r) \/ SkipLost(r)
      PROVE  SequencerTypes'
  <2>1. r \in Subscriber /\ cursor[r] \in Nat /\ Len(channel) \in Nat
    BY SubscriberAssumption DEF SequencerTypes
  <2>2. Oldest \in Nat
    BY <2>1, SlotsAssumption DEF Oldest
  <2>3. cursor' \in [Subscriber -> Nat] /\ UNCHANGED <<eta, taken, channel>>
    BY <1>3, <2>1, <2>2 DEF SequencerTypes, Subscribe, Recv, SkipLost
  <2> QED BY <2>3 DEF SequencerTypes
<1>4. CASE UNCHANGED sequencer
  BY <1>4 DEF sequencer, SequencerTypes
<1> QED BY <1>1, <1>2, <1>3, <1>4

\* What the pump hands on is a request.
LEMMA ReceivedRequest ==
  ASSUME SequencerTypes, NEW r \in Correct, CanRecv(r)
  PROVE  Received(r) \in Requests
<1>1. cursor[r] \in 1 .. Len(channel)
  BY SubscriberAssumption DEF SequencerTypes, CanRecv, Subscribed
<1> QED BY <1>1 DEF SequencerTypes, Received

\* Requests are messages, and no message is an event.
LEMMA InputKinds ==
  /\ Requests \subseteq Speculate /\ Speculate \subseteq Message
  /\ \A m \in Message : m \notin Event
<1>1. Requests \subseteq Speculate
  BY OpsAssumption, RequestAssumption DEF Requests, Speculate
<1>2. \A m \in Message : m.type \notin {"SyncTimeout", "ChkptTimeout", "RepairViewTimeout"}
  BY DEF Message, Speculate, SpecReply, Sync, Checkpoint, StateRequest,
     StateReply, TimeoutMsg, Proof, LogMsg, RepairHistory, RepairPrepare,
     RepairCommit, RepairDone, CommittedReply, RepairMsg
<1>3. \A e \in Event : e.type \in {"SyncTimeout", "ChkptTimeout", "RepairViewTimeout"}
  BY DEF Event
<1> QED BY <1>1, <1>2, <1>3 DEF Message

\* Initially no effect is on the wire and no input waits.
LEMMA ServiceInit == Init => Cluster!Init /\ ServiceInv
<1> SUFFICES ASSUME Init PROVE Cluster!Init /\ ServiceInv
  OBVIOUS
<1>1. produced = {}
  BY DEF Init, ActorInit, produced
<1>2. state = [r \in Correct |-> new(r)]
  BY DEF Init, ActorInit
<1>3. Cluster!Init
  BY <1>1, <1>2, SameTypes, SameReplica DEF Cluster!Init
<1>4. ActorTypes /\ Provenance
  BY DEF Init, ActorInit, ActorTypes, Provenance
<1>5. SequencerTypes
  BY DEF Init, SequencerInit, SequencerTypes
<1> QED BY <1>3, <1>4, <1>5, ClusterInductive DEF ServiceInv

-----------------------------------------------------------------------------
(* The steps.                                                              *)

\* The first half of a turn is a step of the cluster.
LEMMA TurnIsStep ==
  ASSUME ServiceInv, NEW r \in Correct, ActorTurn(r)
  PROVE  Cluster!Next
<1> DEFINE i == NextInput(r)
<1>1. PICK pick \in TurnPicks(r) : Turn(r, pick)
  BY DEF ActorTurn
<1> DEFINE s == Handled(state[r], i, pick)
<1>2. i = inbox[r][1] /\ inbox[r] \in Seq(Input) /\ Len(inbox[r]) > 0
  <2>1. inbox[r] \in Seq(Input) /\ inbox[r] # <<>>
    BY <1>1 DEF ServiceInv, ActorTypes, Turn, AtInput
  <2> QED BY <2>1 DEF NextInput
<1>3. i \in Input /\ Deliverable(r, i)
  BY <1>2 DEF ServiceInv, Provenance
<1>4. /\ state' = [state EXCEPT ![r] = [s EXCEPT !.effects = {}]]
      /\ outbox' = [outbox EXCEPT ![r] = s.effects]
      /\ outbox[r] = {} /\ UNCHANGED wire
  BY <1>1 DEF Turn, AtInput, ActorTurn
<1>5. produced' = produced \cup s.effects
  <2>1. outbox \in [Correct -> SUBSET Message]
    BY DEF ServiceInv, ActorTypes
  <2>2. (UNION {outbox'[q] : q \in Correct})
           = (UNION {outbox[q] : q \in Correct}) \cup s.effects
    BY <1>4, <2>1
  <2> QED BY <1>4, <2>2 DEF produced
<1>6. Cluster!Execute(r, s)
  BY <1>4, <1>5 DEF Cluster!Execute
<1>7. CASE i \in Message
  <2>1. s = process_message(state[r], i, pick) /\ pick \in Picks(state[r], i)
    BY <1>7 DEF Handled, TurnPicks
  <2>2. i \notin Timers
    BY <1>7, InputKinds, TimerAssumption
  <2>3. AddressedTo(i, r)
    BY <1>3, <2>2, InputKinds DEF Deliverable, AddressedTo, Speculate
  <2>4. Cluster!ReceiveMessage(r, i)
    BY <1>6, <2>1, <2>3, SameReplica DEF Cluster!ReceiveMessage
  <2>5. \/ i \in Requests
        \/ i \in produced \cup FaultyMessages /\ Reaches(i, r)
    BY <1>3, <2>2 DEF Deliverable, produced
  <2>6. CASE i \in Requests
    BY <2>4, <2>6, SameTypes DEF Cluster!Next
  <2>7. CASE i \in produced \cup FaultyMessages /\ Reaches(i, r)
    BY <2>4, <2>7, SameTypes DEF Cluster!Next
  <2> QED BY <2>5, <2>6, <2>7
<1>8. CASE i \notin Message
  <2>1. s = handle_event(state[r], i)
    BY <1>8 DEF Handled
  <2>2. i \in Timers
    BY <1>3, <1>8, InputKinds, FaultyMessageAssumption
       DEF Deliverable, ServiceInv, ActorTypes
  <2>3. Cluster!TimerEvent(r, i)
    BY <1>6, <2>1, SameReplica DEF Cluster!TimerEvent
  <2> QED BY <2>2, <2>3, SameTypes DEF Cluster!Next
<1> QED BY <1>7, <1>8

\* The second half, the transport taking the effects, changes nothing that
\* the cluster sees.
LEMMA SendIsStutter ==
  ASSUME ServiceInv, NEW r \in Correct, ActorSends(r)
  PROVE  UNCHANGED Cluster!vars
<1>1. /\ outbox' = [outbox EXCEPT ![r] = {}]
      /\ wire' = wire \cup outbox[r] /\ UNCHANGED state
  BY DEF ActorSends, Executed
<1>2. outbox \in [Correct -> SUBSET Message]
  BY DEF ServiceInv, ActorTypes
<1>3. produced' = produced
  BY <1>1, <1>2 DEF produced
<1> QED BY <1>1, <1>3 DEF Cluster!vars

\* Every step of the service is a step of the cluster or leaves it alone.
LEMMA ClusterStep ==
  ASSUME ServiceInv, [Next]_vars
  PROVE  [Cluster!Next]_(Cluster!vars)
<1>1. CASE \E r \in Correct : ActorTurn(r)
  BY <1>1, TurnIsStep
<1>2. CASE \E r \in Correct : ActorSends(r)
  BY <1>2, SendIsStutter
<1>3. CASE ~(\E r \in Correct : ActorTurn(r) \/ ActorSends(r))
  <2>1. UNCHANGED <<state, outbox, wire>>
    BY <1>3 DEF Next, vars, actors, SubmitNumber, SubmitBroadcast,
       PumpSubscribe, PumpRequest, PumpLagged, NetDeliver, TimerFires,
       StartCall, Accept, CallAccepted, Refuse, CallRefused, HostDrops,
       DropNode, ActorPanics, Panic, ActorStops, Stop
  <2> QED BY <2>1 DEF Cluster!vars, produced
<1> QED BY <1>1, <1>2, <1>3

\* The turn's effects are messages: they will be on the wire.
LEMMA OutboxTyped ==
  ASSUME ServiceInv, Cluster!IInv', NEW r \in Correct, ActorTurn(r)
  PROVE  outbox' \in [Correct -> SUBSET Message]
<1>1. produced' \subseteq Message
  BY SameStates DEF Cluster!IInv, Cluster!TypeOK
<1>2. \A q \in Correct : outbox'[q] \subseteq produced'
  BY DEF produced
<1>3. DOMAIN outbox' = Correct /\ outbox' = [q \in Correct |-> outbox'[q]]
  BY DEF ActorTurn, Turn, ServiceInv, ActorTypes
<1> QED BY <1>1, <1>2, <1>3

LEMMA ServiceNext == ServiceInv /\ [Next]_vars => ServiceInv'
<1> SUFFICES ASSUME ServiceInv, [Next]_vars PROVE ServiceInv'
  OBVIOUS
<1>1. Cluster!IInv'
  BY ClusterStep, ClusterInductive DEF ServiceInv
<1>2. ActorTypes /\ SequencerTypes /\ Provenance
  BY DEF ServiceInv
<1>3. SequencerTypes'
  <2>1. \/ \E c \in Client : (\E op \in Ops : TakeEta(c, op)) \/ Broadcast(c)
        \/ \E r \in Correct : Subscribe(r) \/ Recv(r) \/ SkipLost(r)
        \/ UNCHANGED sequencer
    BY DEF Next, vars, SubmitNumber, SubmitBroadcast, PumpSubscribe,
       PumpRequest, PumpLagged, NetDeliver, TimerFires, Accept, Refuse,
       HostDrops, ActorTurn, ActorSends, ActorPanics, ActorStops
  <2> QED BY <1>2, <2>1, SequencerStep
<1>4. ASSUME UNCHANGED <<actors, wire>>
      PROVE  ActorTypes' /\ Provenance'
  BY <1>2, <1>4 DEF ActorTypes, Provenance, Deliverable, actors
<1>5. ASSUME NEW r \in Correct, PumpRequest(r)
      PROVE  ActorTypes' /\ Provenance'
  <2>1. Received(r) \in Requests /\ Received(r) \in Input
    BY <1>2, <1>5, ReceivedRequest, InputKinds DEF PumpRequest, Recv, Input
  <2>2. Deliverable(r, Received(r))
    BY <2>1 DEF Deliverable
  <2>3. StartCall(r, "pump", Received(r)) /\ UNCHANGED wire
    BY <1>5 DEF PumpRequest
  <2> QED BY <1>2, <2>1, <2>2, <2>3, StartCallTypes
<1>6. ASSUME NEW r \in Correct, NetDeliver(r) \/ TimerFires(r)
      PROVE  ActorTypes' /\ Provenance'
  <2>1. PICK i \in Input : StartCall(r, "driver", i) /\ Deliverable(r, i)
    BY <1>2, <1>6, FaultyMessageAssumption, TimerAssumption
       DEF NetDeliver, TimerFires, Deliverable, ActorTypes, Input
  <2>2. UNCHANGED wire
    BY <1>6 DEF NetDeliver, TimerFires
  <2> QED BY <1>2, <2>1, <2>2, StartCallTypes
<1>7. ASSUME NEW r \in Correct, Accept(r) \/ Refuse(r)
      PROVE  ActorTypes' /\ Provenance'
  BY <1>2, <1>7, AcceptTypes, RefuseTypes DEF Accept, Refuse
<1>8. ASSUME NEW r \in Correct, HostDrops(r) \/ ActorStops(r)
      PROVE  ActorTypes' /\ Provenance'
  BY <1>2, <1>8 DEF HostDrops, DropNode, ActorStops, Stop, ActorTypes, Provenance,
     Deliverable
<1>9. ASSUME NEW r \in Correct, ActorTurn(r)
      PROVE  ActorTypes' /\ Provenance'
  <2>1. outbox' \in [Correct -> SUBSET Message]
    BY <1>1, <1>9, OutboxTyped
  <2>2. /\ inbox[r] # <<>> /\ inbox' = [inbox EXCEPT ![r] = Tail(inbox[r])]
        /\ UNCHANGED <<calls, wire>>
    BY <1>9 DEF ActorTurn, Turn, AtInput
  <2>3. wire' \in SUBSET Message
    BY <1>2, <2>2 DEF ActorTypes
  <2> QED BY <1>2, <2>1, <2>2, <2>3, InboxTypes
<1>10. ASSUME NEW r \in Correct, ActorSends(r)
       PROVE  ActorTypes' /\ Provenance'
  <2>1. /\ outbox' = [outbox EXCEPT ![r] = {}]
        /\ wire' = wire \cup outbox[r] /\ UNCHANGED <<inbox, calls>>
    BY <1>10 DEF ActorSends, Executed
  <2>2. outbox' \in [Correct -> SUBSET Message] /\ wire' \in SUBSET Message
    BY <1>2, <2>1 DEF ActorTypes
  <2> QED BY <1>2, <2>1, <2>2, InboxTypes
<1>11. ASSUME NEW r \in Correct, ActorPanics(r)
       PROVE  ActorTypes' /\ Provenance'
  <2>1. /\ inbox' = [inbox EXCEPT ![r] = <<>>]
        /\ UNCHANGED <<calls, outbox, wire>>
    BY <1>11 DEF ActorPanics, Panic
  <2>2. outbox' \in [Correct -> SUBSET Message] /\ wire' \in SUBSET Message
    BY <1>2, <2>1 DEF ActorTypes
  <2> QED BY <1>2, <2>1, <2>2, InboxTypes
<1>12. ActorTypes' /\ Provenance'
  <2>1. CASE UNCHANGED vars
    BY <1>4, <2>1 DEF vars
  <2>2. CASE \E c \in Client : (\E op \in Ops : SubmitNumber(c, op)) \/ SubmitBroadcast(c)
    BY <1>4, <2>2 DEF SubmitNumber, SubmitBroadcast
  <2>3. CASE \E r \in Correct : PumpSubscribe(r) \/ PumpLagged(r)
    BY <1>4, <2>3 DEF PumpSubscribe, PumpLagged
  <2> QED BY <1>5, <1>6, <1>7, <1>8, <1>9, <1>10, <1>11, <2>1, <2>2, <2>3 DEF Next
<1> QED BY <1>1, <1>3, <1>12 DEF ServiceInv

-----------------------------------------------------------------------------
(* Theorems.                                                               *)

\* Whatever waits in a replica's channel, or in a call for it, is a request,
\* something really sent or a timer event, and the machines stay within the
\* cluster's invariant (node.rs:32).
THEOREM ServiceInvariant == Spec => []ServiceInv
<1>1. Init => ServiceInv
  BY ServiceInit
<1> QED BY <1>1, ServiceNext, PTL DEF Spec

\* The actors implement the cluster, for any number of clients, tasks,
\* requests and slots: a turn of a loop is one atomic step of one replica,
\* whatever is queued elsewhere (node.rs:38).
THEOREM ServiceImplementsCluster == Spec => ImplementsCluster
<1>1. Init => Cluster!Init
  BY ServiceInit
<1>2. ServiceInv /\ [Next]_vars => [Cluster!Next]_(Cluster!vars)
  BY ClusterStep
<1> QED BY <1>1, <1>2, ServiceInvariant, PTL DEF Spec, ImplementsCluster, Cluster!Spec

\* The agreement of the cluster holds of the service, where inputs queue,
\* calls wait, actors panic and stop (node.rs:23).
THEOREM ServiceAgrees == Spec => []Cluster!RepairAgreement
<1>1. Cluster!Spec => []Cluster!RepairAgreement
  BY ClusterAssumptions, Cluster!RepairAgrees
<1> QED BY <1>1, ServiceImplementsCluster, PTL DEF ImplementsCluster
=============================================================================
