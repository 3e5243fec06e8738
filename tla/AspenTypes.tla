----------------------------- MODULE AspenTypes -----------------------------
(***************************************************************************)
(* The types crate of raspen: configuration and quorum thresholds          *)
(* (config.rs), protocol phases (phase.rs), wire messages (message.rs),    *)
(* timer events (event.rs) and the state of one replica (state.rs), with   *)
(* the log store of the storage crate (kv_store.rs) as a sequence of       *)
(* entries.                                                                *)
(*                                                                         *)
(* Digests are symbolic: the byte array [b; 32] is <<b>> and the SHA-256 of*)
(* an entry is the entry's own content, which makes it collision free.     *)
(***************************************************************************)
EXTENDS Naturals, Sequences, FiniteSets

CONSTANTS
    Node,            \* all replicas, correct and faulty
    F,               \* f: Byzantine faults tolerated
    P,               \* p: diverged replicas tolerated on the fast path
    NodesOrdered,    \* Config.nodes_ordered: leader rotation of REPAIR
    Faulty           \* the replicas that do not run this code

Correct == Node \ Faulty

ASSUME NodeAssumption == IsFiniteSet(Node) /\ Node # {}
ASSUME FaultAssumption == F \in Nat /\ P \in Nat
ASSUME ResilienceAssumption == Cardinality(Node) > 3 * F /\ Cardinality(Node) > P
ASSUME OrderAssumption == NodesOrdered \in Seq(Node)
ASSUME FaultyAssumption == Faulty \subseteq Node /\ Cardinality(Faulty) <= F

-----------------------------------------------------------------------------
(* Config::for_test: the thresholds derived from (n, f, p).                *)

n_replicas == Cardinality(Node)
fast_quorum == n_replicas - P
byz_quorum == n_replicas - F
f_plus_1 == F + 1

-----------------------------------------------------------------------------
(* Log entries, digests and the store.                                     *)

Hash == Seq(Nat)
Bytes(b) == <<b % 256>>                       \* [k as u8; 32]
ZeroHash == Bytes(0)

\* result is left out: every entry the code writes has an empty one.
KvEntry == [op_hash : Nat, prev_hash : Hash]

entry_hash(e) == Append(e.prev_hash, e.op_hash)

\* The store holds the entries 0 .. Len - 1, entry k at position k + 1.
KvStore == Seq(KvEntry)

\* idx is the replica's kv_size, which never exceeds the store's size.
put(store, idx, e) ==
    IF idx < Len(store) THEN [store EXCEPT ![idx + 1] = e] ELSE Append(store, e)

\* prev_hash of the entry at the highest index, zero when empty.
top_hash(store) ==
    IF store = <<>> THEN ZeroHash ELSE store[Len(store)].prev_hash

\* hash_at(idx).unwrap_or([0; 32])
hash_at(store, idx) ==
    IF idx < Len(store) THEN entry_hash(store[idx + 1]) ELSE ZeroHash

\* rebuild_from_entries on the synthetic entries that alignment and repair
\* write for the indices 0 .. size - 1.
rebuilt(size) ==
    [k \in 1 .. size |-> [op_hash |-> k - 1, prev_hash |-> Bytes(k - 1)]]

-----------------------------------------------------------------------------
(* Phases, messages and timer events.                                      *)

RepairPhase == {"CollectingLogs", "PreparePhase", "CommitPhase"}
Phase == {"Speculative", "Aligning"} \cup RepairPhase

Speculate == [type : {"Speculate"}, round : Nat, op_hash : Hash, eta : Nat]
SpecReply == [type : {"SpecReply"}, from : Node, round : Nat, log_idx : Nat,
              log_hash : Hash]
Sync == [type : {"Sync"}, from : Node, round : Nat, log_idx : Nat,
         log_hash : Hash, eta_star : Nat]
Checkpoint == [type : {"Checkpoint"}, from : Node, round : Nat, log_idx : Nat,
               log_hash : Hash]
StateRequest == [type : {"StateRequest"}, from : Node, chkpt_idx : Nat]
\* Effect::Send carries the destination beside the message: field "to".
StateReply == [type : {"StateReply"}, from : Node, to : Node, chkpt_idx : Nat,
               chkpt_hash : Hash]
TimeoutMsg == [type : {"TimeoutMsg"}, from : Node, round : Nat, log_idx : Nat]
Proof == [type : {"TimeoutProof", "ConflictProof"}, round : Nat, log_idx : Nat]
LogMsg == [type : {"LogMsg"}, from : Node, view : Nat, round : Nat,
           log_hash : Hash]
RepairMsg(t) == [type : {t}, from : Node, view : Nat, round : Nat,
                 history_hash : Nat]
RepairHistory == RepairMsg("RepairHistory")
RepairPrepare == RepairMsg("RepairPrepare")
RepairCommit == RepairMsg("RepairCommit")
RepairDone == RepairMsg("RepairDone")
CommittedReply == [type : {"CommittedReply"}, from : Node, round : Nat,
                   log_idx : Nat]

Message ==
    Speculate \cup SpecReply \cup Sync \cup Checkpoint \cup StateRequest
        \cup StateReply \cup TimeoutMsg \cup Proof \cup LogMsg
        \cup RepairHistory \cup RepairPrepare \cup RepairCommit
        \cup RepairDone \cup CommittedReply

SyncTimeout == [type |-> "SyncTimeout"]
ChkptTimeout(i) == [type |-> "ChkptTimeout", log_idx |-> i]
RepairViewTimeout == [type |-> "RepairViewTimeout"]

Event == [type : {"SyncTimeout", "RepairViewTimeout"}]
             \cup [type : {"ChkptTimeout"}, log_idx : Nat]

-----------------------------------------------------------------------------
(* ReplicaState.  The field effects is the Vec<Effect> that the running    *)
(* call of process_message or handle_event builds; it is empty between     *)
(* calls.  ack_msgs is never written by the code and has no counterpart.   *)

ReplicaState ==
    [node_id : Node,
     phase : Phase,
     round : Nat,
     view : Nat,
     start_idx : Nat,
     kv_size : Nat,
     kv_store : KvStore,
     chkpt_idx : Nat,
     chkpt_hash : Hash,
     eta_star : Nat,
     in_repair : BOOLEAN,
     proposed_history_hash : Nat,
     sync_msgs : SUBSET Sync,
     chkpt_msgs : SUBSET Checkpoint,
     timeout_msgs : SUBSET TimeoutMsg,
     log_msgs : SUBSET LogMsg,
     repair_history_msgs : SUBSET RepairHistory,
     repair_prepare_msgs : SUBSET RepairPrepare,
     repair_commit_msgs : SUBSET RepairCommit,
     repair_done_msgs : SUBSET RepairDone,
     effects : SUBSET Message]
=============================================================================
