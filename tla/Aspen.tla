------------------------------- MODULE Aspen --------------------------------
(***************************************************************************)
(* A cluster of raspen replicas.  Every correct replica runs Node::start's *)
(* loop: it takes one message or one timer event, runs process_message or  *)
(* handle_event to the end, and hands the effects to the transport, so one *)
(* input is one atomic step of one replica.                                *)
(*                                                                         *)
(* The transport is external.  Messages that were sent stay in sent and may*)
(* be delivered to any addressee at any time, in any order, repeatedly or  *)
(* never.  Faulty replicas may deliver any message of FaultyMessages at any*)
(* time; the sender a message names is taken to be authentic.              *)
(***************************************************************************)
EXTENDS Replica

CONSTANTS
    Requests,        \* SPECULATE messages of the sequencer
    FaultyMessages,  \* what the faulty replicas may send
    Reaches(_, _),   \* Reaches(m, r): the network may deliver m to r
    Timers           \* the timer events that may fire

HasSender(m) == m.type \notin {"Speculate", "TimeoutProof", "ConflictProof"}

ASSUME RequestAssumption == Requests \subseteq Speculate
ASSUME FaultyMessageAssumption ==
    /\ FaultyMessages \subseteq Message \ Speculate
    /\ \A m \in FaultyMessages : HasSender(m) => m.from \in Faulty
ASSUME TimerAssumption == Timers \subseteq Event

VARIABLES
    rep,             \* rep[r]: the state of the correct replica r
    sent             \* every message a correct replica has sent

vars == <<rep, sent>>

Init ==
    /\ rep = [r \in Correct |-> new(r)]
    /\ sent = {}

\* The end of the loop body of Node::start: s is what the handler left.
Execute(r, s) ==
    /\ rep' = [rep EXCEPT ![r] = [s EXCEPT !.effects = {}]]
    /\ sent' = sent \cup s.effects

ReceiveMessage(r, m) ==
    /\ AddressedTo(m, r)
    /\ \E pick \in Picks(rep[r], m) : Execute(r, process_message(rep[r], m, pick))

TimerEvent(r, e) == Execute(r, handle_event(rep[r], e))

Next ==
    \E r \in Correct :
        \/ \E m \in Requests : ReceiveMessage(r, m)
        \/ \E m \in sent \cup FaultyMessages : Reaches(m, r) /\ ReceiveMessage(r, m)
        \/ \E e \in Timers : TimerEvent(r, e)

Spec == Init /\ [][Next]_vars

-----------------------------------------------------------------------------
(* Invariants.                                                             *)

SentOf(t) == {m \in sent : m.type = t}
Known(t) == {m \in sent \cup FaultyMessages : m.type = t}
Senders(M) == {m.from : m \in M}

\* Every replica state has its type; between two inputs a replica has no
\* effect left to execute; only messages are ever sent.
TypeOK ==
    /\ rep \in [Correct -> ReplicaState]
    /\ \A r \in Correct : rep[r].node_id = r /\ rep[r].effects = {}
    /\ sent \subseteq Message

\* The flag in_repair and the phase, written by different handlers, agree
\* whatever stages a message ran through (specs/aspen.qnt:885).
PhaseConsistency ==
    \A r \in Correct : rep[r].in_repair <=> rep[r].phase \in RepairPhase

\* Correct replicas that apply a repair in the same round apply the same
\* history, whatever views they were in and whatever the faulty ones vote.
RepairAgreement ==
    \A d1, d2 \in SentOf("RepairDone") :
        d1.round = d2.round => d1.history_hash = d2.history_hash

\* A correct replica commits to one history per round, across all views: the
\* lock that replaces PBFT's prepared certificates (repair.rs:163).
CommitOnce ==
    \A c1, c2 \in SentOf("RepairCommit") :
        c1.from = c2.from /\ c1.round = c2.round => c1 = c2

\* A REPAIR-COMMIT of a correct replica rests on REPAIR-PREPAREs of n - f
\* different replicas for the same view, round and history.
CommitCertified ==
    \A c \in SentOf("RepairCommit") :
        Cardinality(Senders({m \in Known("RepairPrepare") :
            /\ m.view = c.view
            /\ m.round = c.round
            /\ m.history_hash = c.history_hash})) >= byz_quorum

\* REPAIR-COMMITs for the history of d, among S and the faulty replicas'.
CommitVotes(S, d) ==
    {m \in S \cup FaultyMessages :
        /\ m.type = "RepairCommit"
        /\ m.view = d.view
        /\ m.round = d.round
        /\ m.history_hash = d.history_hash}

Vouched(S, d) == Cardinality(Senders(CommitVotes(S, d))) >= byz_quorum

\* A REPAIR-DONE of a correct replica rests on REPAIR-COMMITs of n - f
\* different replicas for the same view, round and history.
DoneCertified ==
    \A d \in SentOf("RepairDone") : Vouched(sent, d)

\* A correct replica sends one LOG per view and round, hence never two LOGs
\* with different content (specs/aspen.qnt:913).
LogOnce ==
    \A l1, l2 \in SentOf("LogMsg") :
        l1.from = l2.from /\ l1.view = l2.view /\ l1.round = l2.round => l1 = l2

\* A TIMEOUT-PROOF formed by a correct replica means that some correct
\* replica's checkpoint timer expired for that index (repair_entry.rs:141).
TimeoutProofGenuine ==
    \A p \in SentOf("TimeoutProof") :
        \E m \in SentOf("TimeoutMsg") : m.round = p.round /\ m.log_idx = p.log_idx

\* A CONFLICT-PROOF formed by a correct replica means that a SYNC for that
\* index contradicts the log of a correct replica, which its LOG shows, as
\* long as p >= f (repair_entry.rs:67).
ConflictProofGenuine ==
    P >= F =>
        \A p \in SentOf("ConflictProof") :
            \E l \in SentOf("LogMsg"), m \in Known("Sync") :
                /\ l.round = p.round
                /\ m.round = p.round /\ m.log_idx = p.log_idx
                /\ m.log_hash # l.log_hash

\* More than f REPAIR-DONEs of round k in one view, all of faulty replicas:
\* the messages are counted, not their senders, so that one can send them all.
DonesForged(k) ==
    \E M \in SUBSET {m \in FaultyMessages : m.type = "RepairDone" /\ m.round = k} :
        /\ IsFiniteSet(M)
        /\ Cardinality(M) >= f_plus_1
        /\ \A m1, m2 \in M : m1.view = m2.view

\* A replica has left round k only if some correct replica applied the repair
\* of round k, or faulty ones forged f+1 REPAIR-DONEs of it (repair.rs:336).
RoundBacked ==
    \A r \in Correct :
        rep[r].round > 0 =>
            \/ \E d \in SentOf("RepairDone") : d.round = rep[r].round - 1
            \/ DonesForged(rep[r].round - 1)

\* SYNCs for the round, index and hash of the CHECKPOINT c.
MatchingSyncs(c) ==
    {m \in Known("Sync") :
        /\ m.round = c.round
        /\ m.log_idx = c.log_idx
        /\ m.log_hash = c.log_hash}

\* A CHECKPOINT of a correct replica rests on n - p SYNCs for the same round,
\* index and hash, among which each correct replica counts once, however often
\* it sent them (checkpoint.rs:99).
CheckpointBacked ==
    \A c \in SentOf("Checkpoint") :
        \E M \in SUBSET MatchingSyncs(c) :
            /\ IsFiniteSet(M)
            /\ Cardinality(M) >= fast_quorum
            /\ \A m1, m2 \in M : m1.from = m2.from /\ m1.from \in Correct => m1 = m2

\* What a log's entry at index k has as prev_hash if it was speculated: the
\* hash of the entry below it.
Link(store, k) == IF k > 0 THEN entry_hash(store[k]) ELSE ZeroHash

\* The log is a run of the synthetic entries that alignment and repair write,
\* at most up to start_idx, then a chain: each entry carries the hash of the
\* entry below it, the first one that of the last synthetic entry
\* (state.rs:14).  Nothing of a log that was cut short shows through.
LogChained ==
    \A r \in Correct :
        \E b \in 0 .. rep[r].start_idx + 1 :
            /\ b <= rep[r].kv_size
            /\ \A k \in 0 .. b - 1 :
                rep[r].kv_store[k + 1] = [op_hash |-> k, prev_hash |-> Bytes(k)]
            /\ \A k \in b .. rep[r].kv_size - 1 :
                rep[r].kv_store[k + 1].prev_hash = Link(rep[r].kv_store, k)

\* kv_size, kept by the replica, is the size of the store (state.rs:75), or
\* less once the replica has applied an empty history, which resets kv_size
\* and leaves the store as it is (repair.rs:260).
SizeMatchesStore ==
    \A r \in Correct :
        \/ rep[r].kv_size = Len(rep[r].kv_store)
        \/ /\ rep[r].kv_size < Len(rep[r].kv_store)
           /\ \E d \in SentOf("RepairDone") : d.from = r /\ d.history_hash = 0

-----------------------------------------------------------------------------
(* The inductive invariant behind RepairAgreement.  It speaks of a replica *)
(* in the middle of process_message too: s is the state a stage of replica *)
(* r left, S what had been sent before the step.                           *)

OwnCommits(s, S) ==
    {c \in S \cup s.effects : c.type = "RepairCommit" /\ c.from = s.node_id}

ReplicaInv(r, s, S) ==
    /\ s \in ReplicaState
    /\ s.node_id = r
    /\ s.in_repair <=> s.phase \in RepairPhase
    /\ s.repair_commit_msgs \subseteq S \cup FaultyMessages
    /\ \A m \in s.effects : HasSender(m) => m.from = s.node_id
    /\ \A c \in OwnCommits(s, S) :
        /\ c.round <= s.round
        /\ c.round = s.round =>
            /\ s.phase = "CommitPhase"
            /\ c.view = s.view
            /\ c.history_hash = s.proposed_history_hash
    /\ \A c1, c2 \in OwnCommits(s, S) : c1.round = c2.round => c1 = c2
    /\ \A d \in s.effects : d.type = "RepairDone" => Vouched(S, d)

\* Every replica satisfies ReplicaInv between two inputs, what is sent names
\* its correct sender, and every REPAIR-DONE has a quorum of commits.
IInv ==
    /\ TypeOK
    /\ \A r \in Correct : ReplicaInv(r, rep[r], sent)
    /\ \A m \in sent : HasSender(m) => m.from \in Correct
    /\ DoneCertified

-----------------------------------------------------------------------------
(* Action properties.                                                      *)

\* A replica that voted to commit keeps its view, its vote and its phase
\* until it enters the next round.
Locked(r) ==
    rep[r].phase = "CommitPhase" =>
        \/ rep'[r].round = rep[r].round + 1
        \/ /\ rep'[r].phase = "CommitPhase"
           /\ rep'[r].round = rep[r].round
           /\ rep'[r].view = rep[r].view
           /\ rep'[r].proposed_history_hash = rep[r].proposed_history_hash

CommitLocked == [][\A r \in Correct : Locked(r)]_vars
=============================================================================
