--------------------------- MODULE AspenEvidence ----------------------------
(***************************************************************************)
(* What a correct replica sends, and every round it enters, rests on       *)
(* messages that were really sent: its collections hold nothing else, and  *)
(* the counts that open its guards count different senders where the       *)
(* counted messages cannot differ in anything but the sender.              *)
(***************************************************************************)
EXTENDS AspenMoves

\* Messages of K and of the faulty replicas that support m.
Prepares(K, c) ==
    {m \in K \cup FaultyMessages :
        /\ m.type = "RepairPrepare"
        /\ m.view = c.view
        /\ m.round = c.round
        /\ m.history_hash = c.history_hash}

Syncs(K, c) ==
    {m \in K \cup FaultyMessages :
        /\ m.type = "Sync"
        /\ m.round = c.round
        /\ m.log_idx = c.log_idx
        /\ m.log_hash = c.log_hash}

Prepared(K, c) == Cardinality(Senders(Prepares(K, c))) >= byz_quorum

Synced(K, c) ==
    \E M \in SUBSET Syncs(K, c) :
        /\ IsFiniteSet(M)
        /\ Cardinality(M) >= fast_quorum
        /\ \A m1, m2 \in M : m1.from = m2.from /\ m1.from \in Correct => m1 = m2

Expired(K, p) ==
    \E m \in K :
        m.type = "TimeoutMsg" /\ m.round = p.round /\ m.log_idx = p.log_idx

Contradicted(K, p) ==
    \E l \in K, m \in K \cup FaultyMessages :
        /\ l.type = "LogMsg" /\ l.round = p.round
        /\ m.type = "Sync" /\ m.round = p.round /\ m.log_idx = p.log_idx
        /\ m.log_hash # l.log_hash

\* What correct replicas have sent, K, entitles one of them to send m.
Justified(K, m) ==
    /\ m.type = "RepairCommit" => Prepared(K, m)
    /\ m.type = "TimeoutProof" => Expired(K, m)
    /\ m.type = "ConflictProof" => (P >= F => Contradicted(K, m))
    /\ m.type = "Checkpoint" => Synced(K, m)
    /\ m.type = "Sync" => m.eta_star = 0

\* What correct replicas have sent, K, entitles one of them to enter round k.
Entered(K, k) ==
    k > 0 => \/ \E d \in K : d.type = "RepairDone" /\ d.round = k - 1
             \/ DonesForged(k - 1)

\* A replica in the middle of a call: s is what the stages so far left, S
\* what had been sent before.
Evidence(s, S) ==
    /\ s.eta_star = 0
    /\ Collected(s) \subseteq S \cup FaultyMessages
    /\ IsFiniteSet(Collected(s))
    /\ \A m \in s.effects : Justified(S \cup s.effects, m)
    /\ Entered(S \cup s.effects, s.round)

\* What is sent names its correct sender and is justified.
Sound(S) ==
    /\ \A m \in S : HasSender(m) => m.from \in Correct
    /\ \A m \in S : Justified(S, m)

\* The inductive invariant.
EvidenceInv ==
    /\ IInv
    /\ \A r \in Correct : Evidence(rep[r], sent)
    /\ Sound(sent)

-----------------------------------------------------------------------------
(* Counting.                                                               *)

\* The thresholds are numbers, and byz_quorum is positive.
LEMMA Thresholds ==
  /\ n_replicas \in Nat /\ byz_quorum \in Nat /\ fast_quorum \in Nat /\ f_plus_1 \in Nat
  /\ byz_quorum > 0
BY NodeAssumption, FaultAssumption, ResilienceAssumption, FS_CardinalityType
   DEF n_replicas, byz_quorum, fast_quorum, f_plus_1

\* A count of messages M that differ in their senders is a count of senders,
\* of M and of every larger set W.
LEMMA SenderCount ==
  ASSUME NEW M, NEW W, M \subseteq W, Senders(W) \subseteq Node,
         \A m1, m2 \in M : m1.from = m2.from => m1 = m2
  PROVE  /\ Cardinality(M) \in Nat /\ Cardinality(Senders(W)) \in Nat
         /\ Cardinality(M) <= Cardinality(Senders(W))
<1> DEFINE from == [m \in M |-> m.from]
<1>1. IsFiniteSet(Senders(W)) /\ Cardinality(Senders(W)) \in Nat
  BY NodeAssumption, FS_Subset, FS_CardinalityType
<1>2. from \in Injection(M, Senders(W))
  BY DEF Injection, IsInjective, Senders
<1>3. IsFiniteSet(M) /\ Cardinality(M) <= Cardinality(Senders(W))
  BY <1>1, <1>2, FS_Injection
<1> QED BY <1>1, <1>3, FS_CardinalityType

\* The faulty replicas alone are at most f senders.
LEMMA FaultyCount ==
  ASSUME NEW M, M \subseteq FaultyMessages, \A m \in M : HasSender(m),
         \A m1, m2 \in M : m1.from = m2.from => m1 = m2
  PROVE  Cardinality(M) \in Nat /\ Cardinality(M) <= F
<1>1. Senders(M) \subseteq Faulty
  BY FaultyMessageAssumption DEF Senders
<1>2. Senders(M) \subseteq Node
  BY <1>1, FaultyAssumption
<1>3. Cardinality(M) \in Nat /\ Cardinality(M) <= Cardinality(Senders(M))
  BY <1>2, SenderCount
<1>4. Cardinality(Senders(M)) <= Cardinality(Faulty)
  BY <1>1, FaultyAssumption, NodeAssumption, FS_Subset
<1>5. Cardinality(Faulty) \in Nat /\ Cardinality(Senders(M)) \in Nat
  BY <1>2, FaultyAssumption, NodeAssumption, FS_Subset, FS_CardinalityType
<1> QED BY <1>3, <1>4, <1>5, FaultyAssumption, FaultAssumption

\* What supports a REPAIR-COMMIT has replicas as senders.
LEMMA SupportTypes ==
  ASSUME NEW K \in SUBSET Message, NEW c
  PROVE  Senders(Prepares(K, c)) \subseteq Node
<1>1. \A m \in Prepares(K, c) : m \in RepairPrepare
  BY FaultyMessageAssumption, MessageKinds DEF Prepares
<1> QED BY <1>1 DEF Senders, RepairPrepare, RepairMsg

\* What is justified stays so when more is sent.
LEMMA JustifiedMono ==
  ASSUME NEW K, NEW L \in SUBSET Message, K \subseteq L, NEW m, Justified(K, m)
  PROVE  Justified(L, m)
<1>1. ASSUME NEW A, NEW B, A \subseteq B, Senders(B) \subseteq Node,
             NEW q \in Nat, Cardinality(Senders(A)) >= q
      PROVE  Cardinality(Senders(B)) >= q
  <2>1. Senders(A) \subseteq Senders(B)
    BY <1>1 DEF Senders
  <2>2. /\ IsFiniteSet(Senders(B))
        /\ Cardinality(Senders(A)) <= Cardinality(Senders(B))
    BY <1>1, <2>1, NodeAssumption, FS_Subset
  <2>3. Cardinality(Senders(A)) \in Nat /\ Cardinality(Senders(B)) \in Nat
    BY <2>1, <2>2, FS_Subset, FS_CardinalityType
  <2> QED BY <1>1, <2>2, <2>3
<1>2. Prepared(K, m) => Prepared(L, m)
  <2>1. Prepares(K, m) \subseteq Prepares(L, m)
    BY DEF Prepares
  <2> QED BY <1>1, <2>1, SupportTypes, Thresholds DEF Prepared
<1>3. Synced(K, m) => Synced(L, m)
  <2>1. Syncs(K, m) \subseteq Syncs(L, m)
    BY DEF Syncs
  <2> QED BY <2>1 DEF Synced
<1>4. Expired(K, m) => Expired(L, m)
  BY DEF Expired
<1>5. Contradicted(K, m) => Contradicted(L, m)
  BY DEF Contradicted
<1> QED BY <1>2, <1>3, <1>4, <1>5 DEF Justified

-----------------------------------------------------------------------------
(* The guards.                                                             *)

\* can_repair_commit: n - f different replicas prepared the proposal.
LEMMA CommitJustified ==
  ASSUME NEW S \in SUBSET Message, NEW s \in ReplicaState, Evidence(s, S),
         can_repair_commit(s)
  PROVE  Justified(S, RepairVote(s, "RepairCommit", s.proposed_history_hash))
<1> DEFINE c == RepairVote(s, "RepairCommit", s.proposed_history_hash)
           V == VotesForProposal(s, s.repair_prepare_msgs)
           W == Prepares(S, c)
<1>1. s.proposed_history_hash \in Nat
  BY DEF ReplicaState
<1>2. /\ c.view = s.view /\ c.round = s.round
      /\ c.history_hash = s.proposed_history_hash /\ c.type = "RepairCommit"
  BY <1>1, VoteType
<1> HIDE DEF c
<1>3. s.repair_prepare_msgs \subseteq RepairPrepare
  BY DEF ReplicaState
<1>4. s.repair_prepare_msgs \subseteq S \cup FaultyMessages
  BY DEF Evidence, Collected
<1>5. V \subseteq W
  BY <1>2, <1>3, <1>4 DEF VotesForProposal, Current, Prepares, RepairPrepare, RepairMsg
<1>6. \A m1, m2 \in V : m1.from = m2.from => m1 = m2
  BY <1>3 DEF VotesForProposal, Current, RepairPrepare, RepairMsg
<1>7. /\ Cardinality(V) \in Nat /\ Cardinality(Senders(W)) \in Nat
      /\ Cardinality(V) <= Cardinality(Senders(W))
  BY <1>5, <1>6, SupportTypes, SenderCount
<1>8. Cardinality(V) >= byz_quorum
  BY DEF can_repair_commit
<1>9. Prepared(S, c)
  BY <1>7, <1>8, Thresholds DEF Prepared
<1>10. Justified(S, c)
  BY <1>2, <1>9 DEF Justified
<1> QED BY <1>10 DEF c

\* can_timeout_proof: of f + 1 TIMEOUTs one comes from a correct replica.
LEMMA TimeoutJustified ==
  ASSUME NEW S \in SUBSET Message, NEW s \in ReplicaState, Evidence(s, S),
         can_timeout_proof(s)
  PROVE  Justified(S, TheProof(s, "TimeoutProof"))
<1> DEFINE p == TheProof(s, "TimeoutProof")
           M == TopTimeouts(s)
<1>1. p.type = "TimeoutProof" /\ p.round = s.round /\ p.log_idx = s.kv_size - 1
  BY DEF TheProof
<1> HIDE DEF p
<1>2. s.timeout_msgs \subseteq TimeoutMsg /\ s.timeout_msgs \subseteq S \cup FaultyMessages
  BY DEF ReplicaState, Evidence, Collected
<1>3. \A m \in M : /\ m \in TimeoutMsg /\ m \in S \cup FaultyMessages
                   /\ m.round = s.round /\ m.log_idx = s.kv_size - 1
  BY <1>2 DEF TopTimeouts
<1>4. \A m \in TimeoutMsg : m.type = "TimeoutMsg"
  BY DEF TimeoutMsg
<1>5. \A m1, m2 \in M : m1.from = m2.from => m1 = m2
  BY <1>3 DEF TimeoutMsg
<1>6. ~(M \subseteq FaultyMessages)
  <2> SUFFICES ASSUME M \subseteq FaultyMessages PROVE FALSE
    OBVIOUS
  <2>1. \A m \in M : HasSender(m)
    BY <1>3, <1>4 DEF HasSender
  <2>2. Cardinality(M) \in Nat /\ Cardinality(M) <= F
    BY <1>5, <2>1, FaultyCount
  <2>3. Cardinality(M) >= F + 1
    BY DEF can_timeout_proof, f_plus_1
  <2> QED BY <2>2, <2>3, FaultAssumption
<1>7. PICK m \in M : m \in S
  BY <1>3, <1>6
<1>8. Expired(S, p)
  BY <1>1, <1>3, <1>4, <1>7 DEF Expired
<1>9. Justified(S, p)
  BY <1>1, <1>8 DEF Justified
<1> QED BY <1>9 DEF p

\* can_conflict_proof: n - f SYNCs of which fewer than n - p agree with the
\* replica's log include one that does not, if p >= f.
LEMMA ConflictJustified ==
  ASSUME NEW S \in SUBSET Message, NEW s \in ReplicaState, Evidence(s, S),
         can_conflict_proof(s),
         NEW K, S \subseteq K, OwnLog(s, s.view) \in K
  PROVE  Justified(K, TheProof(s, "ConflictProof"))
<1> DEFINE p == TheProof(s, "ConflictProof")
           l == OwnLog(s, s.view)
           T == TopSyncs(s)
           C == ConsistentSyncs(s)
<1>1. p.type = "ConflictProof" /\ p.round = s.round /\ p.log_idx = s.kv_size - 1
  BY DEF TheProof
<1>2. l.type = "LogMsg" /\ l.round = s.round /\ l.log_hash = top_hash(s.kv_store)
  BY DEF OwnLog
<1> HIDE DEF p, l
<1>3. s.sync_msgs \subseteq Sync /\ s.sync_msgs \subseteq S \cup FaultyMessages
  BY DEF ReplicaState, Evidence, Collected
<1>4. SUFFICES ASSUME P >= F PROVE Contradicted(K, p)
  BY <1>1 DEF Justified, p
<1>5. T # C
  <2> SUFFICES ASSUME T = C PROVE FALSE
    OBVIOUS
  <2>1. s.sync_msgs \subseteq Collected(s) /\ T \subseteq s.sync_msgs
    BY DEF Collected, TopSyncs
  <2>2. IsFiniteSet(T)
    BY <2>1, FS_Subset DEF Evidence
  <2>3. Cardinality(T) \in Nat
    BY <2>2, FS_CardinalityType
  <2>4. Cardinality(T) >= byz_quorum /\ Cardinality(T) < fast_quorum
    BY DEF can_conflict_proof
  <2> QED BY <1>4, <2>3, <2>4, Thresholds, FaultAssumption DEF byz_quorum, fast_quorum
<1>6. PICK m \in T : m.log_hash # top_hash(s.kv_store)
  BY <1>5 DEF ConsistentSyncs
<1>7. /\ m.type = "Sync" /\ m.round = s.round /\ m.log_idx = s.kv_size - 1
      /\ m \in K \cup FaultyMessages
  BY <1>3, <1>6 DEF TopSyncs, Sync
<1>8. l \in K
  BY DEF l
<1> QED BY <1>1, <1>2, <1>6, <1>7, <1>8 DEF Contradicted

\* can_form_checkpoint: n - p SYNCs for the log top, which a correct replica
\* sends with one eta_star only.
LEMMA CheckpointJustified ==
  ASSUME NEW S \in SUBSET Message, NEW s \in ReplicaState, Evidence(s, S),
         Sound(S), can_form_checkpoint(s),
         NEW c, c.round = s.round, c.log_idx = s.kv_size - 1,
         c.log_hash = top_hash(s.kv_store)
  PROVE  Synced(S, c)
<1> DEFINE V == ConsistentSyncs(s)
<1>1. s.sync_msgs \subseteq Sync /\ s.sync_msgs \subseteq S \cup FaultyMessages
  BY DEF ReplicaState, Evidence, Collected
<1>2. \A m \in Sync : m.type = "Sync" /\ HasSender(m)
  BY DEF Sync, HasSender
<1>3. V \subseteq s.sync_msgs /\ V \subseteq Syncs(S, c)
  BY <1>1, <1>2 DEF ConsistentSyncs, TopSyncs, Syncs
<1>4. IsFiniteSet(V)
  <2>1. s.sync_msgs \subseteq Collected(s)
    BY DEF Collected
  <2> QED BY <1>3, <2>1, FS_Subset DEF Evidence
<1>5. Cardinality(V) >= fast_quorum
  BY DEF can_form_checkpoint
<1>6. ASSUME NEW m1 \in V, NEW m2 \in V, m1.from = m2.from, m1.from \in Correct
      PROVE  m1 = m2
  <2>1. /\ m1 \in Sync /\ m2 \in Sync /\ m1.round = m2.round
        /\ m1.log_idx = m2.log_idx /\ m1.log_hash = m2.log_hash
    BY <1>1, <1>3 DEF ConsistentSyncs, TopSyncs
  <2>2. m1.type = "Sync" /\ m2.type = "Sync" /\ HasSender(m1) /\ HasSender(m2)
    BY <1>2, <2>1
  <2>3. m1 \in S /\ m2 \in S
    BY <1>1, <1>3, <1>6, <2>2, FaultyMessageAssumption DEF Correct
  <2>4. m1.eta_star = 0 /\ m2.eta_star = 0
    BY <2>2, <2>3 DEF Sound, Justified
  <2> QED BY <1>6, <2>1, <2>4 DEF Sync
<1> HIDE DEF V
<1> QED BY <1>3, <1>4, <1>5, <1>6 DEF Synced

\* can_repair_done_catchup: of f + 1 REPAIR-DONEs one comes from a correct
\* replica, or all are forged.
LEMMA CatchupJustified ==
  ASSUME NEW S \in SUBSET Message, NEW s \in ReplicaState, Evidence(s, S),
         can_repair_done_catchup(s)
  PROVE  \/ \E d \in S : d.type = "RepairDone" /\ d.round = s.round
         \/ DonesForged(s.round)
<1> DEFINE M == Current(s, s.repair_done_msgs)
<1>1. /\ s.repair_done_msgs \subseteq RepairDone
      /\ s.repair_done_msgs \subseteq S \cup FaultyMessages
  BY DEF ReplicaState, Evidence, Collected
<1>2. \A m \in M : /\ m \in RepairDone /\ m \in S \cup FaultyMessages
                   /\ m.round = s.round /\ m.view = s.view
  BY <1>1 DEF Current
<1>3. \A m \in RepairDone : m.type = "RepairDone"
  BY DEF RepairDone, RepairMsg
<1>4. IsFiniteSet(M)
  <2>1. M \subseteq Collected(s)
    BY DEF Current, Collected
  <2> QED BY <2>1, FS_Subset DEF Evidence
<1>5. Cardinality(M) >= f_plus_1
  BY DEF can_repair_done_catchup
<1>6. CASE M \subseteq FaultyMessages
  <2> HIDE DEF M
  <2>1. M \subseteq {m \in FaultyMessages : m.type = "RepairDone" /\ m.round = s.round}
    BY <1>2, <1>3, <1>6
  <2>2. \A m1, m2 \in M : m1.view = m2.view
    BY <1>2
  <2> QED BY <1>4, <1>5, <2>1, <2>2 DEF DonesForged
<1> QED BY <1>2, <1>3, <1>6

-----------------------------------------------------------------------------
(* The moves.                                                              *)

\* A message of none of the five kinds needs no justification.
LEMMA Unconditional ==
  ASSUME NEW K, NEW m,
         m.type \notin {"RepairCommit", "TimeoutProof", "ConflictProof",
                        "Checkpoint", "Sync"}
  PROVE  Justified(K, m)
BY DEF Justified

\* A move that collects nothing and sends E keeps the evidence, when E and
\* the round it ends in are justified.
LEMMA EffectStep ==
  ASSUME NEW S \in SUBSET Message, NEW s \in ReplicaState, Evidence(s, S),
         NEW t \in ReplicaState, SameSets(s, t),
         NEW E, t.effects = s.effects \cup E,
         \A m \in E : Justified(S \cup t.effects, m),
         t.round = s.round \/ Entered(S \cup t.effects, t.round)
  PROVE  Evidence(t, S)
<1>1. S \cup s.effects \subseteq S \cup t.effects /\ S \cup t.effects \in SUBSET Message
  BY DEF ReplicaState
<1>2. \A m \in s.effects : Justified(S \cup t.effects, m)
  BY <1>1, JustifiedMono DEF Evidence
<1>3. \A m \in t.effects : Justified(S \cup t.effects, m)
  BY <1>2
<1>4. Entered(S \cup s.effects, s.round) => Entered(S \cup t.effects, s.round)
  BY <1>1 DEF Entered
<1>5. Entered(S \cup t.effects, t.round)
  BY <1>4 DEF Evidence
<1>6. /\ t.eta_star = 0
      /\ Collected(t) \subseteq S \cup FaultyMessages
      /\ IsFiniteSet(Collected(t))
  BY DEF SameSets, Evidence
<1> QED BY <1>3, <1>5, <1>6 DEF Evidence

\* No collection holds a SPECULATE.
LEMMA CollectedTypes ==
  ASSUME NEW s \in ReplicaState, NEW m \in Collected(s)
  PROVE  m.type # "Speculate"
BY DEF ReplicaState, Collected, Sync, Checkpoint, TimeoutMsg, LogMsg,
   RepairHistory, RepairPrepare, RepairCommit, RepairDone, RepairMsg

\* Keeping a message that was sent, or that a faulty replica may send.
LEMMA KeepEvidence ==
  ASSUME NEW S, NEW M, \A m \in M : m \in S \cup FaultyMessages \/ m.type = "Speculate",
         NEW s \in ReplicaState, Evidence(s, S),
         NEW t \in ReplicaState, Keep(s, t, M)
  PROVE  Evidence(t, S)
<1>1. PICK m \in M : Collected(t) = Collected(s) \cup {m}
  BY DEF Keep
<1>2. m \in S \cup FaultyMessages
  BY <1>1, CollectedTypes
<1>3. IsFiniteSet(Collected(t))
  BY <1>1, FS_AddElement DEF Evidence
<1> QED BY <1>1, <1>2, <1>3 DEF Evidence, Keep, SameMode

\* Every move of a replica keeps its evidence.
LEMMA MoveEvidence ==
  ASSUME NEW S \in SUBSET Message, Sound(S),
         NEW M, \A m \in M : m \in S \cup FaultyMessages \/ m.type = "Speculate",
         NEW s \in ReplicaState, Evidence(s, S),
         NEW t \in ReplicaState, Move(s, t, M)
  PROVE  Evidence(t, S)
<1> DEFINE K == S \cup t.effects
<1>1. K \in SUBSET Message /\ S \subseteq K
  BY DEF ReplicaState
<1>2. ASSUME NEW x, Justified(S, x) PROVE Justified(K, x)
  BY <1>1, <1>2, JustifiedMono
<1>3. ASSUME NEW x, SameSets(s, t), t.round = s.round,
             t.effects = s.effects \cup {x}, Justified(K, x)
      PROVE  Evidence(t, S)
  <2> DEFINE E == {x}
  <2>1. t.effects = s.effects \cup E /\ \A m \in E : Justified(K, m)
    BY <1>3
  <2> HIDE DEF E
  <2> QED BY <1>3, <2>1, EffectStep
<1>4. CASE Keep(s, t, M)
  BY <1>4, KeepEvidence
<1>5. CASE SendSync(s, t)
  <2>1. PICK x : Send(s, t, x) /\ x.type = "Sync" /\ x.eta_star = s.eta_star
    BY <1>5 DEF SendSync
  <2>2. Justified(K, x)
    BY <2>1 DEF Evidence, Justified
  <2> QED BY <1>3, <2>1, <2>2 DEF Send, SameMode
<1>6. CASE FormCheckpoint(s, t)
  <2>1. PICK x : /\ Send(s, t, x)
                 /\ x.type = "Checkpoint" /\ x.round = s.round
                 /\ x.log_idx = s.kv_size - 1 /\ x.log_hash = top_hash(s.kv_store)
    BY <1>6 DEF FormCheckpoint
  <2>2. Synced(S, x)
    BY <1>6, <2>1, CheckpointJustified DEF FormCheckpoint
  <2>3. Justified(K, x)
    BY <1>2, <2>1, <2>2 DEF Justified
  <2> QED BY <1>3, <2>1, <2>3 DEF Send, SameMode
<1>7. CASE Answer(s, t)
  <2>1. PICK x : Send(s, t, x) /\ x.type \in {"StateReply", "TimeoutMsg"}
    BY <1>7 DEF Answer
  <2>2. Justified(K, x)
    BY <2>1, Unconditional
  <2> QED BY <1>3, <2>1, <2>2 DEF Send, SameMode
<1>8. CASE Append1(s, t)
  <2>1. PICK x : t.effects = s.effects \cup {x} /\ x.type = "SpecReply"
    BY <1>8 DEF Append1
  <2>2. Justified(K, x)
    BY <2>1, Unconditional
  <2> QED BY <1>3, <1>8, <2>1, <2>2 DEF Append1, SameMode
<1>9. CASE Align(s, t)
  <2>1. PICK x : t.effects = s.effects \cup {x} /\ x.type = "StateRequest"
    BY <1>9 DEF Align
  <2>2. Justified(K, x)
    BY <2>1, Unconditional
  <2> QED BY <1>3, <1>9, <2>1, <2>2 DEF Align
<1>10. CASE Recover(s, t)
  <2> DEFINE none == {}
  <2>1. /\ SameSets(s, t) /\ t.round = s.round /\ t.effects = s.effects \cup none
        /\ \A m \in none : Justified(K, m)
    BY <1>10 DEF Recover
  <2> HIDE DEF none
  <2> QED BY <2>1, EffectStep
<1>11. CASE EnterRepair(s, t)
  <2> DEFINE l == OwnLog(s, s.view)
  <2>1. PICK proofs :
          /\ t.effects = s.effects \cup proofs \cup {l}
          /\ \/ proofs = {}
             \/ proofs = {TheProof(s, "ConflictProof")} /\ can_conflict_proof(s)
             \/ proofs = {TheProof(s, "TimeoutProof")} /\ can_timeout_proof(s)
    BY <1>11 DEF EnterRepair
  <2>2. Justified(K, l)
    BY Unconditional DEF OwnLog
  <2>3. l \in K
    BY <2>1
  <2>4. \A p \in proofs : Justified(K, p)
    BY <1>1, <1>2, <2>1, <2>3, ConflictJustified, TimeoutJustified
  <2>5. t.effects = s.effects \cup (proofs \cup {l})
    BY <2>1
  <2>6. \A m \in proofs \cup {l} : Justified(K, m)
    BY <2>2, <2>4
  <2> QED BY <1>11, <2>5, <2>6, EffectStep DEF EnterRepair
<1>12. CASE Propose(s, t)
  <2> DEFINE h == t.proposed_history_hash
  <2>1. h \in Nat
    BY DEF ReplicaState
  <2>2. PICK ty \in {"RepairHistory", "RepairPrepare"} :
          t.effects = s.effects \cup {RepairVote(s, ty, h)}
    BY <1>12 DEF Propose
  <2> DEFINE x == RepairVote(s, ty, h)
  <2>3. x.type = ty
    BY <2>1, <2>2, VoteType
  <2> HIDE DEF x
  <2>4. Justified(K, x)
    BY <2>3, Unconditional
  <2> QED BY <1>3, <1>12, <2>2, <2>4 DEF Propose, x
<1>13. CASE Commit(s, t)
  <2> DEFINE x == RepairVote(s, "RepairCommit", s.proposed_history_hash)
  <2>1. Justified(K, x)
    BY <1>2, <1>13, CommitJustified DEF Commit
  <2> HIDE DEF x
  <2> QED BY <1>3, <1>13, <2>1 DEF Commit, x
<1>14. CASE ChangeView(s, t)
  <2> DEFINE l == OwnLog(s, s.view + 1)
  <2>1. Justified(K, l)
    BY Unconditional DEF OwnLog
  <2> HIDE DEF l
  <2> QED BY <1>3, <1>14, <2>1 DEF ChangeView, l
<1>15. CASE Apply(s, t)
  <2> DEFINE h == s.proposed_history_hash
             d == RepairVote(s, "RepairDone", h)
             reply == [type |-> "CommittedReply", from |-> s.node_id,
                       round |-> s.round, log_idx |-> s.kv_size]
  <2>1. h \in Nat /\ s.round \in Nat
    BY DEF ReplicaState
  <2>2. d.type = "RepairDone" /\ d.round = s.round /\ reply.type = "CommittedReply"
    BY <2>1, VoteType
  <2>3. DoneMessages(s) = {d, reply}
    BY DEF DoneMessages
  <2> HIDE DEF d, reply
  <2>4. \A m \in DoneMessages(s) : Justified(K, m)
    BY <2>2, <2>3, Unconditional
  <2>5. t.effects = s.effects \cup DoneMessages(s) /\ SameSets(s, t)
        /\ t.round = s.round + 1
    BY <1>15 DEF Apply, NextRound
  <2>6. d \in K
    BY <2>3, <2>5
  <2>7. Entered(K, t.round)
    BY <2>1, <2>2, <2>5, <2>6 DEF Entered
  <2> QED BY <2>4, <2>5, <2>7, EffectStep
<1>16. CASE Catchup(s, t)
  <2>1. s.round \in Nat
    BY DEF ReplicaState
  <2> DEFINE none == {}
  <2>2. /\ SameSets(s, t) /\ t.round = s.round + 1 /\ t.effects = s.effects \cup none
        /\ \A m \in none : Justified(K, m)
    BY <1>16 DEF Catchup, NextRound
  <2>3. Entered(K, t.round)
    <3>1. \/ \E d \in S : d.type = "RepairDone" /\ d.round = s.round
          \/ DonesForged(s.round)
      BY <1>16, CatchupJustified DEF Catchup
    <3> QED BY <1>1, <2>1, <2>2, <3>1 DEF Entered
  <2> HIDE DEF none
  <2> QED BY <2>2, <2>3, EffectStep
<1> QED BY <1>4, <1>5, <1>6, <1>7, <1>8, <1>9, <1>10, <1>11, <1>12, <1>13, <1>14,
           <1>15, <1>16 DEF Move, EarlyMove

-----------------------------------------------------------------------------
(* The cluster.                                                            *)

\* A replica has nothing to answer for when it starts.
LEMMA EvidenceInit == Init => EvidenceInv
<1> SUFFICES ASSUME Init PROVE EvidenceInv
  OBVIOUS
<1>1. IInv
  BY InitInv
<1>2. sent = {}
  BY DEF Init
<1>3. Sound(sent)
  BY <1>2 DEF Sound
<1>4. ASSUME NEW r \in Correct PROVE Evidence(rep[r], sent)
  <2> DEFINE s == rep[r]
  <2>1. s = new(r)
    BY DEF Init
  <2>2. s.eta_star = 0 /\ s.effects = {} /\ s.round = 0 /\ Collected(s) = {}
    BY <2>1 DEF new, Collected
  <2> HIDE DEF s
  <2>3. Entered(sent \cup s.effects, 0)
    BY DEF Entered
  <2>4. Evidence(s, sent)
    BY <1>2, <2>2, <2>3, FS_EmptySet DEF Evidence
  <2> QED BY <2>4 DEF s
<1> QED BY <1>1, <1>3, <1>4 DEF EvidenceInv

\* Between two calls the effects are empty; the evidence is what was sent.
LEMMA EvidenceAtRest ==
  ASSUME NEW s, s.effects = {}, NEW S, NEW T \in SUBSET Message, S \subseteq T,
         Evidence(s, S)
  PROVE  Evidence(s, T)
<1>1. Entered(S, s.round) => Entered(T, s.round)
  BY DEF Entered
<1> QED BY <1>1 DEF Evidence

\* Both handlers keep the evidence of the replica that runs them.
LEMMA HandlerEvidence ==
  ASSUME EvidenceInv, NEW r \in Correct, NEW t, Handled(r, t)
  PROVE  Evidence(t, sent)
<1> DEFINE I == {s \in ReplicaState : Evidence(s, sent)}
<1>1. sent \in SUBSET Message /\ Sound(sent)
  BY DEF EvidenceInv, IInv, TypeOK
<1>2. ReplicaInv(r, rep[r], sent) /\ rep[r] \in I
  BY DEF EvidenceInv, IInv, ReplicaInv
<1>3. ASSUME NEW M, Reachable(M),
             NEW a, NEW b, a \in I, ReplicaInv(r, b, sent), Move(a, b, M)
      PROVE  b \in I
  <2>1. b \in ReplicaState
    BY <1>3 DEF ReplicaInv
  <2> QED BY <1>1, <1>3, <2>1, MoveEvidence DEF Reachable
<1> HIDE DEF I
<1>4. t \in I
  BY <1>1, <1>2, <1>3, HandledWalk
<1> QED BY <1>4 DEF I

\* Every step of the cluster keeps the invariant.
LEMMA EvidenceNext == EvidenceInv /\ [Next]_vars => EvidenceInv'
<1> SUFFICES ASSUME EvidenceInv, [Next]_vars PROVE EvidenceInv'
  OBVIOUS
<1>1. IInv /\ IInv'
  BY NextInv DEF EvidenceInv
<1>2. CASE UNCHANGED vars
  <2>1. rep' = rep /\ sent' = sent
    BY <1>2 DEF vars
  <2>2. (\A q \in Correct : Evidence(rep'[q], sent')) /\ Sound(sent')
    BY <2>1 DEF EvidenceInv
  <2> QED BY <1>1, <2>2 DEF EvidenceInv, Evidence, Sound, Justified, Entered,
       DonesForged, Prepared, Prepares, Synced, Syncs, Expired, Contradicted
<1>3. CASE Next
  <2>0. PICK r \in Correct :
          \E t : /\ ReplicaInv(r, rep[r], sent) /\ ReplicaInv(r, t, sent)
                 /\ Execute(r, t) /\ Handled(r, t)
    BY <1>1, <1>3, StepCases
  <2>1. PICK t : /\ ReplicaInv(r, rep[r], sent) /\ ReplicaInv(r, t, sent)
                 /\ Execute(r, t) /\ Handled(r, t)
    BY <2>0
  <2>2. Evidence(t, sent)
    BY <2>1, HandlerEvidence
  <2>3. t \in ReplicaState
    BY <2>1 DEF ReplicaInv
  <2> DEFINE u == rep'[r]
             T == sent'
  <2>4. /\ T = sent \cup t.effects
        /\ \A q \in Correct \ {r} : rep'[q] = rep[q]
        /\ u.effects = {}
        /\ SameSets(t, u) /\ SameMode(t, u)
    BY <1>1, <2>1, <2>3, ExecuteFrame
  <2>5. T \in SUBSET Message
    BY <1>1 DEF IInv, TypeOK
  <2> HIDE DEF u, T
  <2>6. Evidence(u, T)
    BY <2>2, <2>4 DEF Evidence, SameSets, SameMode
  <2>7. ASSUME NEW q \in Correct \ {r} PROVE Evidence(rep'[q], T)
    <3>1. rep[q].effects = {} /\ Evidence(rep[q], sent)
      BY <1>1 DEF EvidenceInv, IInv, TypeOK
    <3> QED BY <2>4, <2>5, <3>1, EvidenceAtRest
  <2>8. \A m \in T : HasSender(m) => m.from \in Correct
    BY <1>1 DEF IInv, T
  <2>9. \A m \in T : Justified(T, m)
    <3>1. \A m \in sent : Justified(sent, m)
      BY DEF EvidenceInv, Sound
    <3>2. \A m \in t.effects : Justified(T, m)
      BY <2>2, <2>4 DEF Evidence
    <3> QED BY <2>4, <2>5, <3>1, <3>2, JustifiedMono
  <2>10. \A q \in Correct : Evidence(rep'[q], T)
    BY <2>6, <2>7 DEF u
  <2>11. Sound(T)
    BY <2>8, <2>9 DEF Sound
  <2> QED BY <1>1, <2>10, <2>11 DEF T, EvidenceInv, Evidence, Sound, Justified, Entered,
       DonesForged, Prepared, Prepares, Synced, Syncs, Expired, Contradicted
<1> QED BY <1>2, <1>3

\* Evidence holds in every reachable state of a cluster of any size.
THEOREM EvidenceInvariant == Spec => []EvidenceInv
BY EvidenceInit, EvidenceNext, PTL DEF Spec

\* A REPAIR-COMMIT of a correct replica rests on REPAIR-PREPAREs of n - f
\* different replicas, although can_repair_commit counts messages.
THEOREM CommitsCertified == Spec => []CommitCertified
<1>1. EvidenceInv => CommitCertified
  <2> SUFFICES ASSUME EvidenceInv, NEW c \in SentOf("RepairCommit")
               PROVE  Cardinality(Senders({m \in Known("RepairPrepare") :
                          /\ m.view = c.view
                          /\ m.round = c.round
                          /\ m.history_hash = c.history_hash})) >= byz_quorum
    BY DEF CommitCertified
  <2>1. {m \in Known("RepairPrepare") :
           /\ m.view = c.view
           /\ m.round = c.round
           /\ m.history_hash = c.history_hash} = Prepares(sent, c)
    BY DEF Known, Prepares
  <2> QED BY <2>1 DEF EvidenceInv, Sound, Justified, Prepared, SentOf
<1> QED BY <1>1, EvidenceInvariant, PTL

\* A TIMEOUT-PROOF of a correct replica means that the checkpoint timer of
\* some correct replica expired: the faulty ones cannot force REPAIR this way.
THEOREM TimeoutProofsGenuine == Spec => []TimeoutProofGenuine
<1>1. EvidenceInv => TimeoutProofGenuine
  BY DEF EvidenceInv, Sound, Justified, Expired, SentOf, TimeoutProofGenuine
<1> QED BY <1>1, EvidenceInvariant, PTL

\* A CONFLICT-PROOF of a correct replica means that some SYNC contradicts a
\* correct replica's log, if p >= f.
THEOREM ConflictProofsGenuine == Spec => []ConflictProofGenuine
<1>1. EvidenceInv => ConflictProofGenuine
  BY DEF EvidenceInv, Sound, Justified, Contradicted, SentOf, Known, ConflictProofGenuine
<1> QED BY <1>1, EvidenceInvariant, PTL

\* A CHECKPOINT of a correct replica rests on n - p SYNCs for its round, index
\* and hash, among which each correct replica counts once (checkpoint.rs:99).
THEOREM CheckpointsBacked == Spec => []CheckpointBacked
<1>1. EvidenceInv => CheckpointBacked
  <2> SUFFICES ASSUME EvidenceInv, NEW c \in SentOf("Checkpoint")
               PROVE  \E M \in SUBSET MatchingSyncs(c) :
                          /\ IsFiniteSet(M)
                          /\ Cardinality(M) >= fast_quorum
                          /\ \A m1, m2 \in M :
                                 m1.from = m2.from /\ m1.from \in Correct => m1 = m2
    BY DEF CheckpointBacked
  <2>1. MatchingSyncs(c) = Syncs(sent, c)
    BY DEF MatchingSyncs, Known, Syncs
  <2>2. Synced(sent, c)
    BY DEF EvidenceInv, Sound, Justified, SentOf
  <2> QED BY <2>1, <2>2 DEF Synced
<1> QED BY <1>1, EvidenceInvariant, PTL

\* A correct replica leaves a round only if some correct replica applied its
\* repair, or faulty ones forged f+1 REPAIR-DONEs of it (repair.rs:336).
THEOREM RoundsBacked == Spec => []RoundBacked
<1>1. EvidenceInv => RoundBacked
  <2> SUFFICES ASSUME EvidenceInv, NEW r \in Correct, rep[r].round > 0
               PROVE  \/ \E d \in SentOf("RepairDone") : d.round = rep[r].round - 1
                      \/ DonesForged(rep[r].round - 1)
    BY DEF RoundBacked
  <2>1. rep[r].effects = {} /\ Evidence(rep[r], sent)
    BY DEF EvidenceInv, IInv, TypeOK
  <2>2. Entered(sent, rep[r].round)
    BY <2>1 DEF Evidence
  <2> QED BY <2>2 DEF Entered, SentOf
<1> QED BY <1>1, EvidenceInvariant, PTL
=============================================================================
