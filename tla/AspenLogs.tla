----------------------------- MODULE AspenLogs ------------------------------
(***************************************************************************)
(* The log of a replica and the LOGs it sends: one LOG per view and round, *)
(* a chained log, and a size that is the size of the store.                *)
(***************************************************************************)
EXTENDS AspenEvidence

OwnLogs(s, S) ==
    {l \in S \cup s.effects : l.type = "LogMsg" /\ l.from = s.node_id}

\* A LOG of the current round means that the replica is in REPAIR and has
\* not gone back to an earlier view.
LogsOnce(s, S) ==
    /\ \A l \in OwnLogs(s, S) :
        /\ l.round <= s.round
        /\ l.round = s.round => s.in_repair /\ l.view <= s.view
    /\ \A l1, l2 \in OwnLogs(s, S) :
        l1.view = l2.view /\ l1.round = l2.round => l1 = l2

\* Synthetic entries below b, a chain from there on.
ChainedFrom(s, b) ==
    /\ b <= s.start_idx + 1 /\ b <= s.kv_size
    /\ \A k \in 0 .. b - 1 :
        s.kv_store[k + 1] = [op_hash |-> k, prev_hash |-> Bytes(k)]
    /\ \A k \in b .. s.kv_size - 1 :
        s.kv_store[k + 1].prev_hash = Link(s.kv_store, k)

Chained(s) ==
    /\ s.kv_size <= Len(s.kv_store)
    /\ \E b \in Nat : ChainedFrom(s, b)

Sized(s, S) ==
    s.kv_size < Len(s.kv_store) =>
        \E d \in S \cup s.effects :
            d.type = "RepairDone" /\ d.from = s.node_id /\ d.history_hash = 0

\* The inductive invariant.
LogInv ==
    /\ EvidenceInv
    /\ \A r \in Correct :
        LogsOnce(rep[r], sent) /\ Chained(rep[r]) /\ Sized(rep[r], sent)

-----------------------------------------------------------------------------
(* The store operations.                                                   *)

\* put writes one entry, at most one position beyond the end.
LEMMA PutStore ==
  ASSUME NEW store \in KvStore, NEW idx \in 0 .. Len(store), NEW e \in KvEntry
  PROVE  LET new_store == put(store, idx, e) IN
         /\ Len(new_store) = IF idx < Len(store) THEN Len(store) ELSE Len(store) + 1
         /\ new_store[idx + 1] = e
         /\ \A k \in 1 .. Len(store) : k # idx + 1 => new_store[k] = store[k]
<1>1. CASE idx < Len(store)
  BY <1>1 DEF put, KvStore
<1>2. CASE idx = Len(store)
  BY <1>2 DEF put, KvStore
<1> QED BY <1>1, <1>2 DEF KvStore

\* rebuild_from_entries leaves as many entries as it is given, the synthetic
\* ones.
LEMMA RebuiltLog ==
  ASSUME NEW n \in Nat
  PROVE  /\ Len(rebuilt(n)) = n
         /\ \A k \in 0 .. n - 1 :
                rebuilt(n)[k + 1] = [op_hash |-> k, prev_hash |-> Bytes(k)]
<1>1. rebuilt(n) \in Seq(KvEntry) /\ DOMAIN rebuilt(n) = 1 .. n
  BY RebuiltType DEF rebuilt, KvStore
<1>2. ASSUME NEW k \in 0 .. n - 1
      PROVE  rebuilt(n)[k + 1] = [op_hash |-> k, prev_hash |-> Bytes(k)]
  <2>1. k + 1 \in 1 .. n /\ (k + 1) - 1 = k
    OBVIOUS
  <2> QED BY <2>1 DEF rebuilt
<1> QED BY <1>1, <1>2

-----------------------------------------------------------------------------
(* One LOG per view and round.                                             *)

\* A move that sends no LOG leaves the replica's LOGs as they are.
LEMMA NoNewLog ==
  ASSUME NEW S, NEW s, NEW t, t.node_id = s.node_id,
         NEW E, t.effects = s.effects \cup E, \A m \in E : m.type # "LogMsg"
  PROVE  OwnLogs(t, S) = OwnLogs(s, S)
BY DEF OwnLogs

\* The LOGs of a replica carry numbers.
LEMMA OwnLogTypes ==
  ASSUME NEW S \in SUBSET Message, NEW s \in ReplicaState, NEW l \in OwnLogs(s, S)
  PROVE  l.view \in Nat /\ l.round \in Nat
<1>1. l \in Message /\ l.type = "LogMsg"
  BY DEF OwnLogs, ReplicaState
<1> QED BY <1>1, MessageKinds DEF LogMsg

\* Every move keeps LogsOnce: a replica sends a LOG only when it enters
\* REPAIR, which it does once a round, or goes to a later view.
LEMMA MoveLogs ==
  ASSUME NEW S \in SUBSET Message, NEW M, NEW s \in ReplicaState,
         s.in_repair <=> s.phase \in RepairPhase,
         NEW t \in ReplicaState, Move(s, t, M), LogsOnce(s, S)
  PROVE  LogsOnce(t, S)
<1> DEFINE L == OwnLogs(s, S)
<1>1. \A l \in L : l.view \in Nat /\ l.round \in Nat
  BY OwnLogTypes
<1>2. s.round \in Nat /\ s.view \in Nat
  BY DEF ReplicaState
<1>3. \A l \in L : l.round <= s.round /\ (l.round = s.round => s.in_repair /\ l.view <= s.view)
  BY DEF LogsOnce
<1>4. \A l1, l2 \in L : l1.view = l2.view /\ l1.round = l2.round => l1 = l2
  BY DEF LogsOnce
<1> HIDE DEF L
<1>6. ASSUME OwnLogs(t, S) = L, t.round = s.round, t.view = s.view,
             t.in_repair = s.in_repair
      PROVE  LogsOnce(t, S)
  BY <1>3, <1>4, <1>6 DEF LogsOnce
<1>7. ASSUME OwnLogs(t, S) = L, t.round = s.round + 1
      PROVE  LogsOnce(t, S)
  BY <1>1, <1>2, <1>3, <1>4, <1>7 DEF LogsOnce
<1>8. ASSUME NEW x, t.node_id = s.node_id, t.effects = s.effects \cup {x},
             x.type # "LogMsg"
      PROVE  OwnLogs(t, S) = L
  <2> DEFINE E == {x}
  <2>1. t.effects = s.effects \cup E /\ \A m \in E : m.type # "LogMsg"
    BY <1>8
  <2> HIDE DEF E
  <2> QED BY <1>8, <2>1, NoNewLog DEF L
<1>9. ASSUME t.node_id = s.node_id, t.effects = s.effects
      PROVE  OwnLogs(t, S) = L
  BY <1>9 DEF OwnLogs, L
<1>10. CASE t = s
  BY <1>10
<1>11. CASE Keep(s, t, M)
  BY <1>6, <1>9, <1>11 DEF Keep, SameMode
<1>12. CASE SendSync(s, t) \/ FormCheckpoint(s, t) \/ Answer(s, t)
  <2>1. PICK x : Send(s, t, x) /\ x.type # "LogMsg"
    BY <1>12 DEF SendSync, FormCheckpoint, Answer
  <2> QED BY <1>6, <1>8, <2>1 DEF Send, SameSets, SameMode
<1>13. CASE Append1(s, t)
  <2>1. PICK x : t.effects = s.effects \cup {x} /\ x.type = "SpecReply"
    BY <1>13 DEF Append1
  <2> QED BY <1>6, <1>8, <1>13, <2>1 DEF Append1, SameSets, SameMode
<1>14. CASE Align(s, t)
  <2>1. PICK x : t.effects = s.effects \cup {x} /\ x.type = "StateRequest"
    BY <1>14 DEF Align
  <2> QED BY <1>6, <1>8, <1>14, <2>1 DEF Align, SameSets
<1>15. CASE Recover(s, t)
  BY <1>6, <1>9, <1>15 DEF Recover, SameSets
<1>16. CASE EnterRepair(s, t)
  <2> DEFINE l == OwnLog(s, s.view)
  <2>1. PICK proofs :
          /\ t.effects = s.effects \cup proofs \cup {l}
          /\ \A p \in proofs : p.type # "LogMsg"
    BY <1>16 DEF EnterRepair, TheProof
  <2>2. l.type = "LogMsg" /\ l.from = s.node_id /\ l.view = s.view /\ l.round = s.round
    BY DEF OwnLog
  <2> HIDE DEF l
  <2>3. t.node_id = s.node_id
    BY <1>16 DEF EnterRepair, SameSets
  <2>4. OwnLogs(t, S) = L \cup {l}
    BY <2>1, <2>2, <2>3 DEF OwnLogs, L
  <2>5. t.round = s.round /\ t.view = s.view /\ t.in_repair /\ ~s.in_repair
    BY <1>16 DEF EnterRepair
  <2>6. \A k \in L : k.round < s.round
    BY <1>1, <1>2, <1>3, <2>5
  <2> QED BY <1>1, <1>2, <1>4, <2>2, <2>5, <2>6, <2>4 DEF LogsOnce
<1>17. CASE Propose(s, t)
  <2> DEFINE h == t.proposed_history_hash
  <2>1. h \in Nat
    BY DEF ReplicaState
  <2>2. PICK x : t.effects = s.effects \cup {x} /\ x.type # "LogMsg"
    BY <1>17, <2>1, VoteType DEF Propose
  <2> QED BY <1>6, <1>8, <1>17, <2>2 DEF Propose, SameSets
<1>18. CASE Commit(s, t)
  <2> DEFINE x == RepairVote(s, "RepairCommit", s.proposed_history_hash)
  <2>1. x.type = "RepairCommit"
    BY DEF RepairVote
  <2> HIDE DEF x
  <2> QED BY <1>6, <1>8, <1>18, <2>1 DEF Commit, SameSets, x
<1>19. CASE ChangeView(s, t)
  <2> DEFINE v == s.view + 1
             l == OwnLog(s, v)
  <2>1. t.effects = s.effects \cup {l}
    BY <1>19 DEF ChangeView
  <2>2. t.round = s.round /\ t.view = v /\ t.in_repair = s.in_repair
        /\ t.node_id = s.node_id /\ s.in_repair
    BY <1>19 DEF ChangeView, SameSets, RepairPhase
  <2>3. l.type = "LogMsg" /\ l.from = s.node_id /\ l.view = v /\ l.round = s.round
    BY DEF OwnLog
  <2> HIDE DEF l
  <2>5. OwnLogs(t, S) = L \cup {l}
    BY <2>1, <2>2, <2>3 DEF OwnLogs, L
  <2>4. \A k \in L : k.round = s.round => k.view < v
    BY <1>1, <1>2, <1>3
  <2> QED BY <1>1, <1>2, <1>3, <1>4, <2>2, <2>3, <2>4, <2>5 DEF LogsOnce
<1>20. CASE Apply(s, t)
  <2> DEFINE E == DoneMessages(s)
  <2>1. \A m \in E : m.type # "LogMsg"
    BY DEF DoneMessages, RepairVote
  <2>2. t.effects = s.effects \cup E /\ t.node_id = s.node_id /\ t.round = s.round + 1
    BY <1>20 DEF Apply, NextRound, SameSets
  <2> HIDE DEF E
  <2> QED BY <1>7, <2>1, <2>2, NoNewLog DEF L
<1>21. CASE Catchup(s, t)
  BY <1>7, <1>9, <1>21 DEF Catchup, NextRound, SameSets
<1> QED BY <1>10, <1>11, <1>12, <1>13, <1>14, <1>15, <1>16, <1>17, <1>18, <1>19,
           <1>20, <1>21 DEF Move, EarlyMove

-----------------------------------------------------------------------------
(* A chained log and the size of the store.                                *)

\* handle_speculate chains the new entry to the one below it.
LEMMA AppendChained ==
  ASSUME NEW s \in ReplicaState, NEW t, Append1(s, t), Chained(s)
  PROVE  /\ Chained(t)
         /\ t.kv_size < Len(t.kv_store) => s.kv_size < Len(s.kv_store)
<1> DEFINE store == s.kv_store
           idx == s.kv_size
           e == [op_hash |-> idx, prev_hash |-> prev_hash(s, idx)]
           new_store == put(store, idx, e)
<1>1. store \in KvStore /\ idx \in Nat /\ s.start_idx \in Nat
  BY DEF ReplicaState
<1>2. Len(store) \in Nat
  BY <1>1 DEF KvStore
<1>3. idx \in 0 .. Len(store)
  BY <1>1, <1>2 DEF Chained
<1>4. prev_hash(s, idx) = Link(store, idx)
  BY <1>1, <1>2, <1>3 DEF prev_hash, hash_at, Link
<1>5. prev_hash(s, idx) \in Hash
  <2>1. ZeroHash \in Hash
    BY DEF ZeroHash, Bytes, Hash
  <2>2. idx > 0 => hash_at(store, idx - 1) \in Hash
    BY <1>1, StoreTypes
  <2> QED BY <2>1, <2>2 DEF prev_hash
<1>6. e \in KvEntry /\ e.prev_hash = Link(store, idx)
  BY <1>1, <1>4, <1>5 DEF KvEntry
<1>7. t.kv_store = new_store /\ t.kv_size = idx + 1 /\ t.start_idx = s.start_idx
  BY DEF Append1
<1> HIDE DEF e
<1>8. /\ Len(new_store) = IF idx < Len(store) THEN Len(store) ELSE Len(store) + 1
      /\ new_store[idx + 1] = e
      /\ \A k \in 1 .. Len(store) : k # idx + 1 => new_store[k] = store[k]
  BY <1>1, <1>3, <1>6, PutStore
<1> HIDE DEF new_store
<1>9. t.kv_size <= Len(t.kv_store)
  BY <1>2, <1>3, <1>7, <1>8
<1>10. PICK b \in Nat : ChainedFrom(s, b)
  BY DEF Chained
<1>11. \A k \in 1 .. idx : new_store[k] = store[k]
  BY <1>1, <1>2, <1>3, <1>8
<1>12. \A k \in 0 .. idx : Link(new_store, k) = Link(store, k)
  BY <1>1, <1>11 DEF Link
<1>13. ASSUME NEW k \in 0 .. b - 1
       PROVE  new_store[k + 1] = [op_hash |-> k, prev_hash |-> Bytes(k)]
  <2>1. k + 1 \in 1 .. idx
    BY <1>1, <1>10 DEF ChainedFrom
  <2> QED BY <1>10, <1>11, <2>1 DEF ChainedFrom
<1>14. ASSUME NEW k \in b .. idx
       PROVE  new_store[k + 1].prev_hash = Link(new_store, k)
  <2>1. k \in 0 .. idx
    BY <1>1, <1>10
  <2>2. CASE k = idx
    BY <1>6, <1>8, <1>12, <2>1, <2>2
  <2>3. CASE k < idx
    <3>1. k + 1 \in 1 .. idx /\ k \in b .. idx - 1
      BY <1>1, <1>10, <2>1, <2>3
    <3>2. store[k + 1].prev_hash = Link(store, k)
      BY <1>10, <3>1 DEF ChainedFrom
    <3> QED BY <1>11, <1>12, <2>1, <3>1, <3>2
  <2> QED BY <1>1, <2>1, <2>2, <2>3
<1>15. b <= t.start_idx + 1 /\ b <= t.kv_size /\ t.kv_size - 1 = idx
  BY <1>1, <1>7, <1>10 DEF ChainedFrom
<1>16. ChainedFrom(t, b)
  BY <1>7, <1>13, <1>14, <1>15 DEF ChainedFrom
<1>17. Chained(t)
  BY <1>9, <1>10, <1>16 DEF Chained
<1> QED BY <1>2, <1>3, <1>7, <1>8, <1>17

\* A log of n synthetic entries is chained, with nothing above them.
LEMMA RebuiltChained ==
  ASSUME NEW t, NEW n \in Nat, t.kv_store = rebuilt(n), t.kv_size = n,
         t.start_idx \in Nat, n <= t.start_idx + 1
  PROVE  Chained(t)
<1>1. ChainedFrom(t, n)
  BY RebuiltLog DEF ChainedFrom
<1> QED BY <1>1, RebuiltLog DEF Chained

\* Every move keeps the log chained.
LEMMA MoveChained ==
  ASSUME NEW M, NEW s \in ReplicaState, NEW t \in ReplicaState, Move(s, t, M),
         Chained(s)
  PROVE  Chained(t)
<1>1. ASSUME SameLog(s, t) PROVE Chained(t)
  BY <1>1 DEF SameLog, Chained, ChainedFrom
<1>2. CASE t = s \/ Keep(s, t, M) \/ SendSync(s, t) \/ FormCheckpoint(s, t) \/ Answer(s, t)
  BY <1>1, <1>2 DEF Keep, SendSync, FormCheckpoint, Answer, Send
<1>3. CASE \/ Align(s, t) \/ EnterRepair(s, t) \/ Propose(s, t) \/ Commit(s, t)
           \/ ChangeView(s, t)
  BY <1>1, <1>3 DEF Align, EnterRepair, Propose, Commit, ChangeView
<1>4. CASE Append1(s, t)
  BY <1>4, AppendChained
<1>5. CASE Recover(s, t)
  <2>1. PICK i \in Nat : /\ t.kv_store = rebuilt(i + 1)
                         /\ t.kv_size = i + 1 /\ t.start_idx = i
    BY <1>5 DEF Recover
  <2> QED BY <2>1, RebuiltChained
<1>6. CASE Apply(s, t)
  <2> DEFINE h == s.proposed_history_hash
  <2>1. h \in Nat /\ Len(s.kv_store) \in Nat
    BY DEF ReplicaState, KvStore
  <2>2. /\ t.kv_store = IF h > 0 THEN rebuilt(h) ELSE s.kv_store
        /\ t.kv_size = h /\ t.start_idx = h
    BY <1>6 DEF Apply
  <2> HIDE DEF h
  <2>3. CASE h > 0
    BY <2>1, <2>2, <2>3, RebuiltChained
  <2>4. CASE h = 0
    <3>1. ChainedFrom(t, 0)
      BY <2>2, <2>4 DEF ChainedFrom
    <3> QED BY <2>1, <2>2, <2>4, <3>1 DEF Chained
  <2> QED BY <2>1, <2>3, <2>4
<1>7. CASE Catchup(s, t)
  <2>1. s.kv_size \in Nat
    BY DEF ReplicaState
  <2>2. t.kv_store = s.kv_store /\ t.kv_size = s.kv_size /\ t.start_idx = s.kv_size
    BY <1>7 DEF Catchup
  <2>3. PICK b \in Nat : ChainedFrom(s, b)
    BY DEF Chained
  <2>4. ChainedFrom(t, b)
    BY <2>1, <2>2, <2>3 DEF ChainedFrom
  <2> QED BY <2>2, <2>4 DEF Chained
<1> QED BY <1>2, <1>3, <1>4, <1>5, <1>6, <1>7 DEF Move, EarlyMove

\* Every move keeps kv_size the size of the store, or below it after an empty
\* history was applied: a rebuild makes them equal, and the DONE that an empty
\* history leaves behind is never unsent.
LEMMA MoveSized ==
  ASSUME NEW S, NEW M, NEW s \in ReplicaState, Chained(s), Sized(s, S),
         NEW t \in ReplicaState, Move(s, t, M)
  PROVE  Sized(t, S)
<1>1. ASSUME t.node_id = s.node_id, s.effects \subseteq t.effects,
             t.kv_size < Len(t.kv_store) => s.kv_size < Len(s.kv_store)
      PROVE  Sized(t, S)
  BY <1>1 DEF Sized
<1>2. CASE \/ t = s \/ Keep(s, t, M) \/ SendSync(s, t) \/ FormCheckpoint(s, t)
           \/ Answer(s, t)
  BY <1>1, <1>2 DEF Keep, SendSync, FormCheckpoint, Answer, Send, SameLog, SameSets
<1>3. CASE \/ Align(s, t) \/ Propose(s, t) \/ Commit(s, t) \/ ChangeView(s, t)
  BY <1>1, <1>3 DEF Align, Propose, Commit, ChangeView, SameLog, SameSets
<1>4. CASE EnterRepair(s, t)
  BY <1>1, <1>4 DEF EnterRepair, SameLog, SameSets
<1>5. CASE Append1(s, t)
  <2>1. t.kv_size < Len(t.kv_store) => s.kv_size < Len(s.kv_store)
    BY <1>5, AppendChained
  <2> QED BY <1>1, <1>5, <2>1 DEF Append1, SameSets
<1>6. CASE Recover(s, t)
  <2>1. PICK i \in Nat : t.kv_store = rebuilt(i + 1) /\ t.kv_size = i + 1
    BY <1>6 DEF Recover
  <2>2. Len(rebuilt(i + 1)) = i + 1
    BY RebuiltLog
  <2> QED BY <2>1, <2>2 DEF Sized
<1>7. CASE Apply(s, t)
  <2> DEFINE h == s.proposed_history_hash
             d == RepairVote(s, "RepairDone", h)
  <2>1. h \in Nat
    BY DEF ReplicaState
  <2>2. t.kv_size = h /\ t.node_id = s.node_id /\ d \in t.effects
        /\ t.kv_store = IF h > 0 THEN rebuilt(h) ELSE s.kv_store
    BY <1>7 DEF Apply, NextRound, SameSets, DoneMessages
  <2>3. d.type = "RepairDone" /\ d.from = s.node_id /\ d.history_hash = h
    BY <2>1, VoteType
  <2> HIDE DEF h, d
  <2>4. CASE h > 0
    <3>1. Len(rebuilt(h)) = h
      BY <2>1, RebuiltLog
    <3> QED BY <2>1, <2>2, <2>4, <3>1 DEF Sized
  <2>5. CASE h = 0
    BY <2>2, <2>3, <2>5 DEF Sized
  <2> QED BY <2>1, <2>4, <2>5
<1>8. CASE Catchup(s, t)
  BY <1>1, <1>8 DEF Catchup, NextRound, SameSets
<1> QED BY <1>2, <1>3, <1>4, <1>5, <1>6, <1>7, <1>8 DEF Move, EarlyMove

-----------------------------------------------------------------------------
(* The cluster.                                                            *)

\* A replica starts with an empty log and no LOG sent.
LEMMA LogsInit == Init => LogInv
<1> SUFFICES ASSUME Init PROVE LogInv
  OBVIOUS
<1>1. EvidenceInv
  BY EvidenceInit
<1>2. sent = {}
  BY DEF Init
<1>3. ASSUME NEW r \in Correct
      PROVE  LogsOnce(rep[r], sent) /\ Chained(rep[r]) /\ Sized(rep[r], sent)
  <2> DEFINE s == rep[r]
  <2>1. s = new(r)
    BY DEF Init
  <2>2. /\ s.kv_store = <<>> /\ s.kv_size = 0 /\ s.start_idx = 0
        /\ s.phase = "Speculative" /\ s.effects = {}
    BY <2>1 DEF new
  <2> HIDE DEF s
  <2>3. OwnLogs(s, sent) = {}
    BY <1>2, <2>2 DEF OwnLogs
  <2>4. LogsOnce(s, sent) /\ Chained(s) /\ Sized(s, sent)
    <3>1. ChainedFrom(s, 0)
      BY <2>2 DEF ChainedFrom
    <3> QED BY <2>2, <2>3, <3>1 DEF LogsOnce, Chained, Sized
  <2> QED BY <2>4 DEF s
<1> QED BY <1>1, <1>3 DEF LogInv

\* Both handlers keep LogInv for the replica that runs them.
LEMMA HandlerLogs ==
  ASSUME LogInv, NEW r \in Correct, NEW t, Handled(r, t)
  PROVE  LogsOnce(t, sent) /\ Chained(t) /\ Sized(t, sent)
<1> DEFINE Good(s) == /\ Evidence(s, sent)
                      /\ LogsOnce(s, sent) /\ Chained(s) /\ Sized(s, sent)
           I == {s \in ReplicaState : Good(s)}
<1>1. sent \in SUBSET Message /\ Sound(sent)
  BY DEF LogInv, EvidenceInv, IInv, TypeOK
<1>2. ReplicaInv(r, rep[r], sent) /\ rep[r] \in I
  BY DEF LogInv, EvidenceInv, IInv, ReplicaInv
<1>3. ASSUME NEW M, Reachable(M),
             NEW a, NEW b, a \in I, ReplicaInv(r, a, sent), ReplicaInv(r, b, sent),
             Move(a, b, M)
      PROVE  b \in I
  <2>1. a \in ReplicaState /\ b \in ReplicaState /\ (a.in_repair <=> a.phase \in RepairPhase)
    BY <1>3 DEF ReplicaInv
  <2>2. Evidence(b, sent)
    BY <1>1, <1>3, <2>1, MoveEvidence DEF Reachable
  <2>3. LogsOnce(b, sent)
    BY <1>1, <1>3, <2>1, MoveLogs
  <2>4. Chained(b) /\ Sized(b, sent)
    BY <1>1, <1>3, <2>1, MoveChained, MoveSized
  <2> QED BY <2>1, <2>2, <2>3, <2>4
<1> HIDE DEF I
<1>4. t \in I
  BY <1>1, <1>2, <1>3, HandledWalk
<1> QED BY <1>4 DEF I

\* Every step of the cluster keeps the invariant.
LEMMA LogsNext == LogInv /\ [Next]_vars => LogInv'
<1> SUFFICES ASSUME LogInv, [Next]_vars PROVE LogInv'
  OBVIOUS
<1>1. EvidenceInv /\ EvidenceInv' /\ IInv /\ IInv'
  BY EvidenceNext, NextInv DEF LogInv, EvidenceInv
<1>2. CASE UNCHANGED vars
  <2>1. rep' = rep /\ sent' = sent
    BY <1>2 DEF vars
  <2>2. \A q \in Correct :
          LogsOnce(rep'[q], sent') /\ Chained(rep'[q]) /\ Sized(rep'[q], sent')
    BY <2>1 DEF LogInv
  <2> QED BY <1>1, <2>2 DEF LogInv, LogsOnce, OwnLogs, Chained, ChainedFrom, Sized
<1>3. CASE Next
  <2>1. PICK r \in Correct :
          \E t : /\ ReplicaInv(r, rep[r], sent) /\ ReplicaInv(r, t, sent)
                 /\ Execute(r, t) /\ Handled(r, t)
    BY <1>1, <1>3, StepCases
  <2>2. PICK t : /\ ReplicaInv(r, t, sent) /\ Execute(r, t) /\ Handled(r, t)
    BY <2>1
  <2>3. LogsOnce(t, sent) /\ Chained(t) /\ Sized(t, sent)
    BY <2>2, HandlerLogs
  <2>4. t \in ReplicaState /\ t.node_id = r /\ \A m \in t.effects : HasSender(m) => m.from = r
    BY <2>2 DEF ReplicaInv
  <2> DEFINE u == rep'[r]
             T == sent'
  <2>5. /\ T = sent \cup t.effects
        /\ \A q \in Correct \ {r} : rep'[q] = rep[q]
        /\ u.effects = {}
        /\ SameSets(t, u) /\ SameMode(t, u) /\ SameLog(t, u)
    BY <1>1, <2>2, <2>4, ExecuteFrame
  <2> HIDE DEF u, T
  <2>6. LogsOnce(u, T)
    <3>1. OwnLogs(u, T) = OwnLogs(t, sent)
      BY <2>5 DEF OwnLogs, SameSets
    <3> QED BY <2>3, <2>5, <3>1 DEF LogsOnce, SameMode
  <2>7. Chained(u) /\ Sized(u, T)
    BY <2>3, <2>5 DEF Chained, ChainedFrom, Sized, SameLog, SameSets
  <2>8. ASSUME NEW q \in Correct \ {r}
        PROVE  LogsOnce(rep'[q], T) /\ Chained(rep'[q]) /\ Sized(rep'[q], T)
    <3>1. rep'[q] = rep[q]
      BY <2>5
    <3>2. LogsOnce(rep[q], sent) /\ Chained(rep[q]) /\ Sized(rep[q], sent)
          /\ rep[q].node_id = q
      BY <1>1 DEF LogInv, IInv, ReplicaInv
    <3>3. OwnLogs(rep[q], T) = OwnLogs(rep[q], sent)
      BY <2>4, <2>5, <3>2 DEF OwnLogs, HasSender
    <3>4. Sized(rep[q], T)
      BY <2>5, <3>2 DEF Sized
    <3> QED BY <3>1, <3>2, <3>3, <3>4 DEF LogsOnce
  <2>9. \A q \in Correct : LogsOnce(rep'[q], T) /\ Chained(rep'[q]) /\ Sized(rep'[q], T)
    BY <2>6, <2>7, <2>8 DEF u
  <2> QED BY <1>1, <2>9 DEF T, LogInv, LogsOnce, OwnLogs, Chained, ChainedFrom, Sized
<1> QED BY <1>2, <1>3

\* The LOG invariant holds in every reachable state of a cluster of any size.
THEOREM LogInvariant == Spec => []LogInv
<1>1. Init => LogInv
  BY LogsInit
<1>2. LogInv /\ [Next]_vars => LogInv'
  BY LogsNext
<1> QED BY <1>1, <1>2, PTL DEF Spec

\* No correct replica sends two LOGs for one view and round, though it may
\* enter REPAIR on a proof and change views by timer (repair_entry.rs,
\* repair.rs).
THEOREM LogsSentOnce == Spec => []LogOnce
<1>1. LogInv => LogOnce
  <2> SUFFICES ASSUME LogInv, NEW l1 \in SentOf("LogMsg"), NEW l2 \in SentOf("LogMsg"),
                      l1.from = l2.from, l1.view = l2.view, l1.round = l2.round
               PROVE  l1 = l2
    BY DEF LogOnce
  <2> DEFINE r == l1.from
  <2>1. r \in Correct
    BY DEF LogInv, EvidenceInv, Sound, SentOf, HasSender
  <2>2. rep[r].node_id = r /\ LogsOnce(rep[r], sent)
    BY <2>1 DEF LogInv, EvidenceInv, IInv, ReplicaInv
  <2> QED BY <2>2 DEF LogsOnce, OwnLogs, SentOf
<1> QED BY <1>1, LogInvariant, PTL

\* The log of a correct replica is a run of synthetic entries and a chain on
\* top of it (state.rs:14), after any recovery, repair and catch-up.
THEOREM LogsChained == Spec => []LogChained
<1>1. LogInv => LogChained
  <2> SUFFICES ASSUME LogInv, NEW r \in Correct
               PROVE  \E b \in 0 .. rep[r].start_idx + 1 :
                        /\ b <= rep[r].kv_size
                        /\ \A k \in 0 .. b - 1 :
                            rep[r].kv_store[k + 1] =
                                [op_hash |-> k, prev_hash |-> Bytes(k)]
                        /\ \A k \in b .. rep[r].kv_size - 1 :
                            rep[r].kv_store[k + 1].prev_hash = Link(rep[r].kv_store, k)
    BY DEF LogChained
  <2>1. rep[r] \in ReplicaState
    BY DEF LogInv, EvidenceInv, IInv, ReplicaInv
  <2>2. PICK b \in Nat : ChainedFrom(rep[r], b)
    BY DEF LogInv, Chained
  <2>3. b \in 0 .. rep[r].start_idx + 1
    BY <2>1, <2>2 DEF ChainedFrom, ReplicaState
  <2> QED BY <2>2, <2>3 DEF ChainedFrom
<1> QED BY <1>1, LogInvariant, PTL

\* kv_size is the size of the store (state.rs:75), and less only if the replica
\* itself has applied an empty history (repair.rs:260).
THEOREM SizesMatchStores == Spec => []SizeMatchesStore
<1>1. LogInv => SizeMatchesStore
  <2> SUFFICES ASSUME LogInv, NEW r \in Correct
               PROVE  \/ rep[r].kv_size = Len(rep[r].kv_store)
                      \/ /\ rep[r].kv_size < Len(rep[r].kv_store)
                         /\ \E d \in SentOf("RepairDone") :
                                d.from = r /\ d.history_hash = 0
    BY DEF SizeMatchesStore
  <2> DEFINE s == rep[r]
  <2>1. s \in ReplicaState /\ s.node_id = r /\ s.effects = {}
    BY DEF LogInv, EvidenceInv, IInv, TypeOK, ReplicaInv
  <2>2. Chained(s) /\ Sized(s, sent)
    BY DEF LogInv
  <2> HIDE DEF s
  <2>3. s.kv_size \in Nat /\ Len(s.kv_store) \in Nat
    BY <2>1 DEF ReplicaState, KvStore
  <2>4. s.kv_size <= Len(s.kv_store)
    BY <2>2 DEF Chained
  <2>5. s.kv_size < Len(s.kv_store) =>
          \E d \in SentOf("RepairDone") : d.from = r /\ d.history_hash = 0
    BY <2>1, <2>2 DEF Sized, SentOf
  <2> QED BY <2>3, <2>4, <2>5 DEF s
<1> QED BY <1>1, LogInvariant, PTL
=============================================================================
