---------------------------- MODULE ServiceOrder ----------------------------
(***************************************************************************)
(* Every replica handles the requests in the order of the broadcast, and   *)
(* those of one client in the order of the client: BroadcastOrder and      *)
(* ClientOrder, for any number of clients, tasks, requests and slots.      *)
(***************************************************************************)
EXTENDS ServiceCluster, FiniteSetTheorems

-----------------------------------------------------------------------------
(* Ranks: p is the Rank(D, p)-th of the positions D.                       *)

Rank(D, p) == Cardinality({x \in D : x <= p})

\* Ranks are numbers up to the number of positions.
LEMMA RankType ==
  ASSUME NEW D \in SUBSET Nat, IsFiniteSet(D), NEW p
  PROVE  /\ IsFiniteSet({x \in D : x <= p})
         /\ Rank(D, p) \in Nat /\ Cardinality(D) \in Nat
         /\ Rank(D, p) <= Cardinality(D)
BY FS_Subset, FS_CardinalityType DEF Rank

\* A later position has a greater rank.
LEMMA RankGrows ==
  ASSUME NEW D \in SUBSET Nat, IsFiniteSet(D), NEW p \in D, NEW q \in D, p < q
  PROVE  Rank(D, p) < Rank(D, q)
<1> DEFINE A == {x \in D : x <= p}
           B == {x \in D : x <= q}
<1>1. A \subseteq B /\ A # B
  <2>1. q \in B /\ q \notin A
    <3>1. p \in Nat /\ q \in Nat
      OBVIOUS
    <3>2. q <= q /\ ~(q <= p)
      BY <3>1
    <3> QED BY <3>2
  <2>2. A \subseteq B
    <3>1. ASSUME NEW x \in D, x <= p PROVE x <= q
      <4>1. x \in Nat /\ p \in Nat /\ q \in Nat
        OBVIOUS
      <4> QED BY <3>1, <4>1
    <3> QED BY <3>1
  <2> QED BY <2>1, <2>2
<1>2. IsFiniteSet(B)
  BY RankType
<1>3. Cardinality(A) <= Cardinality(B) /\ Cardinality(A) # Cardinality(B)
  <2> HIDE DEF A, B
  <2> QED BY <1>1, <1>2, FS_Subset
<1>4. Cardinality(A) \in Nat /\ Cardinality(B) \in Nat
  BY RankType DEF Rank
<1> QED BY <1>3, <1>4 DEF Rank

\* Positions are ordered as their ranks are.
LEMMA RankOrder ==
  ASSUME NEW D \in SUBSET Nat, IsFiniteSet(D), NEW p \in D, NEW q \in D
  PROVE  /\ p < q <=> Rank(D, p) < Rank(D, q)
         /\ Rank(D, p) = Rank(D, q) => p = q
<1>1. Rank(D, p) \in Nat /\ Rank(D, q) \in Nat
  BY RankType
<1>2. p < q \/ q < p \/ p = q
  OBVIOUS
<1> QED BY <1>1, <1>2, RankGrows

\* A position behind all others has the next rank and changes no other.
LEMMA RankAdd ==
  ASSUME NEW D \in SUBSET Nat, IsFiniteSet(D), NEW y \in Nat, \A x \in D : x < y
  PROVE  /\ IsFiniteSet(D \cup {y})
         /\ Cardinality(D \cup {y}) = Cardinality(D) + 1
         /\ Rank(D \cup {y}, y) = Cardinality(D) + 1
         /\ \A p \in D : Rank(D \cup {y}, p) = Rank(D, p)
<1>1. y \notin D
  OBVIOUS
<1>2. /\ IsFiniteSet(D \cup {y})
      /\ Cardinality(D \cup {y}) = Cardinality(D) + 1
  BY <1>1, FS_AddElement
<1>3. {x \in D \cup {y} : x <= y} = D \cup {y}
  <2>1. \A x \in D \cup {y} : x \in Nat /\ (x < y \/ x = y)
    OBVIOUS
  <2>2. \A x \in D \cup {y} : x <= y
    BY <2>1
  <2> QED BY <2>2
<1>4. ASSUME NEW p \in D
      PROVE  {x \in D \cup {y} : x <= p} = {x \in D : x <= p}
  OBVIOUS
<1> QED BY <1>2, <1>3, <1>4 DEF Rank

-----------------------------------------------------------------------------
(* The pipe of one replica, as a matter of data: D are the positions of ch *)
(* that it received, Q what waits for its loop, n how many requests it has *)
(* handled, h which ones.                                                  *)

\* The requests that wait are received ones, in order, and all received ones
\* after the first n are among them.
Pipe(D, Q, n, ch) ==
    /\ \A k \in 1 .. Len(Q) : Q[k].type = "Speculate" =>
        \E p \in D : Q[k] = ch[p] /\ Rank(D, p) > n
    /\ \A j, k \in 1 .. Len(Q) : \A p, q \in D :
        Q[j] = ch[p] /\ Q[k] = ch[q] /\ j < k => p < q
    /\ \A l \in n + 1 .. Cardinality(D) :
        \E k \in 1 .. Len(Q) : \E p \in D : Q[k] = ch[p] /\ Rank(D, p) = l

\* The j-th request handled is the j-th received.
InRank(D, h, ch) ==
    \A j \in 1 .. Len(h) : \E p \in D : h[j] = ch[p] /\ j = Rank(D, p)

\* The requests at the positions D, each broadcast once.
Positions(D, ch) ==
    /\ D \in SUBSET Nat /\ IsFiniteSet(D)
    /\ \A p \in D : ch[p].type = "Speculate"
    /\ \A p, q \in D : ch[p] = ch[q] => p = q

\* A message of a peer, or an event, queued behind the rest.
LEMMA PipeOther ==
  ASSUME NEW D, NEW S, NEW Q \in Seq(S), NEW n, NEW ch, NEW i \in S,
         Positions(D, ch), Pipe(D, Q, n, ch), i.type # "Speculate"
  PROVE  Pipe(D, Append(Q, i), n, ch)
<1>1. /\ Len(Append(Q, i)) = Len(Q) + 1 /\ Len(Q) \in Nat
      /\ \A k \in 1 .. Len(Q) : Append(Q, i)[k] = Q[k]
      /\ Append(Q, i)[Len(Q) + 1] = i
  OBVIOUS
<1> DEFINE R == Append(Q, i)
<1> HIDE DEF R
<1>2. \A k \in 1 .. Len(R) : (k \in 1 .. Len(Q) /\ R[k] = Q[k]) \/ R[k] = i
  BY <1>1 DEF R
<1>3. \A k \in 1 .. Len(Q) : k \in 1 .. Len(R) /\ R[k] = Q[k]
  BY <1>1 DEF R
<1>4. \A p \in D : ch[p] # i
  BY DEF Positions
<1>5. Pipe(D, R, n, ch)
  BY <1>2, <1>3, <1>4 DEF Pipe
<1> QED BY <1>5 DEF R

\* The request at a new position, queued behind the rest.
LEMMA PipePush ==
  ASSUME NEW D, NEW S, NEW Q \in Seq(S), NEW n \in Nat, NEW ch, NEW y \in Nat,
         Positions(D, ch), Pipe(D, Q, n, ch), n <= Cardinality(D),
         \A x \in D : x < y, Positions(D \cup {y}, ch), ch[y] \in S
  PROVE  Pipe(D \cup {y}, Append(Q, ch[y]), n, ch)
<1> DEFINE R == Append(Q, ch[y])
           E == D \cup {y}
<1>1. /\ Len(R) = Len(Q) + 1 /\ Len(Q) \in Nat
      /\ \A k \in 1 .. Len(Q) : R[k] = Q[k]
      /\ R[Len(Q) + 1] = ch[y]
  OBVIOUS
<1>2. /\ D \in SUBSET Nat /\ IsFiniteSet(D) /\ E \in SUBSET Nat
      /\ Cardinality(D) \in Nat
      /\ Cardinality(E) = Cardinality(D) + 1
      /\ Rank(E, y) = Cardinality(D) + 1
      /\ \A p \in D : Rank(E, p) = Rank(D, p)
  BY RankAdd, FS_CardinalityType DEF Positions
<1>3. \A p \in D : p # y /\ p \in Nat
  BY <1>2
<1>4. \A k \in 1 .. Len(Q) : k \in 1 .. Len(R) /\ R[k] = Q[k] /\ k < Len(R)
  BY <1>1
<1>5. \A k \in 1 .. Len(R) : k \in 1 .. Len(Q) \/ (k = Len(R) /\ R[k] = ch[y])
  BY <1>1
<1>6. \A p, q \in E : ch[p] = ch[q] => p = q
  BY DEF Positions
<1>7. Len(R) \in 1 .. Len(R) /\ R[Len(R)] = ch[y]
  BY <1>1
<1> HIDE DEF R, E
<1>8. \A k \in 1 .. Len(Q) : Q[k] # ch[y]
  <2> SUFFICES ASSUME NEW k \in 1 .. Len(Q), Q[k] = ch[y] PROVE FALSE
    OBVIOUS
  <2>1. ch[y].type = "Speculate"
    BY DEF Positions
  <2>2. PICK p \in D : Q[k] = ch[p]
    BY <2>1 DEF Pipe
  <2> QED BY <1>3, <1>6, <2>2 DEF E
<1>9. ASSUME NEW k \in 1 .. Len(R), R[k].type = "Speculate"
      PROVE  \E p \in E : R[k] = ch[p] /\ Rank(E, p) > n
  <2>1. CASE k \in 1 .. Len(Q)
    <3>1. PICK p \in D : Q[k] = ch[p] /\ Rank(D, p) > n
      BY <1>4, <1>9, <2>1 DEF Pipe
    <3> QED BY <1>2, <1>4, <2>1, <3>1 DEF E
  <2>2. CASE R[k] = ch[y]
    BY <1>2, <2>2 DEF E
  <2> QED BY <1>5, <2>1, <2>2
<1>10. ASSUME NEW j \in 1 .. Len(R), NEW k \in 1 .. Len(R), NEW p \in E, NEW q \in E,
              R[j] = ch[p], R[k] = ch[q], j < k
       PROVE  p < q
  <2>1. j \in 1 .. Len(Q)
    BY <1>1, <1>10 DEF R
  <2>2. Q[j] = ch[p] /\ p \in D
    BY <1>4, <1>8, <1>10, <2>1 DEF E
  <2>3. CASE k \in 1 .. Len(Q)
    <3>1. Q[k] = ch[q] /\ q \in D
      BY <1>4, <1>8, <1>10, <2>3 DEF E
    <3> QED BY <1>10, <2>1, <2>2, <2>3, <3>1 DEF Pipe
  <2>4. CASE R[k] = ch[y]
    <3>1. q = y
      BY <1>6, <1>10, <2>4 DEF E
    <3> QED BY <2>2, <3>1
  <2> QED BY <1>5, <2>3, <2>4
<1>11. ASSUME NEW l \in n + 1 .. Cardinality(E)
       PROVE  \E k \in 1 .. Len(R) : \E p \in E : R[k] = ch[p] /\ Rank(E, p) = l
  <2>1. CASE l = Cardinality(E)
    BY <1>2, <1>7, <2>1 DEF E
  <2>2. CASE l # Cardinality(E)
    <3>1. l \in n + 1 .. Cardinality(D)
      BY <1>2, <2>2
    <3>2. PICK k \in 1 .. Len(Q) : \E p \in D : Q[k] = ch[p] /\ Rank(D, p) = l
      BY <3>1 DEF Pipe
    <3>3. PICK p \in D : Q[k] = ch[p] /\ Rank(D, p) = l
      BY <3>2
    <3> QED BY <1>2, <1>4, <3>3 DEF E
  <2> QED BY <2>1, <2>2
<1>12. Pipe(E, R, n, ch)
  BY <1>9, <1>10, <1>11 DEF Pipe
<1> QED BY <1>12 DEF E, R

\* The loop takes something other than a request.
LEMMA PipeSkip ==
  ASSUME NEW D, NEW S, NEW Q \in Seq(S), NEW n, NEW ch, Q # <<>>,
         Positions(D, ch), Pipe(D, Q, n, ch), Q[1].type # "Speculate"
  PROVE  Pipe(D, Tail(Q), n, ch)
<1> DEFINE R == Tail(Q)
<1>1. /\ Len(R) = Len(Q) - 1 /\ Len(Q) \in Nat
      /\ \A k \in 1 .. Len(R) : R[k] = Q[k + 1]
  OBVIOUS
<1> HIDE DEF R
<1>2. \A k \in 1 .. Len(R) : k + 1 \in 1 .. Len(Q) /\ R[k] = Q[k + 1]
  BY <1>1
<1>3. ASSUME NEW k \in 1 .. Len(R), R[k].type = "Speculate"
      PROVE  \E p \in D : R[k] = ch[p] /\ Rank(D, p) > n
  BY <1>2, <1>3 DEF Pipe
<1>4. ASSUME NEW j \in 1 .. Len(R), NEW k \in 1 .. Len(R), NEW p \in D, NEW q \in D,
             R[j] = ch[p], R[k] = ch[q], j < k
      PROVE  p < q
  <2>1. j + 1 < k + 1
    BY <1>4
  <2> QED BY <1>2, <1>4, <2>1 DEF Pipe
<1>5. ASSUME NEW l \in n + 1 .. Cardinality(D)
      PROVE  \E k \in 1 .. Len(R) : \E p \in D : R[k] = ch[p] /\ Rank(D, p) = l
  <2>1. PICK k \in 1 .. Len(Q) : \E p \in D : Q[k] = ch[p] /\ Rank(D, p) = l
    BY DEF Pipe
  <2>2. k # 1
    BY <2>1 DEF Positions
  <2>3. k - 1 \in 1 .. Len(R) /\ R[k - 1] = Q[k]
    BY <1>1, <2>2
  <2> QED BY <2>1, <2>3
<1>6. Pipe(D, R, n, ch)
  BY <1>3, <1>4, <1>5 DEF Pipe
<1> QED BY <1>6 DEF R

\* The loop takes a request: it is the next in rank.
LEMMA PipePop ==
  ASSUME NEW D, NEW S, NEW Q \in Seq(S), NEW n \in Nat, NEW ch, Q # <<>>,
         Positions(D, ch), Pipe(D, Q, n, ch), Q[1].type = "Speculate"
  PROVE  /\ \E p \in D : Q[1] = ch[p] /\ Rank(D, p) = n + 1
         /\ Pipe(D, Tail(Q), n + 1, ch)
<1> DEFINE R == Tail(Q)
<1>1. /\ Len(R) = Len(Q) - 1 /\ Len(Q) \in Nat /\ 1 \in 1 .. Len(Q)
      /\ \A k \in 1 .. Len(R) : R[k] = Q[k + 1]
  OBVIOUS
<1> HIDE DEF R
<1>2. \A k \in 1 .. Len(R) : k + 1 \in 1 .. Len(Q) /\ 1 < k + 1 /\ R[k] = Q[k + 1]
  BY <1>1
<1>3. D \in SUBSET Nat /\ IsFiniteSet(D) /\ Cardinality(D) \in Nat
  BY FS_CardinalityType DEF Positions
<1>4. \A p \in D : Rank(D, p) \in Nat /\ Rank(D, p) <= Cardinality(D)
  BY <1>3, RankType
<1>5. PICK p \in D : Q[1] = ch[p] /\ Rank(D, p) > n
  BY <1>1 DEF Pipe
<1>6. ASSUME NEW k \in 1 .. Len(Q), NEW q \in D, Q[k] = ch[q], k # 1
      PROVE  p < q /\ Rank(D, p) < Rank(D, q)
  <2>1. 1 < k
    BY <1>6
  <2>2. p < q
    BY <1>1, <1>5, <1>6, <2>1 DEF Pipe
  <2> QED BY <1>3, <2>2, RankGrows
<1>7. Rank(D, p) = n + 1
  <2>1. n + 1 \in n + 1 .. Cardinality(D)
    BY <1>3, <1>4, <1>5
  <2>2. PICK k \in 1 .. Len(Q) : \E q \in D : Q[k] = ch[q] /\ Rank(D, q) = n + 1
    BY <2>1 DEF Pipe
  <2>3. PICK q \in D : Q[k] = ch[q] /\ Rank(D, q) = n + 1
    BY <2>2
  <2>4. CASE k = 1
    BY <1>5, <2>3, <2>4 DEF Positions
  <2>5. CASE k # 1
    <3>1. Rank(D, p) < n + 1
      BY <1>6, <2>3, <2>5
    <3> QED BY <1>4, <1>5, <3>1
  <2> QED BY <2>4, <2>5
<1>8. ASSUME NEW k \in 1 .. Len(R), R[k].type = "Speculate"
      PROVE  \E q \in D : R[k] = ch[q] /\ Rank(D, q) > n + 1
  <2>1. k + 1 \in 1 .. Len(Q) /\ k + 1 # 1 /\ R[k] = Q[k + 1]
    BY <1>2
  <2>2. PICK q \in D : Q[k + 1] = ch[q]
    BY <1>8, <2>1 DEF Pipe
  <2>3. Rank(D, p) < Rank(D, q)
    BY <1>6, <2>1, <2>2
  <2> QED BY <1>4, <1>7, <2>1, <2>2, <2>3
<1>9. ASSUME NEW j \in 1 .. Len(R), NEW k \in 1 .. Len(R), NEW a \in D, NEW b \in D,
             R[j] = ch[a], R[k] = ch[b], j < k
      PROVE  a < b
  <2>1. j + 1 < k + 1
    BY <1>9
  <2> QED BY <1>2, <1>9, <2>1 DEF Pipe
<1>10. ASSUME NEW l \in n + 1 + 1 .. Cardinality(D)
       PROVE  \E k \in 1 .. Len(R) : \E q \in D : R[k] = ch[q] /\ Rank(D, q) = l
  <2>1. l \in n + 1 .. Cardinality(D) /\ l # n + 1
    BY <1>3
  <2>2. PICK k \in 1 .. Len(Q) : \E q \in D : Q[k] = ch[q] /\ Rank(D, q) = l
    BY <2>1 DEF Pipe
  <2>3. k # 1
    <3>1. SUFFICES ASSUME k = 1 PROVE FALSE
      OBVIOUS
    <3>2. PICK q \in D : Q[1] = ch[q] /\ Rank(D, q) = l
      BY <2>2, <3>1
    <3> QED BY <1>5, <1>7, <2>1, <3>2 DEF Positions
  <2>4. k - 1 \in 1 .. Len(R) /\ R[k - 1] = Q[k]
    BY <1>1, <2>3
  <2> QED BY <2>2, <2>4
<1>11. Pipe(D, R, n + 1, ch)
  BY <1>8, <1>9, <1>10 DEF Pipe
<1> QED BY <1>5, <1>7, <1>11 DEF R

\* Broadcasts behind the positions D do not matter to them.
LEMMA PipeGrows ==
  ASSUME NEW D, NEW Q, NEW n, NEW h, NEW ch, NEW dh, \A p \in D : dh[p] = ch[p]
  PROVE  /\ Pipe(D, Q, n, ch) => Pipe(D, Q, n, dh)
         /\ InRank(D, h, ch) => InRank(D, h, dh)
BY DEF Pipe, InRank

-----------------------------------------------------------------------------
(* No replica sends a request: only the sequencer does.                    *)

\* The effects of t are those of s and messages other than SPECULATE.
SendsNoRequest(s, t) ==
    /\ "effects" \in DOMAIN t
    /\ \A m \in t.effects : m \in s.effects \/ m.type # "Speculate"

LEMMA NoRequestTransitive ==
  ASSUME NEW s, NEW t, NEW u, SendsNoRequest(s, t), SendsNoRequest(t, u)
  PROVE  SendsNoRequest(s, u)
BY DEF SendsNoRequest

\* fast_path.rs and checkpoint.rs.
LEMMA FastPathSends ==
  ASSUME NEW s, NEW m, "effects" \in DOMAIN s
  PROVE  /\ SendsNoRequest(s, on_receive_speculate(s, m))
         /\ SendsNoRequest(s, handle_send_sync(s))
         /\ SendsNoRequest(s, send_sync_threshold(s))
         /\ SendsNoRequest(s, on_receive_sync(s, m))
<1>1. SendsNoRequest(s, on_receive_speculate(s, m))
  BY DEF SendsNoRequest, on_receive_speculate, handle_speculate
<1>2. SendsNoRequest(s, handle_send_sync(s))
  BY DEF SendsNoRequest, handle_send_sync
<1>3. SendsNoRequest(s, send_sync_threshold(s))
  BY <1>2 DEF SendsNoRequest, send_sync_threshold
<1>4. SendsNoRequest(s, on_receive_sync(s, m))
  BY DEF SendsNoRequest, on_receive_sync, store_sync, try_form_checkpoint,
     handle_form_checkpoint
<1> QED BY <1>1, <1>2, <1>3, <1>4

\* alignment.rs.
LEMMA AlignmentSends ==
  ASSUME NEW s, NEW m, "effects" \in DOMAIN s
  PROVE  /\ SendsNoRequest(s, on_receive_checkpoint(s, m))
         /\ SendsNoRequest(s, on_state_request(s, m))
         /\ SendsNoRequest(s, on_state_reply(s, m))
<1>1. SendsNoRequest(s, on_receive_checkpoint(s, m))
  BY DEF SendsNoRequest, on_receive_checkpoint, store_checkpoint, try_enter_align,
     handle_enter_align
<1>2. SendsNoRequest(s, on_state_request(s, m))
  BY DEF SendsNoRequest, on_state_request
<1>3. SendsNoRequest(s, on_state_reply(s, m))
  BY DEF SendsNoRequest, on_state_reply, handle_state_reply
<1> QED BY <1>1, <1>2, <1>3

\* repair_entry.rs.
LEMMA RepairEntrySends ==
  ASSUME NEW s, NEW m, NEW i, "effects" \in DOMAIN s
  PROVE  /\ SendsNoRequest(s, try_conflict_proof(s))
         /\ SendsNoRequest(s, on_receive_timeout(s, m))
         /\ SendsNoRequest(s, on_receive_proof(s, m))
         /\ SendsNoRequest(s, handle_chkpt_timeout(s, i))
<1>1. SendsNoRequest(s, try_conflict_proof(s))
  BY DEF SendsNoRequest, try_conflict_proof, handle_conflict_proof, start_repair, OwnLog
<1>2. SendsNoRequest(s, on_receive_timeout(s, m))
  BY DEF SendsNoRequest, on_receive_timeout, store_timeout, try_timeout_proof,
     handle_timeout_proof, start_repair, OwnLog
<1>3. SendsNoRequest(s, on_receive_proof(s, m))
  BY DEF SendsNoRequest, on_receive_proof, handle_enter_repair, start_repair, OwnLog
<1>4. SendsNoRequest(s, handle_chkpt_timeout(s, i))
  BY DEF SendsNoRequest, handle_chkpt_timeout
<1> QED BY <1>1, <1>2, <1>3, <1>4

\* repair.rs.
LEMMA RepairSends ==
  ASSUME NEW s, NEW m, NEW pick, "effects" \in DOMAIN s
  PROVE  /\ SendsNoRequest(s, on_receive_log_msg(s, m))
         /\ SendsNoRequest(s, on_receive_repair_history(s, m, pick))
         /\ SendsNoRequest(s, on_receive_repair_prepare(s, m))
         /\ SendsNoRequest(s, on_receive_repair_commit(s, m))
         /\ SendsNoRequest(s, on_receive_repair_done(s, m))
         /\ SendsNoRequest(s, handle_view_change(s))
<1>1. SendsNoRequest(s, on_receive_log_msg(s, m))
  BY DEF SendsNoRequest, on_receive_log_msg, store_log_msg, try_broadcast_history,
     handle_broadcast_history, RepairVote
<1>2. SendsNoRequest(s, on_receive_repair_history(s, m, pick))
  BY DEF SendsNoRequest, on_receive_repair_history, store_repair_history,
     try_repair_prepare, handle_repair_prepare, RepairVote
<1>3. SendsNoRequest(s, on_receive_repair_prepare(s, m))
  BY DEF SendsNoRequest, on_receive_repair_prepare, store_repair_prepare,
     try_repair_commit, handle_repair_commit, RepairVote
<1>4. SendsNoRequest(s, on_receive_repair_commit(s, m))
  BY DEF SendsNoRequest, on_receive_repair_commit, store_repair_commit,
     try_apply_repair, handle_apply_repair, DoneMessages, RepairVote
<1>5. SendsNoRequest(s, on_receive_repair_done(s, m))
  BY DEF SendsNoRequest, on_receive_repair_done, store_repair_done,
     try_repair_done_catchup, handle_repair_done_catchup
<1>6. SendsNoRequest(s, handle_view_change(s))
  BY DEF SendsNoRequest, handle_view_change, OwnLog
<1> QED BY <1>1, <1>2, <1>3, <1>4, <1>5, <1>6

\* A whole call, of process_message or of handle_event.
LEMMA HandledSends ==
  ASSUME NEW s, NEW i, NEW pick, "effects" \in DOMAIN s
  PROVE  SendsNoRequest(s, Handled(s, i, pick))
<1>1. \A t, u : "effects" \in DOMAIN t /\ SendsNoRequest(s, t) /\ SendsNoRequest(t, u)
                  => SendsNoRequest(s, u) /\ "effects" \in DOMAIN u
  BY NoRequestTransitive DEF SendsNoRequest
<1>2. SendsNoRequest(s, process_message(s, i, pick))
  <2> DEFINE s1 == on_receive_speculate(s, i)
             s2 == send_sync_threshold(s1)
             s3 == on_receive_sync(s2, i)
             s4 == on_receive_checkpoint(s3, i)
             s5 == try_conflict_proof(s4)
             s6 == on_receive_timeout(s5, i)
             s7 == on_receive_proof(s6, i)
             s8 == on_state_request(s7, i)
             s9 == on_state_reply(s8, i)
             t1 == on_receive_log_msg(s9, i)
             t2 == on_receive_repair_history(t1, i, pick)
             t3 == on_receive_repair_prepare(t2, i)
             t4 == on_receive_repair_commit(t3, i)
             t5 == on_receive_repair_done(t4, i)
  <2>1. SendsNoRequest(s, s1) /\ "effects" \in DOMAIN s1
    BY FastPathSends DEF SendsNoRequest
  <2> HIDE DEF s1
  <2>2. SendsNoRequest(s, s2) /\ "effects" \in DOMAIN s2
    BY <1>1, <2>1, FastPathSends
  <2> HIDE DEF s2
  <2>3. SendsNoRequest(s, s3) /\ "effects" \in DOMAIN s3
    BY <1>1, <2>2, FastPathSends
  <2> HIDE DEF s3
  <2>4. SendsNoRequest(s, s4) /\ "effects" \in DOMAIN s4
    BY <1>1, <2>3, AlignmentSends
  <2> HIDE DEF s4
  <2>5. SendsNoRequest(s, s5) /\ "effects" \in DOMAIN s5
    BY <1>1, <2>4, RepairEntrySends
  <2> HIDE DEF s5
  <2>6. SendsNoRequest(s, s6) /\ "effects" \in DOMAIN s6
    BY <1>1, <2>5, RepairEntrySends
  <2> HIDE DEF s6
  <2>7. SendsNoRequest(s, s7) /\ "effects" \in DOMAIN s7
    BY <1>1, <2>6, RepairEntrySends
  <2> HIDE DEF s7
  <2>8. SendsNoRequest(s, s8) /\ "effects" \in DOMAIN s8
    BY <1>1, <2>7, AlignmentSends
  <2> HIDE DEF s8
  <2>9. SendsNoRequest(s, s9) /\ "effects" \in DOMAIN s9
    BY <1>1, <2>8, AlignmentSends
  <2> HIDE DEF s9
  <2>10. SendsNoRequest(s, t1) /\ "effects" \in DOMAIN t1
    BY <1>1, <2>9, RepairSends
  <2> HIDE DEF t1
  <2>11. SendsNoRequest(s, t2) /\ "effects" \in DOMAIN t2
    BY <1>1, <2>10, RepairSends
  <2> HIDE DEF t2
  <2>12. SendsNoRequest(s, t3) /\ "effects" \in DOMAIN t3
    BY <1>1, <2>11, RepairSends
  <2> HIDE DEF t3
  <2>13. SendsNoRequest(s, t4) /\ "effects" \in DOMAIN t4
    BY <1>1, <2>12, RepairSends
  <2> HIDE DEF t4
  <2>14. SendsNoRequest(s, t5)
    BY <1>1, <2>13, RepairSends
  <2>15. process_message(s, i, pick) = t5
    BY DEF process_message, repair_stages, fast_stages, s1, s2, s3, s4, s5, s6, s7,
       s8, s9, t1, t2, t3, t4
  <2> QED BY <2>14, <2>15
<1>3. SendsNoRequest(s, handle_event(s, i))
  <2> DEFINE s1 == IF can_send_sync_on_event(s, i) THEN handle_send_sync(s) ELSE s
             s2 == IF can_chkpt_timeout(s1, i)
                     THEN handle_chkpt_timeout(s1, i.log_idx) ELSE s1
             s3 == IF can_view_change(s2, i) THEN handle_view_change(s2) ELSE s2
  <2>1. SendsNoRequest(s, s1) /\ "effects" \in DOMAIN s1
    BY FastPathSends DEF SendsNoRequest
  <2> HIDE DEF s1
  <2>2. SendsNoRequest(s, s2) /\ "effects" \in DOMAIN s2
    BY <1>1, <2>1, RepairEntrySends
  <2> HIDE DEF s2
  <2>3. SendsNoRequest(s, s3)
    BY <1>1, <2>2, RepairSends
  <2>4. handle_event(s, i) = s3
    BY DEF handle_event, s1, s2
  <2> QED BY <2>3, <2>4
<1> QED BY <1>2, <1>3 DEF Handled

-----------------------------------------------------------------------------
(* The numbers of the requests.                                            *)

\* Every request broadcast has a number of its own, already given out.
ChannelNumbers ==
    /\ \A p \in 1 .. Len(channel) : channel[p].eta < eta
    /\ \A p, q \in 1 .. Len(channel) : channel[p].eta = channel[q].eta => p = q

\* The numbers a client got rise, and no other client got them.
ClientNumbers ==
    /\ mine \in [Client -> Seq(Nat)]
    /\ \A c \in Client : \A a \in 1 .. Len(mine[c]) : mine[c][a] < eta
    /\ \A c \in Client : \A a, b \in 1 .. Len(mine[c]) : a < b => mine[c][a] < mine[c][b]
    /\ \A c, d \in Client : \A a \in 1 .. Len(mine[c]), b \in 1 .. Len(mine[d]) :
        mine[c][a] = mine[d][b] => c = d

\* A request between the two halves of submit has its client's last number
\* and is not broadcast yet.
TakenNumbers ==
    \A c \in Client : \A m \in taken[c] :
        /\ Len(mine[c]) > 0 /\ m.eta = mine[c][Len(mine[c])]
        /\ \A p \in 1 .. Len(channel) : channel[p].eta # m.eta

\* The requests of a client are broadcast in the order of their numbers.
ClientsInOrder ==
    \A c \in Client : \A p, q \in 1 .. Len(channel), a, b \in DOMAIN mine[c] :
        channel[p].eta = mine[c][a] /\ channel[q].eta = mine[c][b]
            => (p < q <=> a < b)

NumbersInv ==
    /\ SequencerTypes
    /\ ChannelNumbers
    /\ ClientNumbers
    /\ TakenNumbers
    /\ ClientsInOrder

\* Requests are numbered SPECULATE messages.
LEMMA RequestEta == \A m \in Requests : m.eta \in Nat /\ m.type = "Speculate"
<1> SUFFICES ASSUME NEW m \in Requests PROVE m.eta \in Nat /\ m.type = "Speculate"
  OBVIOUS
<1>1. m.eta \in 0 .. MaxRequests - 1 /\ m.type = "Speculate"
  BY DEF Requests
<1> QED BY <1>1

\* The first half of submit: a new number, at the end of the client's.
LEMMA NumberTaken ==
  ASSUME NumbersInv, NEW c \in Client, NEW op \in Ops, SubmitNumber(c, op)
  PROVE  NumbersInv'
<1>1. /\ eta \in Nat /\ eta' = eta + 1 /\ UNCHANGED channel
      /\ taken[c] = {}
      /\ taken' = [taken EXCEPT ![c] = {[type |-> "Speculate", round |-> 0,
                                         op_hash |-> op, eta |-> eta]}]
      /\ mine' = [mine EXCEPT ![c] = Append(mine[c], eta)]
  BY DEF NumbersInv, SequencerTypes, SubmitNumber, TakeEta, next
<1>2. SequencerTypes'
  BY SequencerStep DEF NumbersInv, SubmitNumber
<1>3. channel \in Seq(Requests) /\ \A p \in 1 .. Len(channel) : channel[p].eta \in Nat
  BY RequestEta DEF NumbersInv, SequencerTypes
<1>4. /\ \A p \in 1 .. Len(channel) : channel[p].eta < eta
      /\ \A p, q \in 1 .. Len(channel) : channel[p].eta = channel[q].eta => p = q
  BY DEF NumbersInv, ChannelNumbers
<1>5. ChannelNumbers'
  <2>1. ASSUME NEW p \in 1 .. Len(channel) PROVE channel[p].eta < eta'
    <3>1. channel[p].eta \in Nat /\ channel[p].eta < eta
      BY <1>3, <1>4
    <3>2. eta \in Nat /\ eta' = eta + 1
      BY <1>1
    <3> QED BY <3>1, <3>2
  <2>2. UNCHANGED channel
    BY <1>1
  <2> QED BY <1>4, <2>1, <2>2 DEF ChannelNumbers
<1>6. mine \in [Client -> Seq(Nat)]
  BY DEF NumbersInv, ClientNumbers
<1>7. /\ mine' \in [Client -> Seq(Nat)]
      /\ Len(mine[c]) \in Nat /\ Len(mine'[c]) = Len(mine[c]) + 1
      /\ mine'[c][Len(mine[c]) + 1] = eta
      /\ \A a \in 1 .. Len(mine[c]) : mine'[c][a] = mine[c][a]
      /\ \A d \in Client : d # c => mine'[d] = mine[d]
  BY <1>1, <1>6
<1>8. \A d \in Client : \A a \in 1 .. Len(mine'[d]) :
        \/ a \in 1 .. Len(mine[d]) /\ mine'[d][a] = mine[d][a]
        \/ d = c /\ a = Len(mine[c]) + 1 /\ mine'[d][a] = eta
  <2>1. ASSUME NEW a \in 1 .. Len(mine'[c])
        PROVE  a \in 1 .. Len(mine[c]) \/ a = Len(mine[c]) + 1
    BY <1>7
  <2>2. \A a \in 1 .. Len(mine'[c]) :
            \/ a \in 1 .. Len(mine[c]) /\ mine'[c][a] = mine[c][a]
            \/ a = Len(mine[c]) + 1 /\ mine'[c][a] = eta
    BY <1>7, <2>1
  <2> QED BY <1>7, <2>2
<1>9. /\ \A d \in Client : \A a \in 1 .. Len(mine[d]) :
            mine[d][a] < eta /\ mine[d][a] \in Nat
      /\ \A d \in Client : \A a, b \in 1 .. Len(mine[d]) : a < b => mine[d][a] < mine[d][b]
      /\ \A d, e \in Client : \A a \in 1 .. Len(mine[d]), b \in 1 .. Len(mine[e]) :
            mine[d][a] = mine[e][b] => d = e
  BY <1>6 DEF NumbersInv, ClientNumbers
<1>10. \A d \in Client : \A a \in 1 .. Len(mine'[d]) : mine'[d][a] < eta'
  BY <1>1, <1>8, <1>9
<1>11. ASSUME NEW d \in Client, NEW a \in 1 .. Len(mine'[d]), NEW b \in 1 .. Len(mine'[d]),
              a < b
       PROVE  mine'[d][a] < mine'[d][b]
  <2>1. a \in 1 .. Len(mine[d]) /\ mine'[d][a] = mine[d][a]
    <3>1. CASE d = c
      <4>1. a # Len(mine[c]) + 1
        BY <1>7, <1>11, <3>1
      <4> QED BY <1>8, <3>1, <4>1
    <3>2. CASE d # c
      BY <1>7, <3>2
    <3> QED BY <3>1, <3>2
  <2> QED BY <1>8, <1>9, <1>11, <2>1
<1>12. ASSUME NEW d \in Client, NEW e \in Client,
              NEW a \in 1 .. Len(mine'[d]), NEW b \in 1 .. Len(mine'[e]),
              mine'[d][a] = mine'[e][b]
       PROVE  d = e
  BY <1>1, <1>8, <1>9, <1>12
<1>13. ClientNumbers'
  BY <1>7, <1>10, <1>11, <1>12 DEF ClientNumbers
<1>14. TakenNumbers'
  <2>1. ASSUME NEW d \in Client, NEW m \in taken'[d]
        PROVE  /\ Len(mine'[d]) > 0 /\ m.eta = mine'[d][Len(mine'[d])]
               /\ \A p \in 1 .. Len(channel) : channel[p].eta # m.eta
    <3>1. CASE d = c
      <4>1. m.eta = eta
        BY <1>1, <2>1, <3>1 DEF NumbersInv, SequencerTypes
      <4> QED BY <1>1, <1>3, <1>4, <1>7, <3>1, <4>1
    <3>2. CASE d # c
      <4>1. m \in taken[d] /\ mine'[d] = mine[d]
        BY <1>1, <1>7, <2>1, <3>2 DEF NumbersInv, SequencerTypes
      <4> QED BY <4>1 DEF NumbersInv, TakenNumbers
    <3> QED BY <3>1, <3>2
  <2> QED BY <1>1, <2>1 DEF TakenNumbers
<1>15. ClientsInOrder'
  <2>1. ASSUME NEW d \in Client, NEW p \in 1 .. Len(channel), NEW a \in 1 .. Len(mine'[d]),
               channel[p].eta = mine'[d][a]
        PROVE  a \in 1 .. Len(mine[d]) /\ mine'[d][a] = mine[d][a]
    BY <1>1, <1>3, <1>4, <1>8, <2>1
  <2>2. \A d \in Client : DOMAIN mine[d] = 1 .. Len(mine[d])
                          /\ DOMAIN mine'[d] = 1 .. Len(mine'[d])
    BY <1>6, <1>7
  <2> QED BY <1>1, <2>1, <2>2 DEF NumbersInv, ClientsInOrder
<1> QED BY <1>2, <1>5, <1>13, <1>14, <1>15 DEF NumbersInv

\* The second half: the client's last number goes to the end of the channel.
LEMMA NumberBroadcast ==
  ASSUME NumbersInv, NEW c \in Client, SubmitBroadcast(c)
  PROVE  NumbersInv'
<1>1. PICK m \in taken[c] :
          channel' = IF \E r \in Subscriber : Subscribed(r)
                       THEN Append(channel, m) ELSE channel
  BY DEF SubmitBroadcast, Broadcast
<1>2. /\ taken' = [taken EXCEPT ![c] = {}]
      /\ UNCHANGED <<eta, mine>>
  BY DEF SubmitBroadcast, Broadcast, history
<1>3. SequencerTypes'
  BY SequencerStep DEF NumbersInv, SubmitBroadcast
<1>4. /\ channel \in Seq(Requests) /\ m \in Requests /\ m.eta \in Nat /\ eta \in Nat
      /\ \A p \in 1 .. Len(channel) : channel[p].eta \in Nat
  BY RequestEta DEF NumbersInv, SequencerTypes
<1>5. /\ \A p \in 1 .. Len(channel) : channel[p].eta < eta
      /\ \A p, q \in 1 .. Len(channel) : channel[p].eta = channel[q].eta => p = q
      /\ \A d \in Client : \A a \in 1 .. Len(mine[d]) :
            mine[d][a] < eta /\ mine[d][a] \in Nat
      /\ \A d \in Client : \A a, b \in 1 .. Len(mine[d]) : a < b => mine[d][a] < mine[d][b]
      /\ \A d, e \in Client : \A a \in 1 .. Len(mine[d]), b \in 1 .. Len(mine[e]) :
            mine[d][a] = mine[e][b] => d = e
      /\ mine \in [Client -> Seq(Nat)]
  BY DEF NumbersInv, ChannelNumbers, ClientNumbers
<1>6. /\ Len(mine[c]) \in 1 .. Len(mine[c]) /\ m.eta = mine[c][Len(mine[c])]
      /\ \A p \in 1 .. Len(channel) : channel[p].eta # m.eta
  BY <1>5 DEF NumbersInv, TakenNumbers
<1>7. /\ Len(channel) \in Nat
      /\ \A p \in 1 .. Len(channel') :
            \/ p \in 1 .. Len(channel) /\ channel'[p] = channel[p]
            \/ p = Len(channel) + 1 /\ channel'[p] = m
  BY <1>1, <1>4
<1>8. ChannelNumbers'
  <2>1. ASSUME NEW p \in 1 .. Len(channel') PROVE channel'[p].eta < eta
    BY <1>5, <1>6, <1>7
  <2>2. ASSUME NEW p \in 1 .. Len(channel'), NEW q \in 1 .. Len(channel'),
               channel'[p].eta = channel'[q].eta
        PROVE  p = q
    BY <1>5, <1>6, <1>7, <2>2
  <2> QED BY <1>2, <2>1, <2>2 DEF ChannelNumbers
<1>9. ClientNumbers'
  BY <1>2 DEF NumbersInv, ClientNumbers
<1>10. TakenNumbers'
  <2>1. ASSUME NEW d \in Client, NEW n \in taken'[d]
        PROVE  /\ Len(mine[d]) > 0 /\ n.eta = mine[d][Len(mine[d])]
               /\ \A p \in 1 .. Len(channel') : channel'[p].eta # n.eta
    <3>1. d # c /\ n \in taken[d]
      BY <1>2, <2>1 DEF NumbersInv, SequencerTypes
    <3>2. /\ Len(mine[d]) > 0 /\ n.eta = mine[d][Len(mine[d])]
          /\ \A p \in 1 .. Len(channel) : channel[p].eta # n.eta
      BY <3>1 DEF NumbersInv, TakenNumbers
    <3>3. Len(mine[d]) \in 1 .. Len(mine[d])
      BY <1>5, <3>2
    <3>4. m.eta # n.eta
      BY <1>5, <1>6, <3>1, <3>2, <3>3
    <3> QED BY <1>7, <3>2, <3>4
  <2> QED BY <1>2, <2>1 DEF TakenNumbers
<1>11. ClientsInOrder'
  <2>1. ASSUME NEW d \in Client, NEW a \in 1 .. Len(mine[d]), m.eta = mine[d][a]
        PROVE  d = c /\ a = Len(mine[c])
    <3>1. d = c
      BY <1>5, <1>6, <2>1
    <3>2. ~(a < Len(mine[c]))
      <4>1. mine[c][a] = mine[c][Len(mine[c])] /\ a \in 1 .. Len(mine[c])
        BY <1>6, <2>1, <3>1
      <4>2. a < Len(mine[c]) => mine[c][a] < mine[c][Len(mine[c])]
        BY <1>5, <1>6, <4>1
      <4>3. mine[c][a] \in Nat
        BY <1>5, <4>1
      <4> QED BY <4>1, <4>2, <4>3
    <3>3. Len(mine[c]) \in Nat
      BY <1>5
    <3> QED BY <3>1, <3>2, <3>3
  <2>2. ASSUME NEW p \in 1 .. Len(channel), NEW a \in 1 .. Len(mine[c]),
               channel[p].eta = mine[c][a]
        PROVE  a < Len(mine[c])
    <3>1. a # Len(mine[c]) /\ Len(mine[c]) \in Nat
      BY <1>5, <1>6, <2>2
    <3> QED BY <3>1
  <2>3. ASSUME NEW d \in Client, NEW p \in 1 .. Len(channel'), NEW q \in 1 .. Len(channel'),
               NEW a \in 1 .. Len(mine[d]), NEW b \in 1 .. Len(mine[d]),
               channel'[p].eta = mine[d][a], channel'[q].eta = mine[d][b]
        PROVE  p < q <=> a < b
    <3>1. CASE /\ p \in 1 .. Len(channel) /\ channel'[p] = channel[p]
               /\ q \in 1 .. Len(channel) /\ channel'[q] = channel[q]
      <4>1. a \in DOMAIN mine[d] /\ b \in DOMAIN mine[d]
        BY <1>5
      <4> QED BY <2>3, <3>1, <4>1 DEF NumbersInv, ClientsInOrder
    <3>2. CASE /\ p \in 1 .. Len(channel) /\ channel'[p] = channel[p]
               /\ q = Len(channel) + 1 /\ channel'[q] = m
      <4>1. d = c /\ b = Len(mine[c])
        BY <2>1, <2>3, <3>2
      <4>2. a < b
        BY <2>2, <2>3, <3>2, <4>1
      <4> QED BY <1>7, <3>2, <4>2
    <3>3. CASE /\ p = Len(channel) + 1 /\ channel'[p] = m
               /\ q \in 1 .. Len(channel) /\ channel'[q] = channel[q]
      <4>1. d = c /\ a = Len(mine[c])
        BY <2>1, <2>3, <3>3
      <4>2. b < a
        BY <2>2, <2>3, <3>3, <4>1
      <4> QED BY <1>7, <3>3, <4>2
    <3>4. CASE p = Len(channel) + 1 /\ q = p /\ channel'[p] = m
      <4>1. a = Len(mine[c]) /\ b = Len(mine[c])
        BY <2>1, <2>3, <3>4
      <4> QED BY <3>4, <4>1
    <3> QED BY <1>7, <3>1, <3>2, <3>3, <3>4
  <2>4. \A d \in Client : \A a \in DOMAIN mine[d] : a \in 1 .. Len(mine[d])
    BY <1>5
  <2> SUFFICES ASSUME NEW d \in Client,
                      NEW p \in 1 .. Len(channel'), NEW q \in 1 .. Len(channel'),
                      NEW a \in DOMAIN mine[d], NEW b \in DOMAIN mine[d],
                      channel'[p].eta = mine[d][a], channel'[q].eta = mine[d][b]
               PROVE  p < q <=> a < b
    BY <1>2 DEF ClientsInOrder
  <2> QED BY <2>3, <2>4
<1> QED BY <1>3, <1>8, <1>9, <1>10, <1>11 DEF NumbersInv

-----------------------------------------------------------------------------
(* What waits for the loop of one replica: its channel, then the calls.    *)

Joined(a, b) ==
    [k \in 1 .. Len(a) + Len(b) |->
        IF k <= Len(a) THEN a[k] ELSE b[k - Len(a)].input]

\* As long as its two parts, and of inputs.
LEMMA JoinType ==
  ASSUME NEW a \in Seq(Input), NEW b \in Seq(Call)
  PROVE  /\ Joined(a, b) \in Seq(Input)
         /\ Len(Joined(a, b)) = Len(a) + Len(b)
<1>1. Len(a) \in Nat /\ Len(b) \in Nat
  OBVIOUS
<1>2. \A k \in 1 .. Len(b) : b[k].input \in Input
  <2>1. \A k \in 1 .. Len(b) : b[k] \in Call
    OBVIOUS
  <2> QED BY <2>1 DEF Call
<1>3. ASSUME NEW k \in 1 .. Len(a) + Len(b) PROVE Joined(a, b)[k] \in Input
  <2>1. CASE k <= Len(a)
    <3>1. k \in 1 .. Len(a)
      BY <1>1, <2>1
    <3> QED BY <2>1, <3>1 DEF Joined
  <2>2. CASE ~(k <= Len(a))
    <3>1. k - Len(a) \in 1 .. Len(b)
      BY <1>1, <2>2
    <3> QED BY <1>2, <2>2, <3>1 DEF Joined
  <2> QED BY <2>1, <2>2
<1>4. Joined(a, b) \in [1 .. Len(a) + Len(b) -> Input]
  BY <1>3 DEF Joined
<1>5. Len(a) + Len(b) \in Nat
  BY <1>1
<1> DEFINE q == Joined(a, b)
           n == Len(a) + Len(b)
<1>6. q \in [1 .. n -> Input] /\ n \in Nat
  BY <1>4, <1>5
<1> HIDE DEF q, n
<1>7. q \in Seq(Input)
  BY <1>6
<1>8. Len(q) = n
  BY <1>6
<1> QED BY <1>7, <1>8 DEF q, n

\* A new call waits behind the rest.
LEMMA JoinCall ==
  ASSUME NEW a \in Seq(Input), NEW b \in Seq(Call), NEW c \in Call
  PROVE  Joined(a, Append(b, c)) = Append(Joined(a, b), c.input)
<1>1. /\ Append(b, c) \in Seq(Call) /\ Len(Append(b, c)) = Len(b) + 1
      /\ Len(a) \in Nat /\ Len(b) \in Nat /\ c.input \in Input
      /\ \A k \in 1 .. Len(b) : Append(b, c)[k] = b[k]
      /\ Append(b, c)[Len(b) + 1] = c
  BY DEF Call
<1> DEFINE l == Joined(a, Append(b, c))
           q == Joined(a, b)
           r == Append(q, c.input)
<1>2. l \in Seq(Input) /\ Len(l) = Len(a) + (Len(b) + 1)
  BY <1>1, JoinType
<1>3. q \in Seq(Input) /\ Len(q) = Len(a) + Len(b)
  BY JoinType
<1>4. /\ r \in Seq(Input) /\ Len(r) = Len(q) + 1
      /\ \A k \in 1 .. Len(q) : r[k] = q[k]
      /\ r[Len(q) + 1] = c.input
  <2> HIDE DEF q
  <2> QED BY <1>1, <1>3
<1>5. ASSUME NEW k \in 1 .. Len(a) + Len(b) + 1 PROVE l[k] = r[k]
  <2>1. k \in 1 .. Len(a) + (Len(b) + 1)
    BY <1>1
  <2>2. l[k] = IF k <= Len(a) THEN a[k] ELSE Append(b, c)[k - Len(a)].input
    BY <1>1, <2>1 DEF Joined
  <2>3. CASE k = Len(a) + Len(b) + 1
    <3>1. ~(k <= Len(a)) /\ k - Len(a) = Len(b) + 1
      BY <1>1, <2>3
    <3>2. r[k] = c.input
      BY <1>3, <1>4, <2>3
    <3> QED BY <1>1, <2>2, <3>1, <3>2
  <2>4. CASE k # Len(a) + Len(b) + 1
    <3>1. k \in 1 .. Len(a) + Len(b)
      BY <1>1, <2>4
    <3>2. r[k] = IF k <= Len(a) THEN a[k] ELSE b[k - Len(a)].input
      BY <1>3, <1>4, <3>1 DEF Joined
    <3>3. ~(k <= Len(a)) => k - Len(a) \in 1 .. Len(b)
      BY <1>1, <3>1
    <3> QED BY <1>1, <2>2, <3>2, <3>3
  <2> QED BY <2>3, <2>4
<1>6. Len(l) = Len(a) + Len(b) + 1 /\ Len(r) = Len(a) + Len(b) + 1
  BY <1>1, <1>2, <1>3, <1>4
<1> HIDE DEF l, r, q
<1>7. Len(l) = Len(r) /\ \A k \in 1 .. Len(l) : l[k] = r[k]
  BY <1>5, <1>6
<1>8. l = r
  BY <1>2, <1>4, <1>7
<1> QED BY <1>8 DEF l, r, q

\* The oldest call moves from the calls to the channel: same place.
LEMMA JoinAccept ==
  ASSUME NEW a \in Seq(Input), NEW b \in Seq(Call), b # <<>>
  PROVE  Joined(Append(a, Head(b).input), Tail(b)) = Joined(a, b)
<1>1. /\ Len(a) \in Nat /\ Len(b) \in Nat /\ Len(b) > 0
      /\ Head(b) = b[1] /\ b[1] \in Call
      /\ Tail(b) \in Seq(Call) /\ Len(Tail(b)) = Len(b) - 1
      /\ \A k \in 1 .. Len(b) - 1 : Tail(b)[k] = b[k + 1]
  OBVIOUS
<1> DEFINE c == Head(b).input
           n == Append(a, c)
<1>2. /\ c \in Input /\ c = b[1].input
      /\ n \in Seq(Input) /\ Len(n) = Len(a) + 1
      /\ \A k \in 1 .. Len(a) : n[k] = a[k]
      /\ n[Len(a) + 1] = c
  <2>1. c \in Input /\ c = b[1].input
    BY <1>1 DEF Call
  <2> HIDE DEF c
  <2> QED BY <2>1
<1> DEFINE l == Joined(n, Tail(b))
           r == Joined(a, b)
<1>3. l \in Seq(Input) /\ Len(l) = Len(n) + Len(Tail(b))
  <2> HIDE DEF n
  <2> QED BY <1>1, <1>2, JoinType
<1>4. r \in Seq(Input) /\ Len(r) = Len(a) + Len(b)
  BY JoinType
<1>5. Len(l) = Len(a) + Len(b)
  BY <1>1, <1>2, <1>3
<1> HIDE DEF n, c
<1>6. ASSUME NEW k \in 1 .. Len(a) + Len(b) PROVE l[k] = r[k]
  <2>1. k \in 1 .. Len(n) + Len(Tail(b))
    BY <1>1, <1>2
  <2>2. l[k] = IF k <= Len(n) THEN n[k] ELSE Tail(b)[k - Len(n)].input
    BY <2>1 DEF Joined
  <2>3. r[k] = IF k <= Len(a) THEN a[k] ELSE b[k - Len(a)].input
    BY DEF Joined
  <2>4. CASE k <= Len(a)
    <3>1. k \in 1 .. Len(a) /\ k <= Len(n)
      BY <1>1, <1>2, <2>4
    <3> QED BY <1>2, <2>2, <2>3, <2>4, <3>1
  <2>5. CASE k = Len(a) + 1
    <3>1. k <= Len(n) /\ ~(k <= Len(a)) /\ k - Len(a) = 1
      BY <1>1, <1>2, <2>5
    <3> QED BY <1>2, <2>2, <2>3, <2>5, <3>1
  <2>6. CASE k > Len(a) + 1
    <3>1. /\ ~(k <= Len(n)) /\ ~(k <= Len(a))
          /\ k - Len(n) \in 1 .. Len(b) - 1 /\ (k - Len(n)) + 1 = k - Len(a)
      BY <1>1, <1>2, <2>6
    <3>2. Tail(b)[k - Len(n)] = b[(k - Len(n)) + 1]
      BY <1>1, <3>1
    <3> QED BY <2>2, <2>3, <3>1, <3>2
  <2>7. k <= Len(a) \/ k = Len(a) + 1 \/ k > Len(a) + 1
    BY <1>1
  <2> QED BY <2>4, <2>5, <2>6, <2>7
<1> HIDE DEF l, r
<1>7. l = r
  BY <1>3, <1>4, <1>5, <1>6
<1> QED BY <1>7 DEF l, r, n, c

\* The loop takes the first input of all.
LEMMA JoinTurn ==
  ASSUME NEW a \in Seq(Input), NEW b \in Seq(Call), a # <<>>
  PROVE  /\ Joined(a, b) # <<>> /\ Joined(a, b)[1] = Head(a)
         /\ Joined(Tail(a), b) = Tail(Joined(a, b))
<1>1. /\ Len(a) \in Nat /\ Len(b) \in Nat /\ Len(a) > 0 /\ Head(a) = a[1]
      /\ Tail(a) \in Seq(Input) /\ Len(Tail(a)) = Len(a) - 1
      /\ \A k \in 1 .. Len(a) - 1 : Tail(a)[k] = a[k + 1]
  OBVIOUS
<1> DEFINE q == Joined(a, b)
           l == Joined(Tail(a), b)
           r == Tail(q)
<1>2. q \in Seq(Input) /\ Len(q) = Len(a) + Len(b)
  BY JoinType
<1>3. l \in Seq(Input) /\ Len(l) = Len(a) - 1 + Len(b)
  BY <1>1, JoinType
<1>4. /\ q # <<>> /\ r \in Seq(Input) /\ Len(r) = Len(q) - 1
      /\ \A k \in 1 .. Len(q) - 1 : r[k] = q[k + 1]
  <2> HIDE DEF q
  <2>1. Len(q) > 0 /\ q # <<>>
    BY <1>1, <1>2
  <2> QED BY <1>2, <2>1
<1>5. q[1] = Head(a)
  <2>1. 1 \in 1 .. Len(a) + Len(b) /\ 1 <= Len(a)
    BY <1>1
  <2> QED BY <1>1, <2>1 DEF Joined
<1>6. ASSUME NEW k \in 1 .. Len(l) PROVE l[k] = r[k]
  <2>1. /\ k \in 1 .. Len(Tail(a)) + Len(b) /\ k \in 1 .. Len(q) - 1
        /\ k + 1 \in 1 .. Len(a) + Len(b)
        /\ k + 1 - Len(a) = k - Len(Tail(a))
        /\ k + 1 <= Len(a) <=> k <= Len(Tail(a))
        /\ k <= Len(Tail(a)) => k \in 1 .. Len(a) - 1
    BY <1>1, <1>2, <1>3
  <2>2. l[k] = IF k <= Len(Tail(a)) THEN Tail(a)[k] ELSE b[k - Len(Tail(a))].input
    BY <2>1 DEF Joined
  <2>3. q[k + 1] = IF k + 1 <= Len(a) THEN a[k + 1] ELSE b[k + 1 - Len(a)].input
    BY <2>1 DEF Joined
  <2>4. r[k] = q[k + 1]
    BY <1>4, <2>1
  <2> QED BY <1>1, <2>1, <2>2, <2>3, <2>4
<1>7. Len(l) = Len(r)
  BY <1>1, <1>2, <1>3, <1>4
<1> HIDE DEF l, r, q
<1>8. l = r
  BY <1>3, <1>4, <1>6, <1>7
<1> QED BY <1>4, <1>5, <1>8 DEF l, r, q

-----------------------------------------------------------------------------
(* The invariant.                                                          *)

\* The positions r received, and what waits for its loop.
Due(r) == (1 .. cursor[r] - 1) \ missed[r]

Waiting(r) == Joined(inbox[r], calls[r])

HistoryTypes ==
    /\ missed \in [Correct -> SUBSET Nat]
    /\ handled \in [Correct -> Seq(Requests)]
    /\ status \in [Correct -> {"running", "panicked", "stopped"}]

NoRequestSent ==
    /\ \A m \in wire : m.type # "Speculate"
    /\ \A r \in Correct : \A m \in outbox[r] : m.type # "Speculate"

Pumped(r) ==
    /\ cursor[r] <= Len(channel) + 1
    /\ missed[r] \subseteq 1 .. cursor[r] - 1
    /\ InRank(Due(r), handled[r], channel)
    /\ status[r] = "running" =>
        Pipe(Due(r), Waiting(r), Len(handled[r]), channel)

OrderInv ==
    /\ ServiceInv
    /\ NumbersInv
    /\ HistoryTypes
    /\ NoRequestSent
    /\ \A r \in Correct : Pumped(r)

\* The types and bounds the steps below need, of one replica.
LEMMA ReplicaTypes ==
  ASSUME OrderInv, NEW r \in Correct
  PROVE  /\ r \in Subscriber
         /\ cursor[r] \in Nat /\ cursor[r] <= Len(channel) + 1
         /\ channel \in Seq(Requests) /\ Len(channel) \in Nat
         /\ missed[r] \in SUBSET Nat /\ missed[r] \subseteq 1 .. cursor[r] - 1
         /\ handled[r] \in Seq(Requests) /\ Len(handled[r]) \in Nat
         /\ inbox[r] \in Seq(Input) /\ calls[r] \in Seq(Call)
         /\ Waiting(r) \in Seq(Input)
<1>1. /\ r \in Subscriber
      /\ cursor[r] \in Nat /\ channel \in Seq(Requests) /\ Len(channel) \in Nat
  BY SubscriberAssumption DEF OrderInv, ServiceInv, SequencerTypes
<1>2. /\ missed[r] \in SUBSET Nat /\ handled[r] \in Seq(Requests)
      /\ cursor[r] <= Len(channel) + 1 /\ missed[r] \subseteq 1 .. cursor[r] - 1
  BY DEF OrderInv, HistoryTypes, Pumped
<1>3. inbox[r] \in Seq(Input) /\ calls[r] \in Seq(Call)
  BY DEF OrderInv, ServiceInv, ActorTypes
<1>4. Waiting(r) \in Seq(Input)
  BY <1>3, JoinType DEF Waiting
<1>5. Len(handled[r]) \in Nat
  BY <1>2
<1> QED BY <1>1, <1>2, <1>3, <1>4, <1>5

\* Positions within the channel are positions of requests, each once.
LEMMA ChannelPositions ==
  ASSUME NumbersInv, NEW D \in SUBSET (1 .. Len(channel))
  PROVE  Positions(D, channel)
<1>1. /\ channel \in Seq(Requests) /\ Len(channel) \in Nat
      /\ \A p, q \in 1 .. Len(channel) : channel[p].eta = channel[q].eta => p = q
  BY DEF NumbersInv, SequencerTypes, ChannelNumbers
<1>2. D \in SUBSET Nat /\ IsFiniteSet(D)
  <2> DEFINE I == 1 .. Len(channel)
  <2>1. I \subseteq Nat /\ IsFiniteSet(I) /\ D \subseteq I
    BY <1>1, FS_Interval
  <2> HIDE DEF I
  <2>2. IsFiniteSet(D)
    BY <2>1, FS_Subset
  <2> QED BY <2>1, <2>2
<1>3. ASSUME NEW p \in D PROVE channel[p].type = "Speculate"
  <2>1. channel[p] \in Requests
    BY <1>1
  <2> QED BY <2>1, RequestEta
<1>4. \A p, q \in D : channel[p] = channel[q] => p = q
  BY <1>1
<1> QED BY <1>2, <1>3, <1>4 DEF Positions

\* The positions received lie before the cursor, within the channel.
LEMMA DuePositions ==
  ASSUME OrderInv, NEW r \in Correct
  PROVE  /\ Due(r) \subseteq 1 .. Len(channel)
         /\ \A p \in Due(r) : p < cursor[r]
         /\ Positions(Due(r), channel)
<1>1. Due(r) \subseteq 1 .. Len(channel) /\ \A p \in Due(r) : p < cursor[r]
  BY ReplicaTypes DEF Due
<1>2. Positions(Due(r), channel)
  BY <1>1, ChannelPositions DEF OrderInv
<1> QED BY <1>1, <1>2

\* No more are handled than were received.
LEMMA HandledCount ==
  ASSUME NEW D, NEW ch, NEW S, NEW h \in Seq(S), Positions(D, ch), InRank(D, h, ch)
  PROVE  Len(h) <= Cardinality(D) /\ Cardinality(D) \in Nat
<1>1. D \in SUBSET Nat /\ IsFiniteSet(D) /\ Cardinality(D) \in Nat /\ Len(h) \in Nat
  BY FS_CardinalityType DEF Positions
<1>2. CASE Len(h) = 0
  BY <1>1, <1>2
<1>3. CASE Len(h) # 0
  <2>1. Len(h) \in 1 .. Len(h)
    BY <1>1, <1>3
  <2>2. PICK p \in D : Len(h) = Rank(D, p)
    BY <2>1 DEF InRank
  <2> QED BY <1>1, <2>2, RankType
<1> QED BY <1>2, <1>3

\* The pipe of a replica that a step does not reach, and of one whose loop
\* ends; the channel may grow.
LEMMA PumpedFrame ==
  ASSUME OrderInv, NEW r \in Correct,
         cursor'[r] = cursor[r], missed'[r] = missed[r], handled'[r] = handled[r],
         Len(channel') \in Nat, Len(channel) <= Len(channel'),
         \A p \in 1 .. Len(channel) : channel'[p] = channel[p],
         status'[r] = "running" => status[r] = "running" /\ Waiting(r)' = Waiting(r)
  PROVE  Pumped(r)'
<1>1. Due(r)' = Due(r)
  BY DEF Due
<1>2. \A p \in Due(r) : channel'[p] = channel[p]
  BY DuePositions
<1>3. /\ InRank(Due(r), handled[r], channel')
      /\ status[r] = "running" =>
            Pipe(Due(r), Waiting(r), Len(handled[r]), channel')
  BY <1>2, PipeGrows DEF OrderInv, Pumped
<1>4. cursor'[r] <= Len(channel') + 1 /\ missed'[r] \subseteq 1 .. cursor'[r] - 1
  BY ReplicaTypes
<1> QED BY <1>1, <1>3, <1>4 DEF Pumped

\* A step that changes neither the channel nor a cursor, and of the queues only
\* those of r, concerns r alone.
LEMMA PumpedOthers ==
  ASSUME OrderInv, NEW r \in Correct, UNCHANGED channel,
         \A q \in Correct \ {r} :
            /\ cursor'[q] = cursor[q] /\ missed'[q] = missed[q]
            /\ handled'[q] = handled[q] /\ status'[q] = status[q]
            /\ inbox'[q] = inbox[q] /\ calls'[q] = calls[q],
         Pumped(r)'
  PROVE  \A q \in Correct : Pumped(q)'
<1>1. ASSUME NEW q \in Correct, q # r PROVE Pumped(q)'
  <2>1. /\ cursor'[q] = cursor[q] /\ missed'[q] = missed[q]
        /\ handled'[q] = handled[q] /\ status'[q] = status[q]
        /\ Waiting(q)' = Waiting(q)
    BY <1>1 DEF Waiting
  <2>2. Len(channel') \in Nat /\ Len(channel) <= Len(channel')
    BY ReplicaTypes
  <2> QED BY <2>1, <2>2, PumpedFrame
<1> QED BY <1>1

-----------------------------------------------------------------------------
(* The steps.                                                              *)

\* Subscribing late and lagging lose positions, and receive none.
LEMMA PumpedLoses ==
  ASSUME OrderInv, NEW r \in Correct, PumpSubscribe(r) \/ PumpLagged(r)
  PROVE  HistoryTypes' /\ Pumped(r)'
<1>1. /\ cursor[r] \in Nat /\ cursor[r] <= Len(channel) + 1
      /\ Len(channel) \in Nat /\ channel \in Seq(Requests) /\ r \in Subscriber
      /\ missed[r] \in SUBSET Nat /\ missed[r] \subseteq 1 .. cursor[r] - 1
  BY ReplicaTypes
<1>2. cursor \in [Subscriber -> Nat] /\ missed \in [Correct -> SUBSET Nat]
  BY DEF OrderInv, ServiceInv, SequencerTypes, HistoryTypes
<1>3. UNCHANGED <<channel, status, inbox, calls, handled>>
  BY DEF PumpSubscribe, PumpLagged, Subscribe, SkipLost, actors
<1>4. /\ cursor'[r] \in Nat /\ cursor'[r] <= Len(channel) + 1
      /\ missed'[r] \subseteq 1 .. cursor'[r] - 1
      /\ missed' \in [Correct -> SUBSET Nat]
      /\ Due(r)' = Due(r)
  <2>1. CASE PumpSubscribe(r)
    <3>1. /\ cursor[r] = 0 /\ cursor'[r] = Len(channel) + 1
          /\ missed' = [missed EXCEPT ![r] = 1 .. Len(channel)]
      <4>1. cursor[r] = 0 /\ cursor'[r] = Len(channel) + 1
        BY <1>1, <1>2, <2>1 DEF PumpSubscribe, Subscribe, Subscribed
      <4>2. DOMAIN channel = 1 .. Len(channel)
        BY <1>1
      <4> QED BY <2>1, <4>1, <4>2 DEF PumpSubscribe
    <3>2. missed'[r] = 1 .. Len(channel) /\ missed' \in [Correct -> SUBSET Nat]
      BY <1>1, <1>2, <3>1
    <3>3. Due(r) = {} /\ Due(r)' = {}
      BY <1>1, <3>1, <3>2 DEF Due
    <3> QED BY <1>1, <3>1, <3>2, <3>3
  <2>2. CASE PumpLagged(r)
    <3>1. /\ cursor[r] > 0 /\ cursor[r] < Oldest /\ cursor'[r] = Oldest
          /\ missed' = [missed EXCEPT ![r] = missed[r] \cup cursor[r] .. Oldest - 1]
      BY <1>1, <1>2, <2>2 DEF PumpLagged, SkipLost, HasLagged, Subscribed
    <3>2. Oldest \in Nat /\ Oldest <= Len(channel) + 1
      BY <1>1, SlotsAssumption DEF Oldest
    <3>3. missed'[r] = missed[r] \cup cursor[r] .. Oldest - 1
      BY <1>2, <3>1
    <3>4. missed' \in [Correct -> SUBSET Nat]
      BY <1>1, <1>2, <3>1, <3>2
    <3>5. missed'[r] \subseteq 1 .. Oldest - 1
      BY <1>1, <3>1, <3>2, <3>3
    <3>6. (1 .. Oldest - 1) \ missed'[r] = (1 .. cursor[r] - 1) \ missed[r]
      BY <1>1, <3>1, <3>2, <3>3
    <3> QED BY <3>1, <3>2, <3>4, <3>5, <3>6 DEF Due
  <2> QED BY <2>1, <2>2
<1>5. Waiting(r)' = Waiting(r)
  BY <1>3 DEF Waiting
<1>6. Pumped(r)'
  BY <1>3, <1>4, <1>5 DEF OrderInv, Pumped
<1> QED BY <1>3, <1>4, <1>6 DEF OrderInv, HistoryTypes

\* The pump passes a request on: its position is the last received.
LEMMA PumpedRequest ==
  ASSUME OrderInv, NEW r \in Correct, PumpRequest(r)
  PROVE  Pumped(r)'
<1> DEFINE D == Due(r)
           Q == Waiting(r)
           n == Len(handled[r])
           y == cursor[r]
<1>1. /\ y \in 1 .. Len(channel) /\ r \in Subscriber
      /\ Len(channel) \in Nat /\ channel \in Seq(Requests)
      /\ missed[r] \subseteq 1 .. y - 1
      /\ handled[r] \in Seq(Requests) /\ n \in Nat
      /\ inbox[r] \in Seq(Input) /\ calls[r] \in Seq(Call) /\ Q \in Seq(Input)
  BY ReplicaTypes DEF PumpRequest, Recv, CanRecv, Subscribed
<1>2. cursor \in [Subscriber -> Nat] /\ calls \in [Correct -> Seq(Call)]
  BY DEF OrderInv, ServiceInv, SequencerTypes, ActorTypes
<1> DEFINE c == [task |-> "pump", input |-> channel[y]]
<1>3. /\ cursor'[r] = y + 1 /\ calls'[r] = Append(calls[r], c)
      /\ UNCHANGED <<channel, missed, handled, status, inbox>>
  BY <1>1, <1>2 DEF PumpRequest, Recv, StartCall, Received, history
<1>4. channel[y] \in Requests /\ channel[y] \in Input
  BY <1>1, InputKinds DEF Input
<1>5. Due(r)' = D \cup {y}
  BY <1>1, <1>3 DEF Due
<1>6. Waiting(r)' = Append(Q, channel[y])
  <2>1. c \in Call /\ c.input = channel[y]
    BY <1>4 DEF Call
  <2> QED BY <1>1, <1>3, <2>1, JoinCall DEF Waiting
<1>7. /\ Positions(D, channel) /\ D \subseteq 1 .. Len(channel)
      /\ \A x \in D : x < y
  BY DuePositions
<1>8. Positions(D \cup {y}, channel)
  BY <1>1, <1>7, ChannelPositions DEF OrderInv
<1>9. InRank(D, handled[r], channel) /\ n <= Cardinality(D)
  BY <1>1, <1>7, HandledCount DEF OrderInv, Pumped
<1>10. InRank(D \cup {y}, handled[r], channel)
  <2>1. \A p \in D : Rank(D \cup {y}, p) = Rank(D, p)
    <3>1. D \in SUBSET Nat /\ IsFiniteSet(D) /\ y \in Nat
      BY <1>1, <1>7 DEF Positions
    <3> HIDE DEF D, y
    <3> QED BY <1>7, <3>1, RankAdd
  <2> QED BY <1>9, <2>1 DEF InRank
<1>11. ASSUME Pipe(D, Q, n, channel)
       PROVE  Pipe(D \cup {y}, Append(Q, channel[y]), n, channel)
  <2>1. /\ Q \in Seq(Input) /\ n \in Nat /\ y \in Nat
        /\ channel[y] \in Input
    BY <1>1, <1>4
  <2>2. /\ Positions(D, channel) /\ Positions(D \cup {y}, channel)
        /\ n <= Cardinality(D) /\ \A x \in D : x < y
    BY <1>7, <1>8, <1>9
  <2> HIDE DEF D, Q, n, y, c
  <2> QED BY <1>11, <2>1, <2>2, PipePush
<1>12. status[r] = "running" => Pipe(D, Q, n, channel)
  BY DEF OrderInv, Pumped
<1>13. cursor'[r] <= Len(channel) + 1 /\ missed'[r] \subseteq 1 .. cursor'[r] - 1
  BY <1>1, <1>3
<1> QED BY <1>3, <1>5, <1>6, <1>10, <1>11, <1>12, <1>13 DEF Pumped

\* The driver passes something else on.
LEMMA PumpedOther ==
  ASSUME OrderInv, NEW r \in Correct, NetDeliver(r) \/ TimerFires(r)
  PROVE  Pumped(r)'
<1>1. PICK i \in Input : StartCall(r, "driver", i) /\ i.type # "Speculate"
  <2>1. \A m \in Message : m.type = "Speculate" => m \in Speculate
    BY DEF Message, SpecReply, Sync, Checkpoint, StateRequest,
       StateReply, TimeoutMsg, Proof, LogMsg, RepairHistory, RepairPrepare,
       RepairCommit, RepairDone, CommittedReply, RepairMsg
  <2>2. \A e \in Event : e.type # "Speculate"
    BY DEF Event
  <2>3. \A m \in wire \cup FaultyMessages : m \in Message /\ m.type # "Speculate"
    BY <2>1, FaultyMessageAssumption DEF OrderInv, NoRequestSent, ServiceInv, ActorTypes
  <2> QED BY <2>2, <2>3, TimerAssumption DEF NetDeliver, TimerFires, Input
<1> DEFINE D == Due(r)
           Q == Waiting(r)
           n == Len(handled[r])
           c == [task |-> "driver", input |-> i]
<1>2. /\ inbox[r] \in Seq(Input) /\ calls[r] \in Seq(Call) /\ Q \in Seq(Input)
      /\ calls \in [Correct -> Seq(Call)]
  BY ReplicaTypes DEF OrderInv, ServiceInv, ActorTypes
<1>3. /\ calls'[r] = Append(calls[r], c)
      /\ UNCHANGED <<cursor, channel, missed, handled, status, inbox>>
  BY <1>1, <1>2 DEF StartCall, NetDeliver, TimerFires, sequencer, history
<1>4. Waiting(r)' = Append(Q, i)
  <2>1. c \in Call /\ c.input = i
    BY DEF Call
  <2> QED BY <1>2, <1>3, <2>1, JoinCall DEF Waiting
<1>5. Positions(D, channel)
  BY DuePositions
<1>6. ASSUME Pipe(D, Q, n, channel) PROVE Pipe(D, Append(Q, i), n, channel)
  <2> HIDE DEF D, Q, n
  <2> QED BY <1>1, <1>2, <1>5, <1>6, PipeOther
<1>7. Due(r)' = D
  BY <1>3 DEF Due
<1> QED BY <1>3, <1>4, <1>6, <1>7 DEF OrderInv, Pumped

\* A turn: a request is the next in rank, anything else changes no rank.
LEMMA PumpedTurn ==
  ASSUME OrderInv, NEW r \in Correct, ActorTurn(r)
  PROVE  HistoryTypes' /\ Pumped(r)'
<1> DEFINE D == Due(r)
           Q == Waiting(r)
           h == handled[r]
           i == NextInput(r)
<1>1. /\ h \in Seq(Requests) /\ Len(h) \in Nat
      /\ inbox[r] \in Seq(Input) /\ calls[r] \in Seq(Call) /\ Q \in Seq(Input)
      /\ inbox \in [Correct -> Seq(Input)] /\ handled \in [Correct -> Seq(Requests)]
      /\ cursor[r] <= Len(channel) + 1 /\ missed[r] \subseteq 1 .. cursor[r] - 1
  BY ReplicaTypes DEF OrderInv, ServiceInv, ActorTypes, HistoryTypes
<1>2. /\ status[r] = "running" /\ inbox[r] # <<>>
      /\ inbox'[r] = Tail(inbox[r])
      /\ handled' = IF i.type = "Speculate"
                      THEN [handled EXCEPT ![r] = Append(h, i)] ELSE handled
      /\ UNCHANGED <<cursor, channel, missed, status, calls>>
  BY <1>1 DEF ActorTurn, Turn, AtInput, sequencer
<1>3. Due(r)' = D
  BY <1>2 DEF Due
<1>4. Q # <<>> /\ Q[1] = i /\ Waiting(r)' = Tail(Q)
  BY <1>1, <1>2, JoinTurn DEF Waiting, NextInput
<1>5. Positions(D, channel) /\ D \subseteq 1 .. Len(channel)
  BY DuePositions
<1>6. InRank(D, h, channel) /\ Pipe(D, Q, Len(h), channel)
  BY <1>2 DEF OrderInv, Pumped
<1>7. CASE i.type # "Speculate"
  <2>1. Pipe(D, Tail(Q), Len(h), channel)
    <3> HIDE DEF D, Q, h, i
    <3> QED BY <1>1, <1>4, <1>5, <1>6, <1>7, PipeSkip
  <2>2. UNCHANGED handled
    BY <1>2, <1>7
  <2> QED BY <1>1, <1>2, <1>3, <1>4, <1>6, <2>1, <2>2 DEF OrderInv, HistoryTypes, Pumped
<1>8. CASE i.type = "Speculate"
  <2>1. /\ \E p \in D : i = channel[p] /\ Rank(D, p) = Len(h) + 1
        /\ Pipe(D, Tail(Q), Len(h) + 1, channel)
    <3> DEFINE n == Len(h)
    <3>1. n \in Nat /\ Q[1] = i /\ Q[1].type = "Speculate" /\ Q # <<>> /\ Q \in Seq(Input)
      BY <1>1, <1>4, <1>8
    <3>2. Pipe(D, Q, n, channel)
      BY <1>6
    <3> HIDE DEF D, Q, h, i, n
    <3>3. /\ \E p \in D : Q[1] = channel[p] /\ Rank(D, p) = n + 1
          /\ Pipe(D, Tail(Q), n + 1, channel)
      BY <1>5, <3>1, <3>2, PipePop
    <3> QED BY <3>1, <3>3 DEF n
  <2>2. i \in Requests
    <3>1. PICK p \in 1 .. Len(channel) : i = channel[p]
      BY <1>5, <2>1
    <3> QED BY <3>1, ReplicaTypes
  <2> DEFINE g == Append(h, i)
  <2>3. /\ g \in Seq(Requests) /\ Len(g) = Len(h) + 1
        /\ \A j \in 1 .. Len(h) : g[j] = h[j]
        /\ g[Len(h) + 1] = i
    <3> HIDE DEF h, i
    <3> QED BY <1>1, <2>2
  <2>4. handled' = [handled EXCEPT ![r] = g] /\ handled'[r] = g
    BY <1>1, <1>2, <1>8
  <2> HIDE DEF g
  <2>5. InRank(D, g, channel)
    <3>1. ASSUME NEW j \in 1 .. Len(g)
          PROVE  \E p \in D : g[j] = channel[p] /\ j = Rank(D, p)
      <4>1. CASE j = Len(h) + 1
        BY <2>1, <2>3, <4>1
      <4>2. CASE j # Len(h) + 1
        <5>1. j \in 1 .. Len(h)
          BY <1>1, <2>3, <4>2
        <5> QED BY <1>6, <2>3, <5>1 DEF InRank
      <4> QED BY <4>1, <4>2
    <3> QED BY <3>1 DEF InRank
  <2>6. HistoryTypes'
    BY <1>2, <2>3, <2>4 DEF OrderInv, HistoryTypes
  <2> QED BY <1>1, <1>2, <1>3, <1>4, <2>1, <2>3, <2>4, <2>5, <2>6 DEF Pumped
<1> QED BY <1>7, <1>8

\* An accepted call keeps its place in the queue.
LEMMA PumpedAccept ==
  ASSUME OrderInv, NEW r \in Correct, Accept(r)
  PROVE  Pumped(r)'
<1>1. /\ inbox \in [Correct -> Seq(Input)] /\ calls \in [Correct -> Seq(Call)]
      /\ inbox[r] \in Seq(Input) /\ calls[r] \in Seq(Call) /\ Len(channel) \in Nat
  BY ReplicaTypes DEF OrderInv, ServiceInv, ActorTypes
<1>2. /\ calls[r] # <<>>
      /\ inbox'[r] = Append(inbox[r], Head(calls[r]).input)
      /\ calls'[r] = Tail(calls[r])
      /\ UNCHANGED <<cursor, channel, missed, handled, status>>
  BY <1>1 DEF Accept, CallAccepted, sequencer, history
<1>3. Waiting(r)' = Waiting(r)
  BY <1>1, <1>2, JoinAccept DEF Waiting
<1> QED BY <1>1, <1>2, <1>3, PumpedFrame

\* Whatever the step, only requests of the sequencer are requests.
LEMMA NoRequestStep ==
  ASSUME OrderInv, [Next]_vars
  PROVE  NoRequestSent'
<1>1. ASSUME NEW r \in Correct, ActorTurn(r)
      PROVE  NoRequestSent'
  <2>1. PICK pick : Turn(r, pick)
    BY <1>1 DEF ActorTurn
  <2> DEFINE s == Handled(state[r], NextInput(r), pick)
  <2>2. "effects" \in DOMAIN state[r] /\ state[r].effects = {}
    <3>1. state[r] \in ReplicaState /\ state[r].effects = {}
      <4>1. Cluster!TypeOK
        BY DEF OrderInv, ServiceInv, Cluster!IInv
      <4>2. state \in [Correct -> ReplicaState]
        BY <4>1, SameTypes, SameStates DEF Cluster!TypeOK
      <4>3. state[r].effects = {}
        BY <4>1, SameTypes DEF Cluster!TypeOK
      <4> QED BY <4>2, <4>3
    <3> QED BY <3>1 DEF ReplicaState
  <2>3. \A m \in s.effects : m.type # "Speculate"
    BY <2>2, HandledSends DEF SendsNoRequest
  <2>4. outbox' = [outbox EXCEPT ![r] = s.effects]
    BY <2>1 DEF Turn
  <2>5. outbox \in [Correct -> SUBSET Message] /\ UNCHANGED wire
    BY <1>1 DEF OrderInv, ServiceInv, ActorTypes, ActorTurn
  <2> HIDE DEF s
  <2> QED BY <2>3, <2>4, <2>5 DEF OrderInv, NoRequestSent
<1>2. ASSUME NEW r \in Correct, ActorSends(r)
      PROVE  NoRequestSent'
  <2>1. outbox \in [Correct -> SUBSET Message]
    BY DEF OrderInv, ServiceInv, ActorTypes
  <2> QED BY <1>2, <2>1 DEF ActorSends, Executed, OrderInv, NoRequestSent
<1>3. CASE ~(\E r \in Correct : ActorTurn(r) \/ ActorSends(r))
  <2>1. UNCHANGED <<outbox, wire>>
    BY <1>3 DEF Next, vars, actors, SubmitNumber, SubmitBroadcast,
       PumpSubscribe, PumpRequest, PumpLagged, NetDeliver, TimerFires,
       StartCall, Accept, CallAccepted, Refuse, CallRefused, HostDrops,
       DropNode, ActorPanics, Panic, ActorStops, Stop
  <2> QED BY <2>1 DEF OrderInv, NoRequestSent
<1> QED BY <1>1, <1>2, <1>3

\* The numbers do not change but by submit.
LEMMA NumbersStep ==
  ASSUME OrderInv, [Next]_vars
  PROVE  NumbersInv'
<1>1. NumbersInv
  BY DEF OrderInv
<1>2. CASE \E c \in Client : \E op \in Ops : SubmitNumber(c, op)
  BY <1>1, <1>2, NumberTaken
<1>3. CASE \E c \in Client : SubmitBroadcast(c)
  BY <1>1, <1>3, NumberBroadcast
<1>4. CASE ~(\E c \in Client : (\E op \in Ops : SubmitNumber(c, op)) \/ SubmitBroadcast(c))
  <2>1. UNCHANGED <<eta, taken, channel, mine>>
    BY <1>4 DEF Next, vars, sequencer, history, PumpSubscribe, Subscribe,
       PumpRequest, Recv, PumpLagged, SkipLost, NetDeliver, TimerFires, Accept,
       Refuse, HostDrops, ActorTurn, ActorSends, ActorPanics, ActorStops
  <2>2. SequencerTypes'
    BY ServiceNext DEF OrderInv, ServiceInv
  <2>3. ChannelNumbers' /\ TakenNumbers'
    BY <1>1, <2>1 DEF NumbersInv, ChannelNumbers, TakenNumbers
  <2>4. ClientNumbers'
    BY <1>1, <2>1 DEF NumbersInv, ClientNumbers
  <2>5. ClientsInOrder'
    BY <1>1, <2>1 DEF NumbersInv, ClientsInOrder
  <2> QED BY <2>2, <2>3, <2>4, <2>5 DEF NumbersInv
<1> QED BY <1>2, <1>3, <1>4

\* Every step keeps every pipe in order.
LEMMA PumpedStep ==
  ASSUME OrderInv, [Next]_vars
  PROVE  HistoryTypes' /\ \A r \in Correct : Pumped(r)'
<1>1. /\ cursor \in [Subscriber -> Nat] /\ channel \in Seq(Requests)
      /\ Len(channel) \in Nat /\ Correct \subseteq Subscriber
      /\ missed \in [Correct -> SUBSET Nat] /\ handled \in [Correct -> Seq(Requests)]
      /\ inbox \in [Correct -> Seq(Input)] /\ calls \in [Correct -> Seq(Call)]
      /\ taken \in [Client -> SUBSET Requests]
      /\ status \in [Correct -> {"running", "panicked", "stopped"}]
  BY SubscriberAssumption
     DEF OrderInv, ServiceInv, SequencerTypes, ActorTypes, HistoryTypes
<1>2. ASSUME UNCHANGED <<missed, handled, status>> PROVE HistoryTypes'
  BY <1>2 DEF OrderInv, HistoryTypes
<1>3. ASSUME UNCHANGED <<cursor, missed, handled, status, inbox, calls>>,
             \/ UNCHANGED channel
             \/ \E m \in Requests : channel' = Append(channel, m)
      PROVE  HistoryTypes' /\ \A r \in Correct : Pumped(r)'
  <2>1. /\ Len(channel') \in Nat /\ Len(channel) <= Len(channel')
        /\ \A p \in 1 .. Len(channel) : channel'[p] = channel[p]
    <3>1. CASE UNCHANGED channel
      BY <1>1, <3>1
    <3>2. ASSUME NEW m \in Requests, channel' = Append(channel, m)
          PROVE  /\ Len(channel') = Len(channel) + 1
                 /\ \A p \in 1 .. Len(channel) : channel'[p] = channel[p]
      BY <1>1, <3>2
    <3> QED BY <1>1, <1>3, <3>1, <3>2
  <2>2. \A r \in Correct : Waiting(r)' = Waiting(r)
    BY <1>3 DEF Waiting
  <2> QED BY <1>2, <1>3, <2>1, <2>2, PumpedFrame
<1>4. ASSUME NEW c \in Client, SubmitBroadcast(c)
      PROVE  HistoryTypes' /\ \A r \in Correct : Pumped(r)'
  <2>1. PICK m \in taken[c] :
            channel' = IF \E r \in Subscriber : Subscribed(r)
                         THEN Append(channel, m) ELSE channel
    BY <1>4 DEF SubmitBroadcast, Broadcast
  <2>2. m \in Requests
    BY <1>1, <2>1
  <2>3. UNCHANGED <<cursor, missed, handled, status, inbox, calls>>
    BY <1>4 DEF SubmitBroadcast, Broadcast, actors, history
  <2> QED BY <1>3, <2>1, <2>2, <2>3
<1>5. ASSUME NEW r \in Correct, PumpSubscribe(r) \/ PumpLagged(r)
      PROVE  HistoryTypes' /\ \A q \in Correct : Pumped(q)'
  <2>1. HistoryTypes' /\ Pumped(r)'
    BY <1>5, PumpedLoses
  <2>2. UNCHANGED channel /\ \A q \in Correct \ {r} :
            /\ cursor'[q] = cursor[q] /\ missed'[q] = missed[q]
            /\ handled'[q] = handled[q] /\ status'[q] = status[q]
            /\ inbox'[q] = inbox[q] /\ calls'[q] = calls[q]
    BY <1>1, <1>5 DEF PumpSubscribe, PumpLagged, Subscribe, SkipLost, actors
  <2> QED BY <2>1, <2>2, PumpedOthers
<1>6. ASSUME NEW r \in Correct, PumpRequest(r) \/ NetDeliver(r) \/ TimerFires(r)
      PROVE  HistoryTypes' /\ \A q \in Correct : Pumped(q)'
  <2>1. Pumped(r)'
    BY <1>6, PumpedRequest, PumpedOther
  <2>2. UNCHANGED channel /\ \A q \in Correct \ {r} :
            /\ cursor'[q] = cursor[q] /\ missed'[q] = missed[q]
            /\ handled'[q] = handled[q] /\ status'[q] = status[q]
            /\ inbox'[q] = inbox[q] /\ calls'[q] = calls[q]
    BY <1>1, <1>6 DEF PumpRequest, Recv, NetDeliver, TimerFires, StartCall,
       sequencer, history
  <2>3. HistoryTypes'
    BY <1>2, <1>6 DEF PumpRequest, NetDeliver, TimerFires, StartCall, history
  <2> QED BY <2>1, <2>2, <2>3, PumpedOthers
<1>7. ASSUME NEW r \in Correct, Accept(r)
      PROVE  HistoryTypes' /\ \A q \in Correct : Pumped(q)'
  <2>1. Pumped(r)'
    BY <1>7, PumpedAccept
  <2>2. UNCHANGED channel /\ \A q \in Correct \ {r} :
            /\ cursor'[q] = cursor[q] /\ missed'[q] = missed[q]
            /\ handled'[q] = handled[q] /\ status'[q] = status[q]
            /\ inbox'[q] = inbox[q] /\ calls'[q] = calls[q]
    BY <1>1, <1>7 DEF Accept, CallAccepted, sequencer, history
  <2>3. HistoryTypes'
    BY <1>2, <1>7 DEF Accept, CallAccepted, history
  <2> QED BY <2>1, <2>2, <2>3, PumpedOthers
<1>8. ASSUME NEW r \in Correct, ActorTurn(r)
      PROVE  HistoryTypes' /\ \A q \in Correct : Pumped(q)'
  <2>1. HistoryTypes' /\ Pumped(r)'
    BY <1>8, PumpedTurn
  <2>2. UNCHANGED channel /\ \A q \in Correct \ {r} :
            /\ cursor'[q] = cursor[q] /\ missed'[q] = missed[q]
            /\ handled'[q] = handled[q] /\ status'[q] = status[q]
            /\ inbox'[q] = inbox[q] /\ calls'[q] = calls[q]
    BY <1>1, <1>8 DEF ActorTurn, Turn, sequencer
  <2> QED BY <2>1, <2>2, PumpedOthers
<1>9. ASSUME NEW r \in Correct, Refuse(r) \/ ActorPanics(r) \/ ActorStops(r)
      PROVE  HistoryTypes' /\ \A q \in Correct : Pumped(q)'
  <2>1. /\ UNCHANGED <<cursor, channel, missed, handled>>
        /\ status'[r] # "running"
        /\ status' \in [Correct -> {"running", "panicked", "stopped"}]
        /\ \A q \in Correct \ {r} :
            /\ status'[q] = status[q]
            /\ inbox'[q] = inbox[q] /\ calls'[q] = calls[q]
    <3>1. CASE Refuse(r)
      BY <1>1, <3>1 DEF Refuse, CallRefused, sequencer, history
    <3>2. CASE ActorPanics(r)
      BY <1>1, <3>2 DEF ActorPanics, Panic, sequencer, history
    <3>3. CASE ActorStops(r)
      BY <1>1, <3>3 DEF ActorStops, Stop, sequencer, history
    <3> QED BY <1>9, <3>1, <3>2, <3>3
  <2>2. Pumped(r)'
    BY <1>1, <2>1, PumpedFrame
  <2>3. HistoryTypes'
    BY <1>1, <2>1 DEF HistoryTypes
  <2> QED BY <2>1, <2>2, <2>3, PumpedOthers
<1>10. CASE \E c \in Client : \E op \in Ops : SubmitNumber(c, op)
  BY <1>3, <1>10 DEF SubmitNumber, TakeEta, actors
<1>11. CASE \E r \in Correct : HostDrops(r) \/ ActorSends(r)
  BY <1>3, <1>11 DEF HostDrops, DropNode, ActorSends, Executed, sequencer, history
<1>12. CASE UNCHANGED vars
  BY <1>3, <1>12 DEF vars, sequencer, actors, history
<1> QED BY <1>4, <1>5, <1>6, <1>7, <1>8, <1>9, <1>10, <1>11, <1>12 DEF Next

\* The invariant is inductive.
LEMMA OrderNext == OrderInv /\ [Next]_vars => OrderInv'
BY ServiceNext, NumbersStep, NoRequestStep, PumpedStep DEF OrderInv

\* Initially nothing is broadcast, received or handled.
LEMMA OrderInit == Init => OrderInv
<1> SUFFICES ASSUME Init PROVE OrderInv
  OBVIOUS
<1>1. ServiceInv
  BY ServiceInit
<1>2. /\ channel = <<>> /\ Len(channel) = 0
      /\ mine = [c \in Client |-> <<>>] /\ taken = [c \in Client |-> {}]
  BY DEF Init, SequencerInit
<1>3. NumbersInv
  <2>1. ChannelNumbers /\ ClientsInOrder
    BY <1>2 DEF ChannelNumbers, ClientsInOrder
  <2>2. TakenNumbers
    BY <1>2 DEF TakenNumbers
  <2>3. ClientNumbers
    <3>1. \A c \in Client : mine[c] = <<>> /\ Len(mine[c]) = 0
      BY <1>2
    <3>2. mine \in [Client -> Seq(Nat)]
      BY <1>2
    <3> QED BY <3>1, <3>2 DEF ClientNumbers
  <2> QED BY <1>1, <2>1, <2>2, <2>3 DEF NumbersInv, ServiceInv
<1>4. HistoryTypes /\ NoRequestSent
  BY DEF Init, ActorInit, HistoryTypes, NoRequestSent
<1>5. ASSUME NEW r \in Correct PROVE Pumped(r)
  <2>1. /\ cursor[r] = 0 /\ missed[r] = {} /\ handled[r] = <<>>
        /\ inbox[r] = <<>> /\ calls[r] = <<>>
    BY SubscriberAssumption DEF Init, ActorInit, SequencerInit
  <2>2. Due(r) = {}
    BY <2>1 DEF Due
  <2>3. Len(handled[r]) = 0 /\ Len(Waiting(r)) = 0
    <3>1. inbox[r] \in Seq(Input) /\ calls[r] \in Seq(Call)
      BY <1>1 DEF ServiceInv, ActorTypes
    <3>2. Len(inbox[r]) = 0 /\ Len(calls[r]) = 0 /\ Len(handled[r]) = 0
      BY <2>1
    <3> QED BY <3>1, <3>2, JoinType DEF Waiting
  <2>4. Cardinality({}) = 0
    BY FS_EmptySet
  <2> QED BY <1>2, <2>1, <2>2, <2>3, <2>4 DEF Pumped, Pipe, InRank
<1> QED BY <1>1, <1>3, <1>4, <1>5 DEF OrderInv

-----------------------------------------------------------------------------
(* Theorems.                                                               *)

\* NotMissed counts the positions up to p: those behind are not reached yet.
LEMMA RankIsNotMissed ==
  ASSUME OrderInv, NEW r \in Correct, NEW p \in Due(r)
  PROVE  Rank(Due(r), p) = NotMissed(r, p) /\ p \in 1 .. cursor[r] - 1 /\ p \notin missed[r]
<1>1. p \in 1 .. cursor[r] - 1 /\ p \notin missed[r] /\ cursor[r] \in Nat
  BY ReplicaTypes DEF Due
<1>2. {x \in Due(r) : x <= p} = (1 .. p) \ missed[r]
  BY <1>1 DEF Due
<1> QED BY <1>1, <1>2 DEF Rank, NotMissed

\* The j-th request that a replica handles is the j-th broadcast that it did
\* not miss: neither the ring, nor the pump, nor a waiting call, nor the
\* actor's queue loses, repeats or swaps one (proxy.rs:53, node.rs:33).
THEOREM RequestsInBroadcastOrder == Spec => []BroadcastOrder
<1>1. OrderInv => BroadcastOrder
  <2> SUFFICES ASSUME OrderInv, NEW r \in Correct, NEW j \in DOMAIN handled[r]
               PROVE  \E p \in 1 .. cursor[r] - 1 :
                        /\ handled[r][j] = channel[p]
                        /\ p \notin missed[r]
                        /\ j = NotMissed(r, p)
    BY DEF BroadcastOrder
  <2>1. j \in 1 .. Len(handled[r])
    BY ReplicaTypes
  <2>2. PICK p \in Due(r) : handled[r][j] = channel[p] /\ j = Rank(Due(r), p)
    BY <2>1 DEF OrderInv, Pumped, InRank
  <2> QED BY <2>2, RankIsNotMissed
<1> QED BY <1>1, OrderInit, OrderNext, PTL DEF Spec

\* Every replica handles the requests of one client in the order in which
\* submit numbered them, whatever other clients submit between the two halves
\* of submit (proxy.rs:51).
THEOREM RequestsInClientOrder == Spec => []ClientOrder
<1>1. OrderInv => ClientOrder
  <2> SUFFICES ASSUME OrderInv, NEW r \in Correct, NEW c \in Client,
                      NEW j \in DOMAIN handled[r], NEW k \in DOMAIN handled[r],
                      NEW a \in DOMAIN mine[c], NEW b \in DOMAIN mine[c],
                      handled[r][j].eta = mine[c][a], handled[r][k].eta = mine[c][b]
               PROVE  j < k <=> a < b
    BY DEF ClientOrder
  <2> DEFINE D == Due(r)
  <2>1. j \in 1 .. Len(handled[r]) /\ k \in 1 .. Len(handled[r])
    BY ReplicaTypes
  <2>2. PICK p \in D : handled[r][j] = channel[p] /\ j = Rank(D, p)
    BY <2>1 DEF OrderInv, Pumped, InRank
  <2>3. PICK q \in D : handled[r][k] = channel[q] /\ k = Rank(D, q)
    BY <2>1 DEF OrderInv, Pumped, InRank
  <2>4. D \in SUBSET Nat /\ IsFiniteSet(D) /\ D \subseteq 1 .. Len(channel)
    BY DuePositions DEF Positions
  <2>5. p < q <=> j < k
    <3> HIDE DEF D
    <3> QED BY <2>2, <2>3, <2>4, RankOrder
  <2>6. p < q <=> a < b
    <3>1. p \in 1 .. Len(channel) /\ q \in 1 .. Len(channel)
      BY <2>4
    <3>2. channel[p].eta = mine[c][a] /\ channel[q].eta = mine[c][b]
      BY <2>2, <2>3
    <3> QED BY <3>1, <3>2 DEF OrderInv, NumbersInv, ClientsInOrder
  <2> QED BY <2>5, <2>6
<1> QED BY <1>1, OrderInit, OrderNext, PTL DEF Spec
=============================================================================
