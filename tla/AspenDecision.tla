--------------------------- MODULE AspenDecision ----------------------------
(***************************************************************************)
(* The cluster implements RepairDecision, and a replica that voted is      *)
(* locked.  Both are about whole steps: a call makes moves within a round  *)
(* and then leaves it at most once (RoundWalk).                            *)
(***************************************************************************)
EXTENDS AspenMoves, AspenRefinement

-----------------------------------------------------------------------------
(* The lock.                                                               *)

\* No early move unlocks a replica that voted to commit.
LEMMA LockedMove ==
  ASSUME NEW r, NEW S, NEW M, NEW s, NEW t,
         ReplicaInv(r, s, S), EarlyMove(s, t, M), s.phase = "CommitPhase"
  PROVE  SameMode(s, t)
<1>1. s.in_repair
  BY DEF ReplicaInv, RepairPhase
<1>2. CASE \/ t = s \/ Keep(s, t, M) \/ SendSync(s, t) \/ FormCheckpoint(s, t)
           \/ Answer(s, t) \/ Append1(s, t)
  BY <1>2 DEF Keep, SendSync, FormCheckpoint, Answer, Send, Append1, SameMode
<1>3. ~ (\/ Align(s, t) \/ Recover(s, t) \/ EnterRepair(s, t) \/ Propose(s, t)
         \/ Commit(s, t) \/ ChangeView(s, t))
  BY <1>1 DEF Align, Recover, EnterRepair, Propose, Commit, ChangeView, can_repair_commit
<1> QED BY <1>2, <1>3 DEF EarlyMove

\* Both handlers leave a locked replica locked or in the next round.
LEMMA LockedHandler ==
  ASSUME IInv, NEW r \in Correct, NEW t, Handled(r, t), rep[r].phase = "CommitPhase"
  PROVE  SameMode(rep[r], t) \/ t.round = rep[r].round + 1
<1> DEFINE s == rep[r]
           I == {u \in ReplicaState : SameMode(s, u)}
<1>1. sent \in SUBSET Message /\ ReplicaInv(r, s, sent) /\ s \in ReplicaState
  BY DEF IInv, TypeOK, ReplicaInv
<1> HIDE DEF s
<1>2. s \in I
  BY <1>1 DEF SameMode
<1>3. ASSUME NEW M, NEW a, NEW b, a \in I, ReplicaInv(r, a, sent),
             ReplicaInv(r, b, sent), EarlyMove(a, b, M)
      PROVE  b \in I
  <2>1. b \in ReplicaState /\ a.phase = "CommitPhase" /\ SameMode(s, a)
    BY <1>3 DEF ReplicaInv, SameMode, s
  <2>2. SameMode(a, b)
    BY <1>3, <2>1, LockedMove
  <2> QED BY <2>1, <2>2 DEF SameMode
<1> HIDE DEF I
<1>4. PICK M, u, v, w :
         /\ u \in I
         /\ v = u \/ Apply(u, v)
         /\ w = v \/ Keep(v, w, M)
         /\ t = w \/ Catchup(w, t)
  BY <1>1, <1>2, <1>3, RoundWalk DEF s
<1>5. SameMode(s, u)
  BY <1>4 DEF I
<1>6. SameMode(s, v) \/ (v.phase = "Speculative" /\ v.round = s.round + 1)
  BY <1>4, <1>5 DEF Apply, NextRound, SameMode
<1>7. SameMode(s, w) \/ (w.phase = "Speculative" /\ w.round = s.round + 1)
  BY <1>4, <1>6 DEF Keep, SameMode
<1>8. SameMode(s, t) \/ t.round = s.round + 1
  BY <1>4, <1>7 DEF Catchup, NextRound, SameMode, can_repair_done_catchup, RepairPhase
<1> QED BY <1>8 DEF s

\* Every step leaves every locked replica locked or in the next round.
LEMMA StepLocked ==
  ASSUME IInv, Next
  PROVE  \A q \in Correct : Locked(q)
<1>1. PICK r \in Correct :
        \E t : /\ ReplicaInv(r, rep[r], sent) /\ ReplicaInv(r, t, sent)
               /\ Execute(r, t) /\ Handled(r, t)
  BY StepCases
<1>2. PICK t : ReplicaInv(r, t, sent) /\ Execute(r, t) /\ Handled(r, t)
  BY <1>1
<1>3. t \in ReplicaState
  BY <1>2 DEF ReplicaInv
<1>4. /\ \A q \in Correct \ {r} : rep'[q] = rep[q]
      /\ SameMode(t, rep'[r])
  BY <1>2, <1>3, ExecuteFrame
<1>5. Locked(r)
  BY <1>2, <1>4, LockedHandler DEF Locked, SameMode
<1>6. ASSUME NEW q \in Correct \ {r} PROVE Locked(q)
  BY <1>4 DEF Locked
<1> QED BY <1>5, <1>6

\* A replica that voted to commit keeps its view, its vote and its phase until
\* it enters the next round (repair.rs:160), whatever timers expire and
\* whatever proofs and proposals reach it: what lets CommitOnce replace
\* PBFT's prepared certificates.
THEOREM CommitsLocked == Spec => CommitLocked
<1>1. IInv /\ [Next]_vars => [\A r \in Correct : Locked(r)]_vars
  BY StepLocked
<1> QED BY <1>1, InductiveInvariant, PTL DEF Spec, CommitLocked

-----------------------------------------------------------------------------
(* The votes and decisions of one step.                                    *)

\* Every vote and decision a replica makes in a call is about round k.
VotesIn(s, k) ==
    \A m \in s.effects : m.type \in {"RepairCommit", "RepairDone"} => m.round = k

\* An early move stays in the round and votes for nothing else.
LEMMA VoteMove ==
  ASSUME NEW M, NEW s \in ReplicaState, NEW t \in ReplicaState, EarlyMove(s, t, M),
         VotesIn(s, s.round)
  PROVE  t.round = s.round /\ VotesIn(t, s.round)
<1> DEFINE k == s.round
<1>1. ASSUME NEW x, t.effects = s.effects \cup {x},
             x.type \notin {"RepairCommit", "RepairDone"} \/ x.round = k
      PROVE  VotesIn(t, k)
  BY <1>1 DEF VotesIn
<1>2. CASE t = s \/ Keep(s, t, M)
  BY <1>2 DEF Keep, SameMode, VotesIn
<1>3. CASE SendSync(s, t) \/ FormCheckpoint(s, t) \/ Answer(s, t)
  <2>1. PICK x : Send(s, t, x) /\ x.type \notin {"RepairCommit", "RepairDone"}
    BY <1>3 DEF SendSync, FormCheckpoint, Answer
  <2> QED BY <1>1, <2>1 DEF Send, SameMode
<1>4. CASE Append1(s, t)
  <2>1. PICK x : t.effects = s.effects \cup {x} /\ x.type = "SpecReply"
    BY <1>4 DEF Append1
  <2> QED BY <1>1, <1>4, <2>1 DEF Append1, SameMode
<1>5. CASE Align(s, t)
  <2>1. PICK x : t.effects = s.effects \cup {x} /\ x.type = "StateRequest"
    BY <1>5 DEF Align
  <2> QED BY <1>1, <1>5, <2>1 DEF Align
<1>6. CASE Recover(s, t)
  BY <1>6 DEF Recover, VotesIn
<1>7. CASE EnterRepair(s, t)
  <2>1. PICK proofs :
          /\ t.effects = s.effects \cup proofs \cup {OwnLog(s, s.view)}
          /\ \A p \in proofs : p.type \in {"ConflictProof", "TimeoutProof"}
    BY <1>7 DEF EnterRepair, TheProof
  <2>2. OwnLog(s, s.view).type = "LogMsg"
    BY DEF OwnLog
  <2> QED BY <1>7, <2>1, <2>2 DEF EnterRepair, VotesIn
<1>8. CASE Propose(s, t)
  <2> DEFINE h == t.proposed_history_hash
  <2>1. h \in Nat
    BY DEF ReplicaState
  <2>2. PICK x : t.effects = s.effects \cup {x}
                 /\ x.type \notin {"RepairCommit", "RepairDone"}
    BY <1>8, <2>1, VoteType DEF Propose
  <2> QED BY <1>1, <1>8, <2>2 DEF Propose
<1>9. CASE Commit(s, t)
  <2> DEFINE x == RepairVote(s, "RepairCommit", s.proposed_history_hash)
  <2>1. x.round = k
    BY DEF RepairVote
  <2> HIDE DEF x
  <2> QED BY <1>1, <1>9, <2>1 DEF Commit, x
<1>10. CASE ChangeView(s, t)
  <2> DEFINE l == OwnLog(s, s.view + 1)
  <2>1. l.type = "LogMsg"
    BY DEF OwnLog
  <2> HIDE DEF l
  <2> QED BY <1>1, <1>10, <2>1 DEF ChangeView, l
<1> QED BY <1>2, <1>3, <1>4, <1>5, <1>6, <1>7, <1>8, <1>9, <1>10 DEF EarlyMove

\* Both handlers vote and decide in the round the replica was in.
LEMMA VotesHandler ==
  ASSUME IInv, NEW r \in Correct, NEW t, Handled(r, t)
  PROVE  VotesIn(t, rep[r].round)
<1> DEFINE s == rep[r]
           k == s.round
           I == {u \in ReplicaState : u.round = k /\ VotesIn(u, k)}
<1>1. sent \in SUBSET Message /\ ReplicaInv(r, s, sent) /\ s \in ReplicaState
      /\ s.effects = {}
  BY DEF IInv, TypeOK, ReplicaInv
<1> HIDE DEF s
<1>2. s \in I
  BY <1>1 DEF VotesIn
<1>3. ASSUME NEW M, NEW a, NEW b, a \in I, ReplicaInv(r, a, sent),
             ReplicaInv(r, b, sent), EarlyMove(a, b, M)
      PROVE  b \in I
  <2>1. a \in ReplicaState /\ b \in ReplicaState
    BY <1>3 DEF ReplicaInv
  <2> QED BY <1>3, <2>1, VoteMove
<1> HIDE DEF I
<1>4. PICK M, u, v, w :
         /\ u \in I
         /\ v = u \/ Apply(u, v)
         /\ w = v \/ Keep(v, w, M)
         /\ t = w \/ Catchup(w, t)
  BY <1>1, <1>2, <1>3, RoundWalk DEF s
<1>5. u.round = k /\ VotesIn(u, k)
  BY <1>4 DEF I
<1>6. VotesIn(v, k)
  <2>1. \A m \in DoneMessages(u) :
          m.type \in {"RepairCommit", "RepairDone"} => m.round = k
    BY <1>5 DEF DoneMessages, RepairVote
  <2> QED BY <1>4, <1>5, <2>1 DEF Apply, VotesIn
<1>7. t.effects = v.effects
  BY <1>4 DEF Keep, Catchup
<1> QED BY <1>6, <1>7 DEF VotesIn, s

-----------------------------------------------------------------------------
(* The refinement.                                                         *)

VotesOf(S) == {VoteOf(c) : c \in {m \in S : m.type = "RepairCommit"}}
DecisionsOf(S) == {DecisionOf(d) : d \in {m \in S : m.type = "RepairDone"}}

\* RepairDecision counts and compares as the cluster does.
LEMMA SameCounts ==
  /\ \A S : Decision!Cardinality(S) = Cardinality(S)
  /\ Decision!byz_quorum = byz_quorum
  /\ Decision!Correct = Correct
<1>1. ASSUME NEW S PROVE Decision!Cardinality(S) = Cardinality(S)
  BY DEF Decision!Cardinality, Cardinality
<1> QED BY <1>1 DEF Decision!byz_quorum, byz_quorum, Decision!n_replicas, n_replicas,
                    Decision!Correct, Correct

\* A quorum of REPAIR-COMMITs for d is a quorum of supporters of d.
LEMMA QuorumOfSupporters ==
  ASSUME IInv, NEW d, Vouched(sent, d)
  PROVE  Cardinality(Decision!Supporters(DecisionOf(d))) >= byz_quorum
<1> DEFINE A == Senders(CommitVotes(sent, d))
           B == Decision!Supporters(DecisionOf(d))
<1>1. \A c \in CommitVotes(sent, d) : c \in sent \/ c.from \in Faulty
  BY FaultyMessageAssumption DEF CommitVotes, HasSender
<1>2. A \subseteq B
  <2> SUFFICES ASSUME NEW c \in CommitVotes(sent, d) PROVE c.from \in B
    BY DEF Senders
  <2>1. CASE c \in sent
    <3>1. VoteOf(c) \in {VoteOf(x) : x \in SentOf("RepairCommit")}
      BY <2>1 DEF SentOf, CommitVotes
    <3>2. /\ VoteOf(c).round = DecisionOf(d).round
          /\ VoteOf(c).hist = DecisionOf(d).hist
          /\ VoteOf(c).from = c.from
      BY DEF VoteOf, DecisionOf, CommitVotes
    <3> QED BY <3>1, <3>2 DEF Decision!Supporters
  <2> QED BY <1>1, <2>1 DEF Decision!Supporters
<1>3. B \subseteq Node
  <2>1. \A c \in SentOf("RepairCommit") : VoteOf(c).from \in Node
    BY DEF IInv, SentOf, HasSender, VoteOf, Correct
  <2> QED BY <2>1, FaultyAssumption DEF Decision!Supporters
<1>4. IsFiniteSet(B)
  BY <1>3, NodeAssumption, FS_Subset
<1> HIDE DEF A, B
<1>5. Cardinality(A) <= Cardinality(B) /\ Cardinality(A) \in Nat /\ Cardinality(B) \in Nat
  BY <1>2, <1>4, FS_Subset, FS_CardinalityType
<1>6. Cardinality(A) >= byz_quorum /\ byz_quorum \in Int
  BY NodeAssumption, FaultAssumption, FS_CardinalityType
     DEF A, Vouched, byz_quorum, n_replicas
<1> QED BY <1>5, <1>6 DEF B

\* The votes of a step: none that is new, or one of replica r, which had not
\* voted in the round.
LEMMA StepVotes ==
  ASSUME IInv, NEW r \in Correct, NEW t, ReplicaInv(r, t, sent), Handled(r, t),
         sent' = sent \cup t.effects
  PROVE  \/ VotesOf(sent') = VotesOf(sent)
         \/ \E v \in VotesOf(sent') \ VotesOf(sent) :
              /\ v.from \in Correct
              /\ ~\E w \in VotesOf(sent) : w.from = v.from /\ w.round = v.round
              /\ VotesOf(sent') = VotesOf(sent) \cup {v}
<1> DEFINE T == sent'
           k == rep[r].round
           C == {m \in t.effects : m.type = "RepairCommit"}
<1>1. T = sent \cup t.effects
  OBVIOUS
<1> HIDE DEF T
<1>2. VotesOf(T) = VotesOf(sent) \cup {VoteOf(c) : c \in C}
  BY <1>1 DEF VotesOf
<1>3. \A c \in C : c.from = r /\ c.round = k /\ c \in OwnCommits(t, sent)
  BY VotesHandler DEF VotesIn, ReplicaInv, HasSender, OwnCommits
<1>4. \A c1, c2 \in OwnCommits(t, sent) : c1.round = c2.round => c1 = c2
  BY DEF ReplicaInv
<1>5. \A c \in sent : c.type = "RepairCommit" /\ c.from = r => c \in OwnCommits(t, sent)
  BY DEF ReplicaInv, OwnCommits
<1> HIDE DEF C
<1>6. CASE \A c \in C : VoteOf(c) \in VotesOf(sent)
  <2>1. VotesOf(T) = VotesOf(sent)
    BY <1>2, <1>6
  <2> QED BY <2>1 DEF T
<1>7. CASE \E c \in C : VoteOf(c) \notin VotesOf(sent)
  <2>1. PICK c \in C : VoteOf(c) \notin VotesOf(sent)
    BY <1>7
  <2> DEFINE v == VoteOf(c)
  <2>2. v.from = r /\ v.round = k
    BY <1>3 DEF VoteOf
  <2>3. \A b \in C : b = c
    BY <1>3, <1>4
  <2>4. VotesOf(T) = VotesOf(sent) \cup {v}
    BY <1>2, <2>3
  <2>5. ~\E w \in VotesOf(sent) : w.from = r /\ w.round = k
    <3> SUFFICES ASSUME NEW b \in sent, b.type = "RepairCommit", b.from = r, b.round = k
                 PROVE  FALSE
      BY DEF VotesOf, VoteOf
    <3>1. b = c
      BY <1>3, <1>4, <1>5
    <3> QED BY <2>1, <3>1 DEF VotesOf
  <2> HIDE DEF v
  <2>6. v \in VotesOf(T) \ VotesOf(sent)
    BY <2>1, <2>4 DEF v
  <2> QED BY <2>2, <2>4, <2>5, <2>6 DEF T
<1> QED BY <1>6, <1>7

\* The decisions of a step: none that is new, or one for a round without one,
\* with a quorum of supporters.
LEMMA StepDecisions ==
  ASSUME IInv, RepairAgreement', NEW r \in Correct, NEW t, ReplicaInv(r, t, sent),
         Handled(r, t), sent' = sent \cup t.effects
  PROVE  \/ DecisionsOf(sent') = DecisionsOf(sent)
         \/ \E d \in DecisionsOf(sent') \ DecisionsOf(sent) :
              /\ ~\E e \in DecisionsOf(sent) : e.round = d.round
              /\ Cardinality(Decision!Supporters(d)) >= byz_quorum
              /\ DecisionsOf(sent') = DecisionsOf(sent) \cup {d}
<1> DEFINE T == sent'
           k == rep[r].round
           D == {m \in t.effects : m.type = "RepairDone"}
<1>1. T = sent \cup t.effects
  OBVIOUS
<1>2. \A d1, d2 \in T : /\ d1.type = "RepairDone" /\ d2.type = "RepairDone"
                        /\ d1.round = d2.round
                        => d1.history_hash = d2.history_hash
  BY DEF RepairAgreement, SentOf
<1> HIDE DEF T
<1>3. DecisionsOf(T) = DecisionsOf(sent) \cup {DecisionOf(d) : d \in D}
  BY <1>1 DEF DecisionsOf
<1>4. \A d \in D : d.round = k /\ Vouched(sent, d) /\ d \in T /\ d.type = "RepairDone"
  BY <1>1, VotesHandler DEF VotesIn, ReplicaInv
<1> HIDE DEF D
<1>5. CASE \A d \in D : DecisionOf(d) \in DecisionsOf(sent)
  <2>1. DecisionsOf(T) = DecisionsOf(sent)
    BY <1>3, <1>5
  <2> QED BY <2>1 DEF T
<1>6. CASE \E d \in D : DecisionOf(d) \notin DecisionsOf(sent)
  <2>1. PICK b \in D : DecisionOf(b) \notin DecisionsOf(sent)
    BY <1>6
  <2> DEFINE d == DecisionOf(b)
  <2>2. Cardinality(Decision!Supporters(d)) >= byz_quorum
    BY <1>4, QuorumOfSupporters
  <2>3. \A x \in D : DecisionOf(x) = d
    BY <1>2, <1>4 DEF DecisionOf
  <2>4. DecisionsOf(T) = DecisionsOf(sent) \cup {d}
    BY <1>3, <2>3
  <2>5. ~\E e \in DecisionsOf(sent) : e.round = d.round
    <3> SUFFICES ASSUME NEW x \in sent, x.type = "RepairDone", x.round = b.round
                 PROVE  FALSE
      BY DEF DecisionsOf, DecisionOf
    <3>1. DecisionOf(x) = d
      BY <1>1, <1>2, <1>4 DEF DecisionOf
    <3> QED BY <2>1, <3>1 DEF DecisionsOf
  <2> HIDE DEF d
  <2>6. d \in DecisionsOf(T) \ DecisionsOf(sent)
    BY <2>1, <2>4 DEF d
  <2> QED BY <2>2, <2>4, <2>5, <2>6 DEF T
<1> QED BY <1>5, <1>6

\* Every step of the cluster is a step of RepairDecision, or stutters.
LEMMA StepRefines == IInv /\ IInv' /\ [Next]_vars => [Decision!Next]_(Decision!decision)
<1> SUFFICES ASSUME IInv, IInv', [Next]_vars
             PROVE  Decision!Next \/ UNCHANGED Decision!decision
  OBVIOUS
<1>1. CASE UNCHANGED vars
  BY <1>1 DEF vars, SentOf, Decision!decision
<1>2. CASE Next
  <2>1. PICK r \in Correct :
          \E t : /\ ReplicaInv(r, rep[r], sent) /\ ReplicaInv(r, t, sent)
                 /\ Execute(r, t) /\ Handled(r, t)
    BY <1>2, StepCases
  <2>2. PICK t : ReplicaInv(r, t, sent) /\ Execute(r, t) /\ Handled(r, t)
    BY <2>1
  <2>3. sent' = sent \cup t.effects
    BY <2>2 DEF Execute
  <2>4. RepairAgreement'
    BY AgreementFromInv, PTL
  <2>5. \/ VotesOf(sent') = VotesOf(sent)
        \/ \E v \in VotesOf(sent') \ VotesOf(sent) :
             /\ v.from \in Correct
             /\ ~\E w \in VotesOf(sent) : w.from = v.from /\ w.round = v.round
             /\ VotesOf(sent') = VotesOf(sent) \cup {v}
    BY <2>2, <2>3, StepVotes
  <2>6. \/ DecisionsOf(sent') = DecisionsOf(sent)
        \/ \E d \in DecisionsOf(sent') \ DecisionsOf(sent) :
             /\ ~\E e \in DecisionsOf(sent) : e.round = d.round
             /\ Cardinality(Decision!Supporters(d)) >= byz_quorum
             /\ DecisionsOf(sent') = DecisionsOf(sent) \cup {d}
    BY <2>2, <2>3, <2>4, StepDecisions
  <2>7. VotesOf(sent') = VotesOf(sent) \/ Decision!NewVote
    BY <2>5, SameCounts DEF VotesOf, SentOf, Decision!NewVote, Decision!Vote
  <2>8. DecisionsOf(sent') = DecisionsOf(sent) \/ Decision!NewDecision
    BY <2>6, SameCounts DEF DecisionsOf, SentOf, Decision!NewDecision, Decision!Decide
  <2> QED BY <2>7, <2>8 DEF VotesOf, DecisionsOf, SentOf, Decision!Next, Decision!decision
<1> QED BY <1>1, <1>2

\* The cluster implements RepairDecision: whatever the views, the order of
\* delivery and the votes of the faulty replicas, a correct replica votes once
\* a round, and a round is decided once, for a history that n - f replicas may
\* have voted for (repair.rs:160, 219).
THEOREM ClusterImplementsDecision == Spec => ImplementsDecision
<1>1. Init => Decision!Init
  BY DEF Init, SentOf, Decision!Init
<1>2. IInv /\ IInv' /\ [Next]_vars => [Decision!Next]_(Decision!decision)
  BY StepRefines
<1> QED BY <1>1, <1>2, InductiveInvariant, PTL
        DEF Spec, ImplementsDecision, Decision!Spec
=============================================================================
