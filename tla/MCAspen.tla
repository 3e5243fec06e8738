------------------------------ MODULE MCAspen -------------------------------
(***************************************************************************)
(* Instances of Aspen for TLC: what the faulty replicas send and which     *)
(* messages the network delivers, by scenario.                             *)
(***************************************************************************)
EXTENDS AspenClaims, AspenRefinement, AspenBounded

CONSTANTS r0, r1, r2, r3

Order2 == <<r0, r1>>
Order4 == <<r0, r1, r2, r3>>
FaultyLeads == <<r3, r0, r1, r2>>

Request == [type |-> "Speculate", round |-> 0, op_hash |-> Bytes(7), eta |-> 0]
OneRequest == {Request}
Nothing == {}

ViewTimer == {RepairViewTimeout}
SyncTimer == {SyncTimeout}
ViewAndChkptTimers == {RepairViewTimeout, ChkptTimeout(0)}
ChkptTimer == {ChkptTimeout(0)}

ProofOfRound0 == [type |-> "TimeoutProof", round |-> 0, log_idx |-> 0]

Vote(t, v, h) == [type |-> t, from |-> r3, view |-> v, round |-> 0,
                  history_hash |-> h]

\* r3 leads view 0, proposes two histories and votes for both.
Equivocation ==
    {ProofOfRound0} \cup
    {Vote(t, 0, h) : t \in {"RepairHistory", "RepairPrepare", "RepairCommit"},
                     h \in {3, 4}}

\* r3 announces a repair that nobody applied, under two history hashes.
ForgedDone ==
    {ProofOfRound0, Vote("RepairHistory", 0, 3), Vote("RepairDone", 0, 3),
     Vote("RepairDone", 0, 4)}

\* r3 votes in view 0 and in view 1 and announces a repair nobody applied.
VotesInBothViews ==
    {ProofOfRound0, Vote("RepairPrepare", 0, 3), Vote("RepairPrepare", 1, 3),
     Vote("RepairDone", 0, 3)}

TimeoutAt(k) == [type |-> "TimeoutMsg", from |-> r3, round |-> k, log_idx |-> 0]

\* r3 leads view 0 of round 0 and proposes the empty history, which resets
\* the logs to size 0; it sends its TIMEOUTs for index 0 of both rounds.
EmptyHistory ==
    {ProofOfRound0, TimeoutAt(0), TimeoutAt(1)} \cup
    {Vote(t, 0, 0) : t \in {"RepairHistory", "RepairPrepare", "RepairCommit"}}

\* r0 hears of history 3 only, r2 of history 4 only, r1 of both; r1 votes
\* and does not learn of commits.
SplitByHistory(m, r) ==
    \/ m.type = "TimeoutProof"
    \/ m.type \in {"RepairHistory", "RepairPrepare"} /\ r = r1
    \/ /\ m.type \in {"RepairHistory", "RepairPrepare", "RepairCommit"}
       /\ \/ r = r0 /\ m.history_hash = 3
          \/ r = r2 /\ m.history_hash = 4

Leader(m) == NodesOrdered[(m.view % Len(NodesOrdered)) + 1]

\* REPAIR traffic only, LOGs to the leader of their view.
RepairTraffic(m, r) ==
    \/ m.type \in {"TimeoutMsg", "TimeoutProof", "RepairHistory",
                   "RepairPrepare", "RepairCommit", "RepairDone"}
    \/ m.type = "LogMsg" /\ r = Leader(m)

\* The same, but the votes of r3 reach only the leader of their view, and r2
\* hears of no commit: it leaves REPAIR by the REPAIR-DONEs, which only it gets.
VotesToLeader(m, r) ==
    /\ RepairTraffic(m, r)
    /\ m.type = "RepairPrepare" /\ m.from = r3 => r = Leader(m)
    /\ m.type = "RepairCommit" => r # r2
    /\ m.type = "RepairDone" => r = r2

\* REPAIR traffic of two replicas: r0 applies the repair, r1 catches up.
R1CatchesUp(m, r) ==
    /\ RepairTraffic(m, r)
    /\ m.type \in {"TimeoutMsg", "RepairCommit"} => r = r0
    /\ m.type = "RepairDone" => r = r1

\* r2 hears nothing, r1 what it takes to vote, and r0 TIMEOUTs and commits too;
\* the only proof that is delivered is that of r3.
WithoutR2(m, r) ==
    \/ r \in {r0, r1} /\ (m = ProofOfRound0 \/ m.type \in {"RepairHistory", "RepairPrepare"})
    \/ r = r0 /\ m.type = "RepairCommit"
    \/ r = r0 /\ m.type = "TimeoutMsg" /\ m.from # r2

\* SYNCs reach everyone; CHECKPOINTs and STATE-REPLYs only r1, which aligns.
CheckpointTraffic(m, r) ==
    \/ m.type = "Sync"
    \/ m.type \in {"Checkpoint", "StateReply"} /\ r = r1
    \/ m.type = "StateRequest" /\ r # m.from
=============================================================================
