--------------------------- MODULE RepairDecision ---------------------------
(***************************************************************************)
(* What the agreement of REPAIR promises, without phases, views, messages  *)
(* or replicas that come and go: in every round a correct replica votes    *)
(* for at most one history, and a round is decided once, for a history that*)
(* n - f replicas voted for, the faulty ones counted as if they had.       *)
(***************************************************************************)
EXTENDS AspenTypes

VARIABLES
    votes,           \* [from, round, hist]: a correct replica's vote
    decided          \* [round, hist]: the history applied in the round

decision == <<votes, decided>>

Init == votes = {} /\ decided = {}

Vote(v) ==
    /\ v.from \in Correct
    /\ ~\E w \in votes : w.from = v.from /\ w.round = v.round
    /\ votes' = votes \cup {v}

Supporters(d) ==
    {v.from : v \in {w \in votes : w.round = d.round /\ w.hist = d.hist}}
        \cup Faulty

Decide(d) ==
    /\ ~\E e \in decided : e.round = d.round
    /\ Cardinality(Supporters(d)) >= byz_quorum
    /\ decided' = decided \cup {d}

\* A replica may vote and, finding the votes of the others already there,
\* decide in one step.  The step's outcome names v and d, so that TLC need
\* not look for them in an infinite set.
NewVote == \E v \in votes' \ votes : Vote(v)
NewDecision == \E d \in decided' \ decided : Decide(d)

Next ==
    \/ NewVote /\ UNCHANGED decided
    \/ NewDecision /\ UNCHANGED votes
    \/ NewVote /\ NewDecision

Spec == Init /\ [][Next]_decision
=============================================================================
