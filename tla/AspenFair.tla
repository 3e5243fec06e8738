----------------------------- MODULE AspenFair ------------------------------
(***************************************************************************)
(* The bounded cluster over a transport that delivers what it is given:    *)
(* every message a correct replica broadcasts or sends arrives at each of  *)
(* its addressees once, the sender of a broadcast among them.  When is     *)
(* open: it may arrive late, after other messages, and again.              *)
(***************************************************************************)
EXTENDS AspenBounded

VARIABLE got         \* got[r]: the messages of correct replicas that arrived at r

fairVars == <<vars, got>>

FairInit == Init /\ got = [r \in Correct |-> {}]

Arrives(r, m) ==
    /\ Reaches(m, r)
    /\ ReceiveMessage(r, m)
    /\ got' = [got EXCEPT ![r] = @ \cup ({m} \cap sent)]

FairNext ==
    \E r \in Correct :
        /\ rep[r].round < MaxRound
        /\ \/ /\ rep[r].kv_size < MaxLog
              /\ \E m \in Requests : ReceiveMessage(r, m)
              /\ UNCHANGED got
           \/ \E m \in sent \cup FaultyMessages : Arrives(r, m)
           \/ \E e \in Timers : TimerEvent(r, e) /\ UNCHANGED got
        /\ rep'[r].view <= MaxView

-----------------------------------------------------------------------------
(* Fairness: what a message owes is one arrival, never a second one, and an*)
(* armed view timer expires.  No checkpoint timer, request or faulty       *)
(* replica has to act.                                                     *)

Deliver(r) ==
    /\ rep[r].round < MaxRound
    /\ \E m \in sent \ got[r] : Arrives(r, m)

ViewTimerExpires(r) ==
    /\ RepairViewTimeout \in Timers
    /\ rep[r].round < MaxRound
    /\ TimerEvent(r, RepairViewTimeout)
    /\ rep'[r].view <= MaxView
    /\ UNCHANGED got

CanDeliver(r) ==
    /\ rep[r].round < MaxRound
    /\ \E m \in sent \ got[r] : Reaches(m, r) /\ AddressedTo(m, r)

\* WF_fairVars(Deliver(r)) for every r with the enabling condition written
\* out, which spares TLC from deriving it through all the stages.
FairDelivery ==
    \A r \in Correct : []<>~CanDeliver(r) \/ []<><<Deliver(r)>>_fairVars

FairViewTimers == \A r \in Correct : WF_fairVars(ViewTimerExpires(r))

FairSpec == FairInit /\ [][FairNext]_fairVars /\ FairDelivery /\ FairViewTimers

-----------------------------------------------------------------------------
(* Liveness.                                                               *)

Repairing(r, k) == rep[r].in_repair /\ rep[r].round = k

\* Once every correct replica has entered REPAIR of a round, or left it, all
\* of them return to the fast path in the next round (README.md:24): the
\* LOGs, the votes and the REPAIR-DONEs that it takes are sent once and may
\* arrive before, between and after any others.  With view timers it is
\* refuted (claimTermination).
RepairCompletes ==
    \A k \in 0 .. MaxRound - 1 :
        (\A r \in Correct : Repairing(r, k) \/ rep[r].round > k)
            ~> (\A r \in Correct : rep[r].round > k)

\* Refuted (claimRelay): once one correct replica enters REPAIR of a round, all
\* others do so (repair_entry.rs:213).
RepairSpreads ==
    \A k \in 0 .. MaxRound - 1 : \A r, q \in Correct :
        Repairing(r, k) ~> Repairing(q, k) \/ rep[q].round > k
=============================================================================
