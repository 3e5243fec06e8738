------------------------------ MODULE Service -------------------------------
(***************************************************************************)
(* Clients, the sequencer and the replicas' actors together.               *)
(*                                                                         *)
(* Two tasks of the host (external) feed every replica: "pump" passes on   *)
(* what it receives from the broadcast channel, "driver" what peers sent   *)
(* and the timer events.  mine, missed and handled record the history of  *)
(* the requests; no code reads them.                                       *)
(***************************************************************************)
EXTENDS Sequencer, NodeActor

CONSTANTS FaultyMessages, Reaches(_, _), Timers

ASSUME FaultyMessageAssumption ==
    /\ FaultyMessages \subseteq Message \ Speculate
    /\ \A m \in FaultyMessages : "from" \in DOMAIN m => m.from \in Faulty
ASSUME TimerAssumption == Timers \subseteq Event
ASSUME SubscriberAssumption == Correct \subseteq Subscriber

VARIABLES
    wire,            \* every message handed to the transport
    mine,            \* mine[c]: the numbers submit returned to client c, in order
    missed,          \* missed[r]: the positions of channel that r never receives
    handled          \* handled[r]: the requests given to r's process_message

history == <<mine, missed, handled>>
vars == <<sequencer, actors, wire, history>>

\* What the replicas have sent: on the wire, or about to be.
produced == wire \cup UNION {outbox[r] : r \in Correct}

Init ==
    /\ SequencerInit
    /\ ActorInit
    /\ wire = {}
    /\ mine = [c \in Client |-> <<>>]
    /\ missed = [r \in Correct |-> {}]
    /\ handled = [r \in Correct |-> <<>>]

-----------------------------------------------------------------------------
(* Clients.                                                                *)

SubmitNumber(c, op) ==
    /\ TakeEta(c, op)
    /\ mine' = [mine EXCEPT ![c] = Append(@, eta)]
    /\ UNCHANGED <<actors, wire, missed, handled>>

SubmitBroadcast(c) == Broadcast(c) /\ UNCHANGED <<actors, wire, history>>

-----------------------------------------------------------------------------
(* The host's tasks.                                                       *)

PumpSubscribe(r) ==
    /\ Subscribe(r)
    /\ missed' = [missed EXCEPT ![r] = DOMAIN channel]
    /\ UNCHANGED <<actors, wire, mine, handled>>

PumpRequest(r) ==
    /\ Recv(r)
    /\ StartCall(r, "pump", Received(r))
    /\ UNCHANGED <<wire, history>>

PumpLagged(r) ==
    /\ held[r]
    /\ ~InCall(r, "pump")
    /\ SkipLost(r)
    /\ missed' = [missed EXCEPT ![r] = @ \cup cursor[r] .. Oldest - 1]
    /\ UNCHANGED <<actors, wire, mine, handled>>

NetDeliver(r) ==
    /\ \E m \in wire \cup FaultyMessages :
        Reaches(m, r) /\ AddressedTo(m, r) /\ StartCall(r, "driver", m)
    /\ UNCHANGED <<sequencer, wire, history>>

TimerFires(r) ==
    /\ \E e \in Timers : Reaches(e, r) /\ StartCall(r, "driver", e)
    /\ UNCHANGED <<sequencer, wire, history>>

Accept(r) == CallAccepted(r) /\ UNCHANGED <<sequencer, wire, history>>

Refuse(r) == CallRefused(r) /\ UNCHANGED <<sequencer, wire, history>>

HostDrops(r) == DropNode(r) /\ UNCHANGED <<sequencer, wire, history>>

-----------------------------------------------------------------------------
(* The actor.                                                              *)

TurnPicks(r) ==
    IF NextInput(r) \in Message THEN Picks(state[r], NextInput(r)) ELSE {0}

ActorTurn(r) ==
    /\ AtInput(r)
    /\ \E pick \in TurnPicks(r) : Turn(r, pick)
    /\ handled' = IF NextInput(r).type = "Speculate"
                    THEN [handled EXCEPT ![r] = Append(@, NextInput(r))]
                    ELSE handled
    /\ UNCHANGED <<sequencer, wire, mine, missed>>

ActorSends(r) ==
    /\ Executed(r)
    /\ wire' = wire \cup outbox[r]
    /\ UNCHANGED <<sequencer, history>>

ActorPanics(r) ==
    /\ AtInput(r)
    /\ \E pick \in TurnPicks(r) : Panic(r, pick)
    /\ UNCHANGED <<sequencer, wire, history>>

ActorStops(r) == Stop(r) /\ UNCHANGED <<sequencer, wire, history>>

Next ==
    \/ \E c \in Client : (\E op \in Ops : SubmitNumber(c, op)) \/ SubmitBroadcast(c)
    \/ \E r \in Correct :
        \/ PumpSubscribe(r) \/ PumpRequest(r) \/ PumpLagged(r)
        \/ NetDeliver(r) \/ TimerFires(r)
        \/ Accept(r) \/ Refuse(r) \/ HostDrops(r)
        \/ ActorTurn(r) \/ ActorSends(r) \/ ActorPanics(r) \/ ActorStops(r)

\* Fairness: the loops and the tasks run, and the channel serves its callers.
\* The first line is WF_vars(ActorTurn(r)) with its enabling condition written
\* out, which spares TLC from deriving it through all the stages.
Fairness ==
    \A r \in Correct :
        /\ []<>~AtInput(r) \/ []<><<ActorTurn(r)>>_vars
        /\ WF_vars(ActorSends(r))
        /\ WF_vars(ActorStops(r))
        /\ WF_vars(PumpRequest(r))
        /\ WF_vars(PumpLagged(r))
        /\ WF_vars(Accept(r))
        /\ WF_vars(Refuse(r))

Spec == Init /\ [][Next]_vars /\ Fairness

-----------------------------------------------------------------------------
(* Properties.                                                             *)

\* How many of the first p requests broadcast were not lost on r.
NotMissed(r, p) == Cardinality((1 .. p) \ missed[r])

\* A replica handles the requests it was sent in the order of the broadcast,
\* each once, with no gap but the ones it missed by subscribing late or by
\* lagging: the j-th request it handles is the j-th it did not miss, and
\* neither the ring, the pump nor the actor's queue loses, repeats or swaps
\* one (proxy.rs:53, node.rs:33).
BroadcastOrder ==
    \A r \in Correct : \A j \in DOMAIN handled[r] :
        \E p \in 1 .. cursor[r] - 1 :
            /\ handled[r][j] = channel[p]
            /\ p \notin missed[r]
            /\ j = NotMissed(r, p)

\* Every replica handles the requests of one client in the order the client
\* submitted them, each under a number of its own, although other clients
\* submit at the same time and submit numbers and broadcasts in two steps
\* (proxy.rs:51).
ClientOrder ==
    \A r \in Correct, c \in Client :
        \A j, k \in DOMAIN handled[r], a, b \in DOMAIN mine[c] :
            /\ handled[r][j].eta = mine[c][a]
            /\ handled[r][k].eta = mine[c][b]
            => (j < k <=> a < b)

\* submit_message and submit_event return, also when the channel is full and
\* when the actor panics while the caller waits (node.rs:61, 68).
SubmitReturns ==
    \A r \in Correct, k \in Task : InCall(r, k) ~> ~InCall(r, k)

BroadcastTo(r, p) == Subscribed(r) /\ p \in DOMAIN channel

\* A request broadcast to a subscriber is handled by it, unless it is missed,
\* the actor panics, or the host drops the Node before the pump passed the
\* request on: what was passed on is handled even then (node.rs:33).
RequestsHandled ==
    \A r \in Correct, p \in 1 .. MaxRequests :
        BroadcastTo(r, p) ~>
            /\ BroadcastTo(r, p)
            /\ \/ \E j \in DOMAIN handled[r] : handled[r][j] = channel[p]
               \/ p \in missed[r]
               \/ status[r] = "panicked"
               \/ ~held[r] /\ cursor[r] <= p
=============================================================================
