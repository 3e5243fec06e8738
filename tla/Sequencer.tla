----------------------------- MODULE Sequencer ------------------------------
(***************************************************************************)
(* The sequencer crate: eta.rs and proxy.rs.  Several clients call submit  *)
(* at the same time; it takes a number and then broadcasts, in two steps.  *)
(*                                                                         *)
(* The broadcast channel is tokio's (external): a ring of Slots messages   *)
(* that every subscriber reads with a cursor of its own.  channel keeps all*)
(* that was ever broadcast; the ring is its last Slots messages.           *)
(***************************************************************************)
EXTENDS AspenTypes

CONSTANTS
    Client,          \* the callers of submit
    Ops,             \* the op_hash values they submit
    Subscriber,      \* the replicas that subscribe
    Slots,           \* slots of the ring: the capacity given to new
    MaxRequests      \* bound: no submit beyond this number

ASSUME SlotsAssumption == Slots \in Nat \ {0}
ASSUME OpsAssumption == Ops \subseteq Hash
ASSUME RequestAssumption == MaxRequests \in Nat

VARIABLES
    eta,             \* EtaAssigner's counter
    taken,           \* taken[c]: {}, or the request c numbered and not yet sent
    channel,         \* the broadcast messages, oldest first
    cursor           \* cursor[r]: 0 before subscribe, else the next position

\* The SPECULATE messages that submit can build.
Requests ==
    [type : {"Speculate"}, round : {0}, op_hash : Ops, eta : 0 .. MaxRequests - 1]

sequencer == <<eta, taken, channel, cursor>>

SequencerInit ==
    /\ eta = 0
    /\ taken = [c \in Client |-> {}]
    /\ channel = <<>>
    /\ cursor = [r \in Subscriber |-> 0]

Subscribed(r) == cursor[r] > 0

\* Mutant: the counter is read and written back, and not while another
\* client is between the two.
next_lost == IF \E d \in Client : taken[d] # {} THEN eta ELSE eta + 1

\* EtaAssigner::next: fetch_add, the counter after the call.
next == eta + 1

\* submit, first half: the request gets its number.
TakeEta(c, op) ==
    /\ eta < MaxRequests
    /\ taken[c] = {}
    /\ taken' = [taken EXCEPT ![c] = {[type |-> "Speculate", round |-> 0,
                                       op_hash |-> op, eta |-> eta]}]
    /\ eta' = next
    /\ UNCHANGED <<channel, cursor>>

\* submit, second half: without a subscriber the message is lost, and the
\* error of send is ignored.
Broadcast(c) ==
    /\ taken[c] # {}
    /\ \E m \in taken[c] :
        channel' = IF \E r \in Subscriber : Subscribed(r)
                     THEN Append(channel, m) ELSE channel
    /\ taken' = [taken EXCEPT ![c] = {}]
    /\ UNCHANGED <<eta, cursor>>

\* A subscriber sees what is sent after it subscribed.
Subscribe(r) ==
    /\ ~Subscribed(r)
    /\ cursor' = [cursor EXCEPT ![r] = Len(channel) + 1]
    /\ UNCHANGED <<eta, taken, channel>>

\* The position of the oldest message still in the ring.
Oldest == IF Len(channel) > Slots THEN Len(channel) - Slots + 1 ELSE 1

HasLagged(r) == Subscribed(r) /\ cursor[r] < Oldest

\* recv of a subscriber the ring has overtaken: the error Lagged, and the
\* cursor moves to the oldest message.
SkipLost(r) ==
    /\ HasLagged(r)
    /\ cursor' = [cursor EXCEPT ![r] = Oldest]
    /\ UNCHANGED <<eta, taken, channel>>

CanRecv(r) == Subscribed(r) /\ ~HasLagged(r) /\ cursor[r] <= Len(channel)

\* recv: the message at the cursor, see Received.
Recv(r) ==
    /\ CanRecv(r)
    /\ cursor' = [cursor EXCEPT ![r] = @ + 1]
    /\ UNCHANGED <<eta, taken, channel>>

Received(r) == channel[cursor[r]]
=============================================================================
