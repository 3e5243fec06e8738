----------------------------- MODULE NodeActor ------------------------------
(***************************************************************************)
(* node.rs: every replica runs in an actor behind a bounded input channel. *)
(* Tasks of the host (external) call submit_message and submit_event; a    *)
(* call waits while the channel is full and fails once the actor is gone.  *)
(* The actor's loop takes one input, runs the state machine on it, and     *)
(* hands the effects to the transport.                                     *)
(*                                                                         *)
(* The channel is tokio's mpsc (external): it gives room to waiting calls  *)
(* in the order they came, it stays open while the host keeps the Node or a*)
(* call is under way, and what it accepted is received even after that.    *)
(***************************************************************************)
EXTENDS Replica

CONSTANTS
    Task,            \* the host's tasks, by what they submit
    InboxCapacity    \* the capacity given to Node::start

ASSUME InboxAssumption == InboxCapacity \in Nat \ {0}

VARIABLES
    state,           \* state[r]: the state machine
    status,          \* status[r]: "running", "panicked" or "stopped"
    held,            \* held[r]: FALSE once the host has dropped the Node
    inbox,           \* inbox[r]: the accepted inputs
    calls,           \* calls[r]: the calls under way, oldest first
    outbox           \* outbox[r]: effects not yet handed to the transport

actors == <<state, status, held, inbox, calls, outbox>>

ActorInit ==
    /\ state = [r \in Correct |-> new(r)]
    /\ status = [r \in Correct |-> "running"]
    /\ held = [r \in Correct |-> TRUE]
    /\ inbox = [r \in Correct |-> <<>>]
    /\ calls = [r \in Correct |-> <<>>]
    /\ outbox = [r \in Correct |-> {}]

InCall(r, k) == \E j \in DOMAIN calls[r] : calls[r][j].task = k

\* submit_message and submit_event: the call starts, and waits its turn.
StartCall(r, k, i) ==
    /\ held[r]
    /\ ~InCall(r, k)
    /\ calls' = [calls EXCEPT ![r] = Append(@, [task |-> k, input |-> i])]
    /\ UNCHANGED <<state, status, held, inbox, outbox>>

\* The oldest call returns Ok: there is room in the channel.
CallAccepted(r) ==
    /\ status[r] = "running"
    /\ calls[r] # <<>>
    /\ Len(inbox[r]) < InboxCapacity
    /\ inbox' = [inbox EXCEPT ![r] = Append(@, Head(calls[r]).input)]
    /\ calls' = [calls EXCEPT ![r] = Tail(@)]
    /\ UNCHANGED <<state, status, held, outbox>>

\* The call returns "replica actor is no longer running".
CallRefused(r) ==
    /\ status[r] \in {"panicked", "stopped"}
    /\ calls[r] # <<>>
    /\ calls' = [calls EXCEPT ![r] = Tail(@)]
    /\ UNCHANGED <<state, status, held, inbox, outbox>>

\* Mutant: the input is handled a second time, as a retry would.
Handled_retried(s, i, pick) ==
    IF i \in Message
      THEN process_message(process_message(s, i, pick), i, pick)
      ELSE handle_event(s, i)

\* The state machine on one input: process_message or handle_event.
Handled(s, i, pick) ==
    IF i \in Message THEN process_message(s, i, pick) ELSE handle_event(s, i)

\* Mutant: the newest input first.
NextInput_newest(r) == inbox[r][Len(inbox[r])]

NextInput(r) == Head(inbox[r])

\* The loop is at blocking_recv and there is an input.
AtInput(r) == status[r] = "running" /\ outbox[r] = {} /\ inbox[r] # <<>>

\* One turn of the loop, up to the effects the state machine returns.
Turn(r, pick) ==
    /\ AtInput(r)
    /\ LET s == Handled(state[r], NextInput(r), pick)
       IN  /\ state' = [state EXCEPT ![r] = [s EXCEPT !.effects = {}]]
           /\ outbox' = [outbox EXCEPT ![r] = s.effects]
    /\ inbox' = [inbox EXCEPT ![r] = Tail(@)]
    /\ UNCHANGED <<status, held, calls>>

\* The turn ends: Transport::execute has taken the effects.
Executed(r) ==
    /\ outbox[r] # {}
    /\ outbox' = [outbox EXCEPT ![r] = {}]
    /\ UNCHANGED <<state, status, held, inbox, calls>>

\* Mutant: the panic is caught with the receiver still alive; callers wait
\* for a loop that is gone.
Panic_keeps(r, pick) ==
    /\ AtInput(r)
    /\ Handled(state[r], NextInput(r), pick).kv_store # state[r].kv_store
    /\ status' = [status EXCEPT ![r] = "wedged"]
    /\ UNCHANGED <<state, held, inbox, calls, outbox>>

\* A write to the store fails and the handler's expect panics (fast_path.rs:60,
\* alignment.rs:143, repair.rs:277): the loop unwinds, the receiver and what it
\* had not received are dropped.
Panic(r, pick) ==
    /\ AtInput(r)
    /\ Handled(state[r], NextInput(r), pick).kv_store # state[r].kv_store
    /\ status' = [status EXCEPT ![r] = "panicked"]
    /\ inbox' = [inbox EXCEPT ![r] = <<>>]
    /\ UNCHANGED <<state, held, calls, outbox>>

\* The host drops the Node; calls under way keep the channel open.
DropNode(r) ==
    /\ held[r]
    /\ held' = [held EXCEPT ![r] = FALSE]
    /\ UNCHANGED <<state, status, inbox, calls, outbox>>

Closed(r) == ~held[r] /\ calls[r] = <<>>

\* Mutant: the loop breaks as soon as the channel is closed.
Stop_undrained(r) ==
    /\ status[r] = "running" /\ outbox[r] = {}
    /\ Closed(r)
    /\ status' = [status EXCEPT ![r] = "stopped"]
    /\ UNCHANGED <<state, held, inbox, calls, outbox>>

\* blocking_recv returns None: closed, and nothing left to receive.
Stop(r) ==
    /\ status[r] = "running" /\ outbox[r] = {}
    /\ Closed(r)
    /\ inbox[r] = <<>>
    /\ status' = [status EXCEPT ![r] = "stopped"]
    /\ UNCHANGED <<state, held, inbox, calls, outbox>>
=============================================================================
