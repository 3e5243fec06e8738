# raspen in TLA+

A TLA+ development of [raspen](../src/README.md), a Rust implementation of the
Aspen BFT replicated state machine. TLC checks small clusters. TLAPS proves every
safety property those runs check for every cluster with `n > 3f`, all its rounds,
views and logs: that REPAIR agrees, what each message of a replica rests on, that
the actors implement the cluster of atomic steps and handle requests in order,
and that the RocksDB store implements an atomic log.

Paths below are relative to `src/raspen/crates/`.

## 1. The system

A replica is a pure state machine. `Node::start` runs it in an actor loop: take
one message or one timer event from a channel, call `process_message` or
`handle_event`, hand the returned effects to the transport. Replicas share
nothing; they interact only through messages. A sequencer numbers requests and
broadcasts them. The program that embeds the crates, called the host below, is not
in the repository: it connects sequencer, transport and timers to the nodes.

| Component | Source | State | Operations |
|---|---|---|---|
| Protocol types | `types/src` | `ReplicaState`, thresholds `n-p`, `n-f`, `f+1` | none |
| Log store | `storage/src/kv_store.rs` | entries by index; `MemKvStore` or RocksDB | `put`, `top_hash`, `hash_at`, `rebuild_from_entries` |
| Fast path | `consensus/src/fast_path.rs` | log, `kv_size` | append an entry, SPEC-REPLY |
| Checkpointing | `consensus/src/checkpoint.rs` | `sync_msgs`, `chkpt_idx`, `chkpt_hash` | SYNC by timer or threshold, form a checkpoint |
| Alignment | `consensus/src/alignment.rs` | `chkpt_msgs`, phase `Aligning` | STATE-REQUEST, STATE-REPLY, rebuild the log |
| Repair entry | `consensus/src/repair_entry.rs` | `timeout_msgs`, `in_repair` | conflict proof, TIMEOUT, timeout proof, enter on a proof |
| Repair agreement | `consensus/src/repair.rs` | phase, view, round, proposed history, five message sets | collect LOGs, propose, prepare, commit, apply, catch up, change view |
| Dispatch | `consensus/src/replica.rs` | none of its own | `process_message` runs fourteen stages on every message, in a fixed order; `handle_event` runs three |
| Node and transport | `consensus/src/node.rs`, `transport.rs` | bounded input channel, the actor's state machine | `start` (the loop), `submit_message`, `submit_event`; `execute`, with `broadcast` and `send` left to the host |
| Sequencer | `sequencer/src` | counter eta, broadcast channel | `submit`, `subscribe` |
| Client | not in the repository | | commits on `n-p` equal SPEC-REPLYs |

What is hard about it:

- every stage of `process_message` sees the state the earlier stages left, so
  one message can append, checkpoint, align and enter REPAIR in a single call;
- messages are kept in sets and counted, per message in most places and per
  sender in one; delivery is unordered, repeated and lossy, and up to `f`
  replicas send what they like;
- timers race messages: a view timer may expire at one replica after another
  has already voted in the old view;
- nothing is carried from view to view (a comment at `repair.rs:411` speaks of
  prepare certificates, the code has none), so agreement has to come from
  elsewhere (section 6);
- three ways rewrite the log (speculation, alignment, repair), and each has to
  keep the store, `kv_size`, `start_idx` and the checkpoint in step;
- `submit` numbers and broadcasts in two steps, slow subscribers are skipped
  ahead, callers wait on full channels while actors panic or shut down;
- the RocksDB store writes without sync and rebuilds in two writes, so that a
  crash can fall between any two of them.

What makes the parts correct: a checkpoint rests on `n-p` SYNCs; a timeout
proof on a correct replica's timer; correct replicas apply one history per
round, whatever the views; a vote to commit is not withdrawn; the flag
`in_repair` and the phase agree; the log stays chained and counted; REPAIR ends.
A replica handles what was broadcast to it, once and in order; calls return; a
crash leaves a log the replica could have had before.

## 2. Modules

| Module | Models |
|---|---|
| `AspenTypes` | configuration, digests, entries and the in-memory store, messages, events, the type of a replica's state |
| `FastPath`, `Checkpointing`, `Alignment`, `RepairEntry`, `Repair` | the five handler files: one operator per `can_`, `handle_` and `on_receive_` function, under its name |
| `Replica` | `Replica::new`, `process_message` (`fast_stages`, then `repair_stages`), `handle_event`, the addressees of a message |
| `Aspen` | the cluster: variables, actions, safety and liveness properties, `IInv` |
| `AspenBounded` | `Aspen` within bounds on log, rounds and views, for TLC |
| `AspenFair` | `AspenBounded` with what has arrived where, fairness and the liveness properties |
| `AspenClaims` | what the repository says of a replica and the code does not do |
| `RepairDecision` | abstract: one vote per replica and round, one decision per round |
| `AspenRefinement` | REPAIR-COMMITs as votes, REPAIR-DONEs as decisions: `Aspen` implements `RepairDecision` |
| `Sequencer` | `EtaAssigner`, `submit` in two steps, `subscribe`, the broadcast ring |
| `NodeActor` | the actor of `node.rs`: input channel, calls, the loop, panic, shutdown |
| `Service` | clients, `Sequencer` and `NodeActor` together |
| `ServiceRefinement` | `Service` implements `Aspen` |
| `KvLog` | abstract: a log that changes at once and that a crash takes back |
| `RocksStore` | the RocksDB store under one replica, with crashes and restarts; it implements `KvLog` |
| `MCAspen`, `MCAspenFair`, `MCService`, `MCStore` | instances for TLC |
| `AspenProofs` | theorems: types, phases, agreement |
| `AspenMoves` | what one stage of a handler may change, and that a handler is a walk of such moves; the lemmas of the next three |
| `AspenEvidence` | theorems: what the messages and rounds of a replica rest on |
| `AspenLogs` | theorems: the LOG messages and the log of a replica |
| `AspenDecision` | theorems: votes are locked, `Aspen` implements `RepairDecision` |
| `ServiceCluster` | theorems: `Service` implements `Aspen`, and agrees |
| `ServiceOrder` | theorems: the order in which requests are handled |
| `RocksStoreProofs` | theorems: `RocksStore` implements `KvLog` |

### The replicas

Handlers are functions from state to state: `can_x(s, m)` is the guard
function, `handle_x(s, ...)` the state after it, and the messages it returns are
added to `s.effects`. A stage is `IF can_x THEN handle_x ELSE s`; a step of the
cluster is the composition of all stages, as in the code. The `store_x`
operators are the insertions at the head of each `on_receive_x`.

State of `Aspen`: `rep[r]`, the `ReplicaState` of each correct replica, and
`sent`, everything correct replicas ever sent. Actions: `ReceiveMessage` (a
SPECULATE of the sequencer, anything sent, or anything a faulty replica may send)
and `TimerEvent`; each is one whole turn of the loop in `Node::start`, ended by
`Execute`. Messages are never removed from `sent`: delivery may happen late,
repeatedly or not at all. `Spec` has no bound; `BoundedSpec` of `AspenBounded`
adds those of TLC's runs as guards. `FairSpec` of `AspenFair` also records which
messages of correct replicas have arrived at `r` (`got[r]`), so that fairness can
ask for one arrival of each and for no second one.

Abstractions:

- digests are symbolic and collision free: `[b; 32]` is `<<b>>`, with `b` cut to
  8 bits as `k as u8` does, and SHA-256 of an entry is its content;
- `KvEntry.result` is left out (it is always empty), `ack_msgs` too (nothing
  writes it); `u64` is `Nat`;
- the sender a message names is authentic. The code has no signatures; without
  this assumption no quorum means anything;
- `find_map` over a `HashSet` of REPAIR-HISTORYs yields an arbitrary match:
  `pick` is that choice, made anew on each message. The real iteration order
  changes only when the set does, so this allows a little more than the code;
- a message is delivered only where `Reaches` allows it. The theorems hold for
  every `Reaches`, so for the one that is always `TRUE`; in the runs it cuts the
  network down to a scenario.

### Sequencer, actors, service

`Sequencer` keeps the counter, the requests between `fetch_add` and `send`
(`taken`), everything broadcast (`channel`) and a cursor per subscriber. The ring
is the last `Slots` messages; a subscriber it has overtaken gets `Lagged`
(`SkipLost`). A request broadcast before anyone subscribed is gone.

`NodeActor` keeps per replica the state machine, the accepted inputs (`inbox`,
at most `InboxCapacity`), the calls of `submit_message` and `submit_event` that
wait for room (`calls`, served in order as tokio's mpsc does), the effects not
yet handed over (`outbox`) and whether the host still holds the `Node`. A turn of
the loop is two steps, `Turn` up to the effects and `Executed` for
`Transport::execute`. `Panic` is a store write that fails (the `expect`s at
`fast_path.rs:60`, `alignment.rs:143` and `repair.rs:277`): the receiver is dropped with what was queued, waiting calls are
refused. The panicking handler's partial change of state is not kept, since
nothing can read it afterwards. `Stop` needs the channel closed and empty.

`Service` puts them together with the host's tasks, which are external: "pump"
passes on what it receives from the sequencer, one call at a time, "driver"
what peers sent and the timers. `mine`, `missed` and `handled` record history for
the properties and are read by nothing. Every correct replica may subscribe
(`SubscriberAssumption`), and no peer sends a SPECULATE (`FaultyMessageAssumption`).

`Cluster`, in `ServiceRefinement`, is `Aspen` with the state machines as `rep` and
everything on the wire or in an outbox as `sent`: `ImplementsCluster` is what
justifies `Aspen`'s atomic steps. It is an instance of `AspenProofs` rather than of
`Aspen`, which defines the same `Spec` and brings its theorems along, so that they
can be cited of the service.

### The store

`RocksStore` has the database (`db`: entries by index, and the size in the meta
column family) and `disk`, the states a crash may leave. A write batch is
atomic. The code never asks for sync, so a power failure loses any number of
the last writes and a killed process none: `disk` collects every state since the
database was opened. A write that fails panics, which the database sees as a
crash before it. `SpeculateEntry` is `handle_speculate` on this store,
`RebuildDelete` and `RebuildWrite` the two writes of `rebuild_from_entries` with
the handler that calls it, `RepairToZero` a repair that skips the rebuild,
`Start` is `open` with `Replica::new`. Its sizes come from the set `Sizes`, since
which size a handler rebuilds to is the cluster's business, not the store's.

`KvLog` is what the handlers take the store for. A rebuild maps to its first
write: from then on the abstract log is the new one, and `{<<>>, new}` join what a
crash may leave. That the empty log is among them is the weakness the abstract
specification records.

## 3. Runs that pass

The runs of `Aspen` check `BoundedSpec` or, for liveness, `FairSpec`: the log
(`MaxLog`: no speculation beyond it), the rounds (`MaxRound`: a replica that reaches
it stops) and the views (`MaxView`: no step beyond it) are bounded. `Service` bounds
the requests (`MaxRequests`).

| Run | Instance | Checks |
|---|---|---|
| `equivocation` | 4 replicas, 1 faulty that leads view 0, proposes two histories and votes for both; votes for history 3 reach r0, for 4 r2, r1 hears both (197 000 states) | `PhaseConsistency`, `RepairAgreement`, `CommitOnce`, `CommitCertified`, `DoneCertified`, `ImplementsDecision` |
| `views` | 4 replicas, 1 faulty that votes in two views and announces a repair nobody applied; view timers expire at will (172 000 states) | `RoundBacked`, `CommitLocked` |
| `checkpoints` | 2 replicas speculate, sync, checkpoint, raise conflict proofs; r1 aligns, with replies late and repeated (9 000 states) | `TypeOK`, `CheckpointBacked`, `ConflictProofGenuine`, `LogChained`, `SizeMatchesStore` |
| `rounds` | 2 replicas, two rounds of REPAIR; r0 applies, r1 catches up with its old log; r0's log grows to three entries on the two of the first repair and shrinks to two in the second; every message arrives once, proofs and TIMEOUTs of round 0 in round 1 too; no view timer (86 000 states) | `LogOnce`, `LogChained`, `SizeMatchesStore`, `RepairCompletes` |
| `faultyLeader` | 4 replicas, 1 faulty that leads round 0, has the empty history applied and sends TIMEOUTs of both rounds; index 0 is at the top in round 1 again (272 000 states) | `TimeoutProofGenuine`, `SizeMatchesStore` |
| `service` | 2 clients, 2 replicas, 2 requests, a ring of 1 slot, inboxes of 2; SYNCs and a timer compete with the requests at r1; panics, shutdowns (491 000 states) | `BroadcastOrder`, `ClientOrder`, `ImplementsCluster` |
| `delivery` | 1 client, inboxes of 1, the rest as in `service` (36 000 states) | `SubmitReturns`, `RequestsHandled` |
| `store` | logs up to 3 entries, rebuilds to every size, crashes at will (40 000 states) | `GapFree`, `SizeCovers`, `ImplementsKvLog` |

Why these bounds suffice. Four replicas with one faulty is the smallest cluster
in which quorums of `n-f` intersect in a correct replica and not in more. Two
histories and two views give every kind of conflict; a third adds another copy.
Two rounds let every message of a round meet the round after it. A TIMEOUT of
the first round can be mistaken for one of the second only if the same index is
at the top in both and one replica is not enough for a proof: hence `faultyLeader`
has `f = 1` and a repair to size 0. `checkpoints` and `rounds` need two replicas,
since the log of a replica depends on the others only through the index of a
STATE-REPLY and the size of a history. With two LOG senders a repair makes a log
of two entries; a bound of three leaves room for an entry speculated on a
synthetic one, and for the repair after it to cut that entry off. With
two requests and one slot a subscriber is late, overtaken or in time, and two
clients are the least that can swap; an inbox of one slot and two
tasks is the least at which a call waits behind another, an inbox of two the
least in which inputs could be taken out of order. Three entries are the least at
which a rebuild shrinks a log to something that is neither empty nor a single
entry, and `disk` grows without bound other than the number of such logs.

Deadlock is checked except where a run's scenario ends: `views`, `rounds`
and `faultyLeader`, when every replica has reached `MaxRound` or no
message changes anything, and the two runs of `Service`, when the requests are
used up or every actor has stopped.

Fairness of the cluster (`FairSpec`). `FairDelivery`: each message of a correct
replica arrives at each of its addressees, the sender of a broadcast among them,
once; when, and whether again, is open. The loop of `Node::start` takes inputs for
ever, but delivery is the host's: this is what `Transport::broadcast` and `send` are
for, and it is an assumption, for no implementation is in the repository. A message
that has arrived owes nothing more, even if it came too early or too late to be of
use. `FairViewTimers` says that a view timer that stays armed expires. Checkpoint
timers, requests and faulty replicas may do nothing. `RepairCompletes` starts where
every correct replica is in REPAIR of the round or through with it; that one replica
draws the others in is false (`claimRelay`).

Fairness of `Service`: the loop of each actor runs, the pump calls `recv`, and the
channel answers waiting calls; all weak, because tokio
serves callers of a full channel in order, and no other task can take a turn
away from one. Nothing makes clients submit, the host subscribe, timers fire or
the network deliver. `FairDelivery` and the first conjunct of `Service`'s
fairness are weak fairness with the enabling condition spelled out, for TLC's
sake.

## 4. Runs that refute a statement of the repository

| Run | The repository says | The code does |
|---|---|---|
| `claimCatchup` | `repair.rs:321`: `f+1` REPAIR-DONEs mean that a correct replica has left REPAIR | messages are counted, not senders: two REPAIR-DONEs of one faulty replica suffice |
| `claimRelay` | `repair_entry.rs:213`: who receives a proof re-broadcasts it, so that once one correct replica enters REPAIR all others do | `handle_enter_repair` (`repair_entry.rs:232`) sends a LOG only: a replica that a late proof of an earlier round sends into REPAIR stays there alone |
| `claimTermination` | `src/README.md:24`: after the agreement all replicas return to the fast path | a view timer is heeded in `CollectingLogs` only: a replica in `PreparePhase` is left behind in its view, and the others lack its LOG in theirs |
| `claimCheckpoints` | `src/specs/aspen.qnt:862`: correct replicas with the same checkpoint index agree on its hash | `handle_state_reply` computes the hash from a synthetic entry; a replica that aligned, even needlessly, differs from the rest |

`claimTermination` is not an artefact of `MaxView`: in its counterexample one of
two replicas sits in `PreparePhase` of view 0, which no timer leaves, and `n-f`
LOGs of a later view need it. Nor is `claimRelay` one of `MaxRound`: its replica waits
for LOGs that nobody sends; a view timer would take it to the next view, as alone as
before, and the peer joins only if a timer of its own happens to lead to a proof.

Also seen while modelling, and evident from the lines named:

- `can_enter_align` (`alignment.rs:29`) does not compare hashes, so that `f+1`
  CHECKPOINTs equal to the replica's own make it rebuild its log; a STATE-REPLY of
  a peer that is behind moves the checkpoint back (`alignment.rs:146`);
- SYNCs are counted per message (`checkpoint.rs:99`), and `eta_star` tells them
  apart: with `n-p` of them one faulty replica makes a checkpoint. Correct replicas
  never change `eta_star`;
- `can_conflict_proof` raises a false alarm when `p < f` and `n-f` consistent SYNCs
  arrive first; `ConflictProofGenuine` is therefore about `p >= f`. Even then a
  checkpoint may still be possible when the proof is formed, against the
  comment at `repair_entry.rs:23`: one deviating SYNC among `n-f` is enough;
- an entry records its index as `op_hash` (`fast_path.rs:51`), and nothing of the
  SPECULATE is read: replicas that missed or repeated requests send equal
  SPEC-REPLYs for different operations;
- a history of size 0, which only a faulty leader proposes, resets `kv_size` and
  not the store (`repair.rs:260`); `SizeMatchesStore` names the case;
- `Replica::new` sets `kv_size` to 0 over whatever a reopened store holds
  (`replica.rs:44`), and the next SPECULATE overwrites its first entry;
- `can_repair_prepare` (`repair.rs:103`) lets a replica vote twice in a view if a
  second proposal arrives, so that correct replicas may prepare different
  histories; what they commit to is one (section 6);
- the entries a repair writes are not chained (`repair.rs:268`), which is why
  `LogChained` lets a log begin with synthetic entries; its size is the number of
  LOG senders and may lie below the checkpoint (`repair.rs:283`); a replica that
  catches up keeps its own log (`repair.rs:363`);
- after an interrupted rebuild `size()` of the RocksDB store overstates the log
  until the next one; nothing calls it outside the tests;
- a restarted replica has forgotten its votes. The theorems hold for replicas
  that do not restart; one that does counts as faulty.

## 5. Theorems

All are about the unbounded `Spec` of their module and hold for all constants that
meet the assumptions of `AspenTypes` and `Aspen`: finite `Node`, `n > 3f`, `n > p`,
at most `f` faulty replicas, faulty messages that name a faulty sender and are no
SPECULATEs, any `Reaches` and any set of timers.

| Module | Theorem | States |
|---|---|---|
| `AspenProofs` | `InductiveInvariant` | `Spec => []IInv` |
| | `TypeCorrect` | `TypeOK`: every field keeps its type; in particular no `kv_size - 1` is taken of an empty log |
| | `PhasesConsistent` | `in_repair` holds exactly in the three phases of REPAIR |
| | `DonesCertified` | a REPAIR-DONE of a correct replica has REPAIR-COMMITs of `n-f` different replicas behind it |
| | `CommitsOnce` | a correct replica sends at most one REPAIR-COMMIT per round, across all views |
| | `RepairAgrees` | correct replicas that apply a repair in one round apply the same history |
| `AspenEvidence` | `EvidenceInvariant` | `Spec => []EvidenceInv` |
| | `CommitsCertified` | a REPAIR-COMMIT of a correct replica has REPAIR-PREPAREs of `n-f` different replicas behind it |
| | `TimeoutProofsGenuine` | a TIMEOUT-PROOF of a correct replica goes back to the expired timer of a correct replica |
| | `ConflictProofsGenuine` | where `p >= f`, a CONFLICT-PROOF goes back to a SYNC that contradicts a correct replica's log |
| | `CheckpointsBacked` | a CHECKPOINT rests on `n-p` SYNCs for its round, index and hash, among which each correct replica counts once |
| | `RoundsBacked` | a round is left only after a correct replica applied its repair, or on `f+1` REPAIR-DONEs of one view, all of faulty replicas |
| `AspenLogs` | `LogInvariant` | `Spec => []LogInv` |
| | `LogsSentOnce` | one LOG per view and round of each correct replica |
| | `LogsChained` | a log is a run of synthetic entries, at most up to `start_idx`, and then a chain |
| | `SizesMatchStores` | `kv_size` is the size of the store, or less at a replica that applied an empty history |
| `AspenDecision` | `CommitsLocked` | the action property `CommitLocked`: who voted to commit keeps view, vote and phase until the next round |
| | `ClusterImplementsDecision` | `Aspen` implements `RepairDecision` |
| `ServiceCluster` | `ServiceInvariant` | `Spec => []ServiceInv` |
| | `ServiceImplementsCluster` | `Service` implements `Aspen` |
| | `ServiceAgrees` | the agreement of REPAIR holds of the service |
| `ServiceOrder` | `RequestsInBroadcastOrder` | the j-th request a replica handles is the j-th broadcast it did not miss |
| | `RequestsInClientOrder` | requests of one client are handled in the order of their numbers |
| `RocksStoreProofs` | `StoreGapFree` | in every state a crash may leave, the entries are an initial segment of the indices |
| | `StoreSizeCovers` | the stored size covers them |
| | `StoreImplementsKvLog` | `RocksStore` implements `KvLog` |

The theorems of `Service` hold for every number of clients, requests, slots of the
ring and of the input channel, and under the assumptions named in section 2. Those
of `RocksStore` hold for every bound on the log and every set of sizes rebuilt to.

Where the code does not exclude what faulty replicas can do, the statement says
so instead of assuming it away: `RoundBacked` has the forged REPAIR-DONEs of
`claimCatchup` as its second case (`DonesForged`), `CheckpointBacked` counts the
messages of a faulty replica as often as it varies them, and `SizeMatchesStore` has the
empty history, which the run `faultyLeader` applies. What the theorems show is that
there is no other way.

## 6. The argument

The code carries no prepared certificate into a new view, so two views of one
round might be thought to decide differently. They cannot: entering
`CommitPhase` sends the only REPAIR-COMMIT of the round, and nothing but the
end of the round leaves `CommitPhase` (the view timer is heeded in
`CollectingLogs` alone, proofs are refused while `in_repair`). So a replica
commits once per round, not once per view; two REPAIR-DONEs of a round need
two quorums of `n-f` commits, which share a correct replica, which committed
to one history. The price is `claimTermination`.

None of this is inductive as stated. `IInv` adds, through `ReplicaInv`:

- the flag and the phase agree, so a proof never reopens REPAIR after a vote;
- a commit already sent in the current round ties the replica to
  `CommitPhase`, to its view and to its proposed history, so that it cannot
  send another, and what it applies is what it voted for;
- collected commits were really sent, by correct replicas or by faulty ones in
  their own name, so that a count over `repair_commit_msgs` is evidence;
- commits of one replica are equal within a round, and every REPAIR-DONE
  about to be sent is vouched for by a quorum.

`ReplicaInv(r, s, S)` speaks of the state in the middle of a call (`S` is what was
sent before, `s.effects` what the call has added), and there is one lemma per
stage: `QuietStep` for the stages that touch no repair field, `StoreSteps` for
the insertions, `StartRepairStep`, `ProposeStep`, `RepairCommitStage`,
`NextRoundStep` for applying and catching up. `CommitQuorum` is the step from counted
messages to different senders: for one view, round and history a message is
determined by its sender. `ProcessMessageInv` and `HandleEventInv` chain the
stages, `ExecuteInv` hands the effects over, `NextInv` closes the induction.
`QuorumIntersection` is the counting fact behind `AgreementFromInv`.

The other theorems about the cluster do not go back to the stages. `AspenMoves`
says once what a stage may do: `Keep` a message, speculate, send a SYNC, form a
checkpoint, answer, align, recover, enter REPAIR, propose, commit, change view,
apply, catch up. `HandledWalk` is the form of induction they need: a set of
states that every move keeps is kept by a whole call of `process_message` or
`handle_event`. `RoundWalk` adds that a call makes its moves within one round and
leaves it at most once, at the end. One lemma per theorem then goes through the moves.

`EvidenceInv` is about provenance: what a replica has collected was sent, by a
correct replica or by a faulty one in its own name, and whatever a correct
replica sends is `Justified` by what had been sent. The guards count messages;
`SenderCount` turns such a count into one of senders where the counted messages
can differ in nothing else: for REPAIR-PREPAREs the guard fixes view, round and
history. For SYNCs `eta_star` is left, which correct replicas leave at 0, so that
theirs count once and only those of faulty ones can count more often. For
REPAIR-DONEs the history is left: of `f+1` counted messages either one is of a
correct replica, which applied the repair, or all are of faulty ones, and then they
are `DonesForged`. That some sender of a TIMEOUT-PROOF is correct is `FaultyCount`: `f+1`
senders are not all faulty.

`LogInv` adds three things. A LOG of the current round means that the replica is
in REPAIR and has not returned to an earlier view, so that entering or changing
view sends a LOG that is new (`MoveLogs`). The log is `Chained` from some `b` and not
shorter than `kv_size` (`MoveChained`): a speculation overwrites or appends exactly
one entry, pointing at the one below, and a rebuild sets `start_idx` to the new
size or to one below it. An empty history sets both to 0 over a longer store, and
the next speculations overwrite it from the bottom. And `kv_size` is the size of the
store (`Sized`, `MoveSized`), unless the replica has sent the REPAIR-DONE of an empty
history; it has sent it by the end of the step in which the two part.

`ClusterImplementsDecision` looks at whole steps. By `RoundWalk` a step concerns one
round of one replica: its new votes are for that round and, by the invariant, the
first there (`StepVotes`); its new decisions equal an earlier one by agreement or
are the round's first and have a quorum (`StepDecisions`). One step may do both,
when the commit that completes a quorum is the replica's own.

`ServiceImplementsCluster` needs `ServiceInv`: whatever waits in a channel, or in a
call for it, could be delivered by the cluster too, as a request, a message on the
wire or of a faulty replica, or a timer event. The wire only grows, so it stays
deliverable however long it waits, and the turn that takes it is a step of the
cluster (`TurnIsStep`); handing the effects over moves them from an outbox to the
wire and is a stutter (`SendIsStutter`), as is all else. The instance `Cluster` has its
own copies of the handlers; the `Same` lemmas show them equal to the ones of
`NodeActor`, operator by operator.

`ServiceOrder` is an argument about positions of the broadcast channel. `Due(r)` are
those that `r` received, `Waiting(r)` is its channel followed by the waiting calls as one
queue, and the `Rank` of a position is its place among the due ones. The invariant
(`Pumped`) says that the requests handled are those of rank 1, 2, and so on, that
the requests in the queue are due, come in the order of their positions and have
later ranks, and that every later rank is in the queue. Passing a request on adds
the greatest position and puts it last (`PipePush`), accepting a call changes no
place in the queue (`JoinAccept`), a turn that takes a request takes the next rank
(`PipePop`), subscribing late and lagging lose positions that were never due
(`PumpedLoses`). That no queued message of a peer is a request needs a pass through all
stages (`HandledSends`: no handler sends a SPECULATE). For `ClientOrder`, `NumbersInv` says
that a client's numbers rise, no other client has them, and that the one between the
two halves of `submit` is its last and not yet in the channel.

The store's argument is separate. `GapFree` is not inductive: a put beyond the end
would leave a gap. `StoreInv` adds that a replica between two calls counts no
more entries than the database holds. A speculation keeps that, a rebuild sets
both alike, and a restart counts from 0, over whatever the disk holds: the line
that makes the count wrong is what keeps the log free of gaps. The refinement
takes one lemma per step: `AsLogPut` shows that a put into the function of
entries is `put` on the sequence, the first write of a rebuild is `Rebuild`, the
second changes nothing that `KvLog` sees, and a crash picks one of the logs it
allows.

Model-checked only: the liveness properties `RepairCompletes`, `SubmitReturns` and
`RequestsHandled`, which rest on fairness and are out of the prover's reach. Their
runs are small, and they hold for the instances of section 3 and no more. The statements
refuted in section 4 are false, and there is nothing to prove about them.

## 7. Not modelled

- The client, whose code is not in the repository. `Service` has its calls to
  `submit`.
- Implementations of `Transport` and the host's tasks: the repository has none
  outside its tests. They are modelled as far as the code in it constrains
  them.
- The store's `set_chkpt_idx`, `set_chkpt_hash` and their getters, which nothing
  calls; `size` likewise.
- Encoding (bincode, serde) and hashing, taken as injective.
- `specs/aspen.qnt` is a model itself. Three of its invariants,
  `phase_consistency`, `checkpoint_agreement` and the LOG half of
  `no_honest_equivocation`, are checked against the code here. Its
  `repair_history_agreement` does not hold of the code, as section 4 says of
  `can_repair_prepare`.

## 8. Plan

The model covers what the repository implements, and every safety property that a
passing run checks is a theorem. What is left:

1. The properties of `AspenEvidence`, `AspenLogs` and `AspenDecision`, carried over to
   the service by `ServiceImplementsCluster` as `ServiceAgrees` does for agreement.
2. That `claimTermination` and `claimRelay` have no other cause: that a replica which
   stays in REPAIR is in `PreparePhase` of a view its peers left, or has peers that no
   proof reached.
3. The store beneath the cluster: the sizes `RocksStore` is rebuilt to as those the
   cluster proposes.
