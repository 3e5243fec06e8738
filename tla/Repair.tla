------------------------------- MODULE Repair -------------------------------
(***************************************************************************)
(* repair.rs: the PBFT-style agreement on a merged history.                *)
(***************************************************************************)
EXTENDS AspenTypes, RepairEntry

\* Replica::is_leader
is_leader(s) ==
    /\ NodesOrdered # <<>>
    /\ NodesOrdered[(s.view % Len(NodesOrdered)) + 1] = s.node_id

\* The collected messages of set M for the replica's view and round.
Current(s, M) == {m \in M : m.view = s.view /\ m.round = s.round}

LogSenders(s) == {m.from : m \in Current(s, s.log_msgs)}

can_broadcast_history(s) ==
    /\ s.phase = "CollectingLogs"
    /\ is_leader(s)
    /\ Cardinality(LogSenders(s)) >= byz_quorum

RepairVote(s, t, h) == [type |-> t, from |-> s.node_id, view |-> s.view,
                        round |-> s.round, history_hash |-> h]

\* The history hash is the number of LOG senders.
handle_broadcast_history(s, h) ==
    [s EXCEPT !.phase = "PreparePhase",
              !.proposed_history_hash = h,
              !.effects = @ \cup {RepairVote(s, "RepairHistory", h)}]

store_log_msg(s, m) ==
    IF m.type = "LogMsg" THEN [s EXCEPT !.log_msgs = @ \cup {m}] ELSE s

try_broadcast_history(s) ==
    IF can_broadcast_history(s)
      THEN handle_broadcast_history(s, Cardinality(LogSenders(s)))
      ELSE s

on_receive_log_msg(s, m) == try_broadcast_history(store_log_msg(s, m))

\* The hashes that find_map may return: the first match in the iteration
\* order of a HashSet, hence any of them.
HistoryChoices(s) ==
    {m.history_hash : m \in Current(s, s.repair_history_msgs)}

\* pick resolves the choice; a REPAIR-HISTORY of any sender is accepted.
can_repair_prepare(s, pick) ==
    /\ s.phase \in {"CollectingLogs", "PreparePhase"}
    /\ pick \in HistoryChoices(s)

handle_repair_prepare(s, h) ==
    [s EXCEPT !.phase = "PreparePhase",
              !.proposed_history_hash = h,
              !.effects = @ \cup {RepairVote(s, "RepairPrepare", h)}]

store_repair_history(s, m) ==
    IF m.type = "RepairHistory"
      THEN [s EXCEPT !.repair_history_msgs = @ \cup {m}] ELSE s

try_repair_prepare(s, pick) ==
    IF can_repair_prepare(s, pick) THEN handle_repair_prepare(s, pick) ELSE s

on_receive_repair_history(s, m, pick) ==
    try_repair_prepare(store_repair_history(s, m), pick)

\* The votes of set M for the replica's view, round and proposed history.
VotesForProposal(s, M) ==
    {m \in Current(s, M) : m.history_hash = s.proposed_history_hash}

\* Mutant: f+1 REPAIR-PREPAREs are enough.
can_repair_commit_f_plus_1(s) ==
    /\ s.phase = "PreparePhase"
    /\ Cardinality(VotesForProposal(s, s.repair_prepare_msgs)) >= f_plus_1

can_repair_commit(s) ==
    /\ s.phase = "PreparePhase"
    /\ Cardinality(VotesForProposal(s, s.repair_prepare_msgs)) >= byz_quorum

\* Mutant: the voted size is taken over before the repair is applied.
handle_repair_commit_early(s) ==
    [s EXCEPT !.phase = "CommitPhase",
              !.kv_size = s.proposed_history_hash,
              !.effects = @ \cup
                  {RepairVote(s, "RepairCommit", s.proposed_history_hash)}]

handle_repair_commit(s) ==
    [s EXCEPT !.phase = "CommitPhase",
              !.effects = @ \cup
                  {RepairVote(s, "RepairCommit", s.proposed_history_hash)}]

store_repair_prepare(s, m) ==
    IF m.type = "RepairPrepare"
      THEN [s EXCEPT !.repair_prepare_msgs = @ \cup {m}] ELSE s

try_repair_commit(s) == IF can_repair_commit(s) THEN handle_repair_commit(s) ELSE s

on_receive_repair_prepare(s, m) == try_repair_commit(store_repair_prepare(s, m))

\* Mutants: f+1 REPAIR-COMMITs are enough; REPAIR-PREPAREs are counted.
can_apply_repair_f_plus_1(s) ==
    /\ s.phase = "CommitPhase"
    /\ Cardinality(VotesForProposal(s, s.repair_commit_msgs)) >= f_plus_1

can_apply_repair_prepares(s) ==
    /\ s.phase = "CommitPhase"
    /\ Cardinality(VotesForProposal(s, s.repair_prepare_msgs)) >= byz_quorum

can_apply_repair(s) ==
    /\ s.phase = "CommitPhase"
    /\ Cardinality(VotesForProposal(s, s.repair_commit_msgs)) >= byz_quorum

\* What apply_repair broadcasts for the round that ends.
DoneMessages(s) ==
    {RepairVote(s, "RepairDone", s.proposed_history_hash),
     [type |-> "CommittedReply", from |-> s.node_id, round |-> s.round,
      log_idx |-> s.kv_size]}

\* Mutants: in_repair is not cleared; the log that is written has one entry
\* too many.
handle_apply_repair_flag(s) ==
    [s EXCEPT !.phase = "Speculative",
              !.round = @ + 1,
              !.effects = @ \cup DoneMessages(s)]

handle_apply_repair_long(s) ==
    LET merged == s.proposed_history_hash
    IN  [s EXCEPT !.kv_store = rebuilt(merged + 1),
                  !.phase = "Speculative",
                  !.round = @ + 1,
                  !.start_idx = merged,
                  !.kv_size = merged,
                  !.in_repair = FALSE,
                  !.effects = @ \cup DoneMessages(s)]

\* The log becomes merged synthetic entries; with merged = 0 the store keeps
\* its entries.  chkpt_idx and chkpt_hash are left alone.
handle_apply_repair(s) ==
    LET merged == s.proposed_history_hash
    IN  [s EXCEPT !.kv_store = IF merged > 0 THEN rebuilt(merged) ELSE @,
                  !.phase = "Speculative",
                  !.round = @ + 1,
                  !.start_idx = merged,
                  !.kv_size = merged,
                  !.in_repair = FALSE,
                  !.proposed_history_hash = 0,
                  !.effects = @ \cup DoneMessages(s)]

store_repair_commit(s, m) ==
    IF m.type = "RepairCommit"
      THEN [s EXCEPT !.repair_commit_msgs = @ \cup {m}] ELSE s

try_apply_repair(s) == IF can_apply_repair(s) THEN handle_apply_repair(s) ELSE s

on_receive_repair_commit(s, m) == try_apply_repair(store_repair_commit(s, m))

\* Mutant: f REPAIR-DONEs are enough.
can_repair_done_catchup_f(s) ==
    /\ s.phase \in RepairPhase
    /\ Cardinality(Current(s, s.repair_done_msgs)) >= f_plus_1 - 1
    /\ Current(s, s.repair_history_msgs) # {}

can_repair_done_catchup(s) ==
    /\ s.phase \in RepairPhase
    /\ Cardinality(Current(s, s.repair_done_msgs)) >= f_plus_1
    /\ Current(s, s.repair_history_msgs) # {}

\* Mutant: the round is not advanced.
handle_repair_done_catchup_round(s) ==
    [s EXCEPT !.phase = "Speculative",
              !.start_idx = s.kv_size,
              !.in_repair = FALSE,
              !.proposed_history_hash = 0]

\* The next round starts on the replica's own log, which is not rebuilt.
handle_repair_done_catchup(s) ==
    [s EXCEPT !.phase = "Speculative",
              !.round = @ + 1,
              !.start_idx = s.kv_size,
              !.in_repair = FALSE,
              !.proposed_history_hash = 0]

store_repair_done(s, m) ==
    IF m.type = "RepairDone"
      THEN [s EXCEPT !.repair_done_msgs = @ \cup {m}] ELSE s

try_repair_done_catchup(s) ==
    IF can_repair_done_catchup(s) THEN handle_repair_done_catchup(s) ELSE s

on_receive_repair_done(s, m) == try_repair_done_catchup(store_repair_done(s, m))

\* Mutant: the view changes in every phase of REPAIR and collecting restarts.
can_view_change_any_phase(s, e) ==
    s.phase \in RepairPhase /\ e.type = "RepairViewTimeout"

can_view_change(s, e) == s.phase = "CollectingLogs" /\ e.type = "RepairViewTimeout"

handle_view_change(s) ==
    [s EXCEPT !.view = @ + 1,
              !.effects = @ \cup {OwnLog(s, s.view + 1)}]
=============================================================================
