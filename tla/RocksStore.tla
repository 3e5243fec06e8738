----------------------------- MODULE RocksStore -----------------------------
(***************************************************************************)
(* The RocksDB backend of kv_store.rs under one replica: the entries and   *)
(* the number kv_size in the meta column family on disk, the replica's own *)
(* count in memory, and crashes.                                           *)
(*                                                                         *)
(* RocksDB is external.  A write batch is atomic, over both column         *)
(* families.  The code leaves sync off, so that a power failure drops the  *)
(* last writes, a killed process none: a crash leaves the database as it   *)
(* was after some write since it was opened.  A write that fails panics,   *)
(* which to the database is a crash before that write.                     *)
(***************************************************************************)
EXTENDS AspenTypes

CONSTANTS
    MaxLog,          \* bound: no speculation at or beyond this log size
    Sizes            \* the log sizes that alignment and repair rebuild to

ASSUME SizesAssumption == MaxLog \in Nat /\ Sizes \subseteq 0 .. MaxLog

VARIABLES
    db,              \* the database: entries by index, and META_KV_SIZE
    disk,            \* what db may be after a crash
    kv_size,         \* ReplicaState.kv_size
    rebuilding,      \* 0, or the size of the rebuild whose batch is not written
    up               \* FALSE between a crash and the next start

vars == <<db, disk, kv_size, rebuilding, up>>

Empty == [entries |-> <<>>, size |-> 0]

Init ==
    /\ db = Empty
    /\ disk = {Empty}
    /\ kv_size = 0
    /\ rebuilding = 0
    /\ up = TRUE

\* One write of the database, by itself atomic.
Write(new) ==
    /\ db' = new
    /\ disk' = disk \cup {new}

Idle == up /\ rebuilding = 0

Indices == DOMAIN db.entries

\* hash_at(idx).unwrap_or([0; 32])
HashAt(idx) == IF idx \in Indices THEN entry_hash(db.entries[idx]) ELSE ZeroHash

-----------------------------------------------------------------------------
(* The operations, as the handlers call them.                              *)

\* Mutant: the size follows the last put.
PutSize_last(idx) == idx + 1

\* current_size.max(idx + 1)
PutSize(idx) == IF idx + 1 > db.size THEN idx + 1 ELSE db.size

\* put: entry and size in one batch.
Put(idx, e) ==
    Write([entries |-> [i \in Indices \cup {idx} |->
                            IF i = idx THEN e ELSE db.entries[i]],
           size |-> PutSize(idx)])

\* Mutant: the store's size is the next index.
NextIndex_size == db.size

\* can_speculate: the replica's own count is the next index.
NextIndex == kv_size

\* handle_speculate.
SpeculateEntry ==
    /\ Idle
    /\ NextIndex < MaxLog
    /\ LET idx == NextIndex
       IN  Put(idx, [op_hash |-> idx,
                     prev_hash |-> IF idx > 0 THEN HashAt(idx - 1) ELSE ZeroHash])
    /\ kv_size' = kv_size + 1
    /\ UNCHANGED <<rebuilding, up>>

\* rebuild_from_entries, first write: the old entries are deleted.
RebuildDelete(n) ==
    /\ Idle
    /\ n > 0
    /\ Write([entries |-> <<>>, size |-> db.size])
    /\ rebuilding' = n
    /\ UNCHANGED <<kv_size, up>>

\* Mutant: the loop over the new entries ends one too early.
NewIndices_short == 0 .. rebuilding - 2

NewIndices == 0 .. rebuilding - 1

\* rebuild_from_entries, second write: the new entries and their number in
\* one batch; then the handler sets kv_size.
RebuildWrite ==
    /\ up
    /\ rebuilding > 0
    /\ Write([entries |-> [i \in Indices \cup NewIndices |->
                              IF i \in NewIndices THEN rebuilt(rebuilding)[i + 1]
                                                  ELSE db.entries[i]],
              size |-> rebuilding])
    /\ kv_size' = rebuilding
    /\ rebuilding' = 0
    /\ UNCHANGED up

\* A repair to size 0 resets the count and leaves the store.
RepairToZero ==
    /\ Idle
    /\ 0 \in Sizes
    /\ kv_size' = 0
    /\ UNCHANGED <<db, disk, rebuilding, up>>

Crash ==
    /\ up
    /\ up' = FALSE
    /\ db' \in disk
    /\ disk' = {db'}
    /\ rebuilding' = 0
    /\ UNCHANGED kv_size

\* RocksKvStore::open and Replica::new: the store as it is, the count at 0.
Start ==
    /\ ~up
    /\ up' = TRUE
    /\ kv_size' = 0
    /\ UNCHANGED <<db, disk, rebuilding>>

Next ==
    \/ SpeculateEntry
    \/ \E n \in Sizes : RebuildDelete(n)
    \/ RebuildWrite
    \/ RepairToZero
    \/ Crash
    \/ Start

Spec == Init /\ [][Next]_vars

-----------------------------------------------------------------------------
(* Properties.                                                             *)

\* The entries have no gap, whatever crash interrupted whatever write and
\* although the count starts at 0 over an old store: this is why Aspen may
\* keep the log as a sequence.
GapFree ==
    \A d \in disk : \A i \in DOMAIN d.entries : 0 .. i \subseteq DOMAIN d.entries

\* The stored size is never too small, in any state a crash may leave.  After
\* an interrupted rebuild it is too large until the next rebuild.
SizeCovers ==
    \A d \in disk : DOMAIN d.entries \subseteq 0 .. d.size - 1

\* The inductive invariant behind GapFree and SizeCovers: every state of the
\* database is the log 0 .. n - 1 under a size of at least n, and a replica
\* that is between two calls counts no more entries than there are.
Holds(d, n) == DOMAIN d.entries = 0 .. n - 1 /\ n <= d.size

StoreInv ==
    /\ db \in disk
    /\ \A d \in disk : d.size \in Nat /\ \E n \in Nat : Holds(d, n)
    /\ kv_size \in Nat
    /\ rebuilding \in Nat
    /\ rebuilding > 0 => DOMAIN db.entries = {}
    /\ Idle => \E n \in Nat : Holds(db, n) /\ kv_size <= n

AsLog(d) == [k \in 1 .. Cardinality(DOMAIN d.entries) |-> d.entries[k - 1]]

\* The log as the replica sees it, and the logs a crash may leave it with: a
\* rebuild takes effect with its first write.
seen == IF rebuilding > 0 THEN rebuilt(rebuilding) ELSE AsLog(db)
left == {AsLog(d) : d \in disk}
          \cup IF rebuilding > 0 THEN {rebuilt(rebuilding)} ELSE {}

Log == INSTANCE KvLog WITH log <- seen, past <- left

\* The two writes of a rebuild, the batches and the crashes between them look
\* to the replica like the atomic log of KvLog (kv_store.rs:291).
ImplementsKvLog == Log!Spec
=============================================================================
