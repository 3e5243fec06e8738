-------------------------- MODULE RocksStoreProofs --------------------------
(***************************************************************************)
(* Proofs about the RocksDB store: whatever is speculated, rebuilt, lost in*)
(* a crash and started again, for every log size.  StoreInv says that each *)
(* state a crash may leave is a gap-free log under a size that covers it;  *)
(* it needs the bound on kv_size, without which a put could leave a gap.   *)
(* The second half maps every step to a step of KvLog or to none.          *)
(***************************************************************************)
EXTENDS RocksStore, TLAPS, FiniteSetTheorems

\* The empty database satisfies the invariant.
LEMMA StoreInitInv == Init => StoreInv
<1> SUFFICES ASSUME Init PROVE StoreInv
  OBVIOUS
<1>1. Holds(Empty, 0) /\ Empty.size = 0 /\ DOMAIN Empty.entries = {}
  BY DEF Holds, Empty
<1> QED BY <1>1 DEF Init, StoreInv

\* One write to a log state keeps the part of the invariant about the disk.
LEMMA WriteInv ==
  ASSUME StoreInv, NEW w, Write(w), w.size \in Nat, \E n \in Nat : Holds(w, n)
  PROVE  /\ db' = w /\ db' \in disk'
         /\ \A d \in disk' : d.size \in Nat /\ \E n \in Nat : Holds(d, n)
BY DEF StoreInv, Write

\* A speculated entry goes at or below the end of the log: it replaces one
\* or extends the log by one.
LEMMA SpeculateInv == StoreInv /\ SpeculateEntry => StoreInv'
<1> SUFFICES ASSUME StoreInv, SpeculateEntry PROVE StoreInv'
  OBVIOUS
<1>1. PICK n \in Nat : Holds(db, n) /\ kv_size <= n
  BY DEF StoreInv, SpeculateEntry
<1>2. PICK e : Put(kv_size, e)
  BY DEF SpeculateEntry, NextIndex
<1> DEFINE all == Indices \cup {kv_size}
           entries == [i \in all |-> IF i = kv_size THEN e ELSE db.entries[i]]
           w == [entries |-> entries, size |-> PutSize(kv_size)]
           m == IF kv_size = n THEN n + 1 ELSE n
<1>3. Write(w)
  BY <1>2 DEF Put
<1>4. kv_size \in Nat /\ db.size \in Nat /\ n <= db.size
  BY <1>1 DEF StoreInv, Holds
<1>5. all = 0 .. m - 1
  BY <1>1, <1>4 DEF Indices, Holds
<1>6. m \in Nat /\ kv_size + 1 <= m /\ w.size \in Nat /\ m <= w.size
  BY <1>1, <1>4 DEF PutSize
<1>7. DOMAIN w.entries = all
  OBVIOUS
<1> HIDE DEF w, all, m
<1>8. Holds(w, m)
  BY <1>5, <1>6, <1>7 DEF Holds
<1>9. /\ db' = w /\ db' \in disk'
      /\ \A d \in disk' : d.size \in Nat /\ \E k \in Nat : Holds(d, k)
  BY <1>3, <1>6, <1>8, WriteInv
<1>10. kv_size' = kv_size + 1 /\ rebuilding' = rebuilding /\ rebuilding = 0
  BY DEF SpeculateEntry, Idle
<1>11. Holds(db', m) /\ kv_size' <= m /\ kv_size' \in Nat /\ rebuilding' = 0
  BY <1>4, <1>6, <1>8, <1>9, <1>10
<1> QED BY <1>6, <1>9, <1>11 DEF StoreInv, Holds

\* The first write of a rebuild leaves the empty log under the old size.
LEMMA RebuildDeleteInv ==
  ASSUME StoreInv, NEW n \in Sizes, RebuildDelete(n)
  PROVE  StoreInv'
<1> DEFINE w == [entries |-> <<>>, size |-> db.size]
<1>1. db.size \in Nat
  BY DEF StoreInv
<1>2. Holds(w, 0) /\ w.size \in Nat /\ DOMAIN w.entries = {}
  BY <1>1 DEF Holds
<1>3. Write(w) /\ kv_size' = kv_size /\ rebuilding' = n
  BY DEF RebuildDelete
<1> HIDE DEF w
<1>4. /\ db' = w /\ db' \in disk'
      /\ \A d \in disk' : d.size \in Nat /\ \E k \in Nat : Holds(d, k)
  BY <1>2, <1>3, WriteInv
<1>5. rebuilding' \in Nat /\ rebuilding' > 0
  BY <1>3, SizesAssumption DEF RebuildDelete
<1>6. kv_size' \in Nat /\ DOMAIN db'.entries = {}
  BY <1>2, <1>3, <1>4 DEF StoreInv
<1> QED BY <1>4, <1>5, <1>6 DEF StoreInv, Holds, Idle

\* The second write of a rebuild leaves the new log under its own size, and
\* the handler's kv_size matches it.
LEMMA RebuildWriteInv == StoreInv /\ RebuildWrite => StoreInv'
<1> SUFFICES ASSUME StoreInv, RebuildWrite PROVE StoreInv'
  OBVIOUS
<1> DEFINE all == Indices \cup NewIndices
           entries == [i \in all |-> IF i \in NewIndices THEN rebuilt(rebuilding)[i + 1]
                                                        ELSE db.entries[i]]
           w == [entries |-> entries, size |-> rebuilding]
<1>1. /\ rebuilding \in Nat /\ Write(w)
      /\ kv_size' = rebuilding /\ rebuilding' = 0
  BY DEF StoreInv, RebuildWrite
<1>2. all = 0 .. rebuilding - 1
  BY DEF StoreInv, RebuildWrite, Indices, NewIndices
<1>3. DOMAIN w.entries = all /\ w.size = rebuilding
  OBVIOUS
<1> HIDE DEF w, all
<1>4. Holds(w, rebuilding)
  BY <1>1, <1>2, <1>3 DEF Holds
<1>5. /\ db' = w /\ db' \in disk'
      /\ \A d \in disk' : d.size \in Nat /\ \E k \in Nat : Holds(d, k)
  BY <1>1, <1>3, <1>4, WriteInv
<1>6. Holds(db', rebuilding) /\ kv_size' <= rebuilding /\ kv_size' \in Nat
  BY <1>1, <1>4, <1>5
<1> QED BY <1>1, <1>5, <1>6 DEF StoreInv, Holds

\* Crashes and starts keep the invariant: the crash takes one of the states
\* on disk, the start counts from 0.
LEMMA CrashInv == StoreInv /\ (Crash \/ Start \/ RepairToZero) => StoreInv'
<1> SUFFICES ASSUME StoreInv, Crash \/ Start \/ RepairToZero PROVE StoreInv'
  OBVIOUS
<1>1. CASE Crash
  BY <1>1 DEF Crash, StoreInv, Holds, Idle
<1>2. ASSUME kv_size' = 0, UNCHANGED <<db, disk, rebuilding>>
      PROVE  StoreInv'
  <2>1. PICK n \in Nat : Holds(db, n)
    BY DEF StoreInv
  <2> QED BY <1>2, <2>1 DEF StoreInv, Holds
<1> QED BY <1>1, <1>2 DEF Start, RepairToZero

\* Every step keeps the invariant.
LEMMA StoreNextInv == StoreInv /\ [Next]_vars => StoreInv'
<1>1. ASSUME StoreInv, UNCHANGED vars PROVE StoreInv'
  BY <1>1 DEF vars, StoreInv, Holds, Idle
<1> QED BY <1>1, SpeculateInv, RebuildDeleteInv, RebuildWriteInv, CrashInv DEF Next

\* Every state the database can be in, after any crash at any write, is a log
\* without gaps: the replica's count, which restarts at 0 over an old store,
\* never runs ahead of the entries (kv_store.rs, replica.rs:44).
THEOREM StoreGapFree == Spec => []GapFree
<1>1. StoreInv => GapFree
  BY DEF StoreInv, GapFree, Holds
<1> QED BY <1>1, StoreInitInv, StoreNextInv, PTL DEF Spec

\* META_KV_SIZE covers every entry in every state a crash may leave, although
\* a rebuild writes entries and size after it has deleted the old ones.
THEOREM StoreSizeCovers == Spec => []SizeCovers
<1>1. StoreInv => SizeCovers
  BY DEF StoreInv, SizeCovers, Holds
<1> QED BY <1>1, StoreInitInv, StoreNextInv, PTL DEF Spec

-----------------------------------------------------------------------------
(* The store implements KvLog.                                             *)

\* The indices 0 .. n - 1 are n.
LEMMA IndexCount ==
  ASSUME NEW n \in Nat
  PROVE  Cardinality(0 .. n - 1) = n
BY FS_Interval

\* The sequence KvLog sees in a state of the database with n entries.
LEMMA AsLogSeq ==
  ASSUME NEW d, NEW n \in Nat, Holds(d, n)
  PROVE  /\ AsLog(d) = [k \in 1 .. n |-> d.entries[k - 1]]
         /\ AsLog(d) \in Seq({d.entries[i] : i \in 0 .. n - 1})
         /\ Len(AsLog(d)) = n
<1>1. Cardinality(DOMAIN d.entries) = n
  BY IndexCount DEF Holds
<1>2. AsLog(d) = [k \in 1 .. n |-> d.entries[k - 1]]
  BY <1>1 DEF AsLog
<1>3. \A k \in 1 .. n : d.entries[k - 1] \in {d.entries[i] : i \in 0 .. n - 1}
  OBVIOUS
<1>4. AsLog(d) \in [1 .. n -> {d.entries[i] : i \in 0 .. n - 1}]
  BY <1>2, <1>3
<1> HIDE DEF AsLog
<1>5. AsLog(d) \in Seq({d.entries[i] : i \in 0 .. n - 1}) /\ Len(AsLog(d)) = n
  BY <1>4
<1> QED BY <1>2, <1>5

\* A deleted database is the empty log.
LEMMA AsLogEmpty ==
  ASSUME NEW d, DOMAIN d.entries = {}
  PROVE  AsLog(d) = <<>>
<1>1. Cardinality(DOMAIN d.entries) = 0
  BY FS_EmptySet
<1> QED BY <1>1 DEF AsLog

\* What the second write of a rebuild leaves is the rebuilt log.
LEMMA AsLogRebuilt ==
  ASSUME NEW d, NEW n \in Nat, DOMAIN d.entries = 0 .. n - 1,
         \A i \in 0 .. n - 1 : d.entries[i] = rebuilt(n)[i + 1]
  PROVE  AsLog(d) = rebuilt(n)
<1>1. Cardinality(DOMAIN d.entries) = n
  BY IndexCount
<1>2. \A k \in 1 .. n : d.entries[k - 1] = rebuilt(n)[k]
  OBVIOUS
<1>3. AsLog(d) = [k \in 1 .. n |-> rebuilt(n)[k]]
  BY <1>1, <1>2 DEF AsLog
<1>4. rebuilt(n) = [k \in 1 .. n |-> rebuilt(n)[k]]
  BY DEF rebuilt
<1> QED BY <1>3, <1>4

\* A put at or below the end of the log is a put of KvLog.
LEMMA AsLogPut ==
  ASSUME NEW d, NEW n \in Nat, Holds(d, n), NEW idx \in 0 .. n, NEW e,
         NEW w, w.size \in Nat,
         w.entries = [i \in (DOMAIN d.entries) \cup {idx} |->
                          IF i = idx THEN e ELSE d.entries[i]]
  PROVE  AsLog(w) = put(AsLog(d), idx, e)
<1> DEFINE m == IF idx = n THEN n + 1 ELSE n
           L == AsLog(d)
           elems == {d.entries[i] : i \in 0 .. n - 1}
<1>1. m \in Nat /\ DOMAIN w.entries = 0 .. m - 1
  BY DEF Holds
<1>2. Cardinality(DOMAIN w.entries) = m
  BY <1>1, IndexCount
<1>3. AsLog(w) = [k \in 1 .. m |-> w.entries[k - 1]]
  BY <1>2 DEF AsLog
<1>4. \A k \in 1 .. m : w.entries[k - 1] = IF k = idx + 1 THEN e ELSE d.entries[k - 1]
  BY DEF Holds
<1>5. /\ L = [k \in 1 .. n |-> d.entries[k - 1]]
      /\ L \in Seq(elems) /\ Len(L) = n
  BY AsLogSeq
<1>5a. (idx < n => m = n) /\ (idx = n => m = n + 1)
  OBVIOUS
<1> HIDE DEF elems, L, m
<1>6. CASE idx < n
  <2>1. put(L, idx, e) = [L EXCEPT ![idx + 1] = e]
    BY <1>5, <1>6 DEF put
  <2>2. [L EXCEPT ![idx + 1] = e] =
          [k \in 1 .. n |-> IF k = idx + 1 THEN e ELSE d.entries[k - 1]]
    BY <1>5, <1>6
  <2>3. AsLog(w) = [k \in 1 .. n |-> IF k = idx + 1 THEN e ELSE d.entries[k - 1]]
    BY <1>3, <1>4, <1>6, <1>5a
  <2> QED BY <2>1, <2>2, <2>3 DEF L
<1>7. CASE idx = n
  <2>1. put(L, idx, e) = Append(L, e)
    BY <1>5, <1>7 DEF put
  <2>2. Append(L, e) =
          [k \in 1 .. n + 1 |-> IF k = idx + 1 THEN e ELSE d.entries[k - 1]]
    <3>1. L \in Seq(elems \cup {e})
      BY <1>5
    <3> QED BY <1>5, <1>7, <3>1
  <2>3. AsLog(w) = [k \in 1 .. n + 1 |-> IF k = idx + 1 THEN e ELSE d.entries[k - 1]]
    BY <1>3, <1>4, <1>7, <1>5a
  <2> QED BY <2>1, <2>2, <2>3 DEF L
<1> QED BY <1>6, <1>7

\* hash_at of the database and of its sequence agree.
LEMMA AsLogHash ==
  ASSUME NEW n \in Nat, Holds(db, n), NEW idx \in Nat
  PROVE  HashAt(idx) = hash_at(AsLog(db), idx)
<1>1. /\ AsLog(db) = [k \in 1 .. n |-> db.entries[k - 1]]
      /\ Len(AsLog(db)) = n
  BY AsLogSeq
<1> QED BY <1>1 DEF HashAt, hash_at, Indices, Holds

\* KvLog's operators are those of AspenTypes under another name.
LEMMA SameOperators ==
  /\ Log!ZeroHash = ZeroHash
  /\ \A store, idx : Log!hash_at(store, idx) = hash_at(store, idx)
  /\ \A store, idx, e : Log!put(store, idx, e) = put(store, idx, e)
  /\ \A n : Log!rebuilt(n) = rebuilt(n)
<1>1. \A b : Log!Bytes(b) = Bytes(b)
  BY DEF Log!Bytes, Bytes
<1>2. Log!ZeroHash = ZeroHash
  BY DEF Log!ZeroHash, ZeroHash, Log!Bytes, Bytes
<1>3. \A e : Log!entry_hash(e) = entry_hash(e)
  BY DEF Log!entry_hash, entry_hash
<1>4. \A store, idx : Log!hash_at(store, idx) = hash_at(store, idx)
  BY <1>2, <1>3 DEF Log!hash_at, hash_at
<1>5. \A store, idx, e : Log!put(store, idx, e) = put(store, idx, e)
  BY DEF Log!put, put
<1>6. \A n : Log!rebuilt(n) = rebuilt(n)
  BY <1>1 DEF Log!rebuilt, rebuilt
<1> QED BY <1>2, <1>4, <1>5, <1>6

\* handle_speculate is Put of KvLog at an index of the log or at its end.
LEMMA SpeculateRefines == StoreInv /\ SpeculateEntry => Log!Next
<1> SUFFICES ASSUME StoreInv, SpeculateEntry PROVE Log!Next
  OBVIOUS
<1>1. PICK n \in Nat : Holds(db, n) /\ kv_size <= n
  BY DEF StoreInv, SpeculateEntry
<1> DEFINE idx == kv_size
           e == [op_hash |-> idx,
                 prev_hash |-> IF idx > 0 THEN HashAt(idx - 1) ELSE ZeroHash]
           w == [entries |-> [i \in Indices \cup {idx} |->
                                IF i = idx THEN e ELSE db.entries[i]],
                 size |-> PutSize(idx)]
<1>2. idx \in 0 .. n /\ db.size \in Nat
  BY <1>1 DEF StoreInv
<1>3. rebuilding = 0 /\ rebuilding' = 0 /\ db' = w /\ disk' = disk \cup {w}
  BY DEF SpeculateEntry, Idle, NextIndex, Put, Write
<1>4. e = [op_hash |-> idx,
           prev_hash |-> IF idx > 0 THEN hash_at(AsLog(db), idx - 1) ELSE ZeroHash]
  BY <1>1, <1>2, AsLogHash
<1>5. w.size \in Nat
  BY <1>2 DEF PutSize
<1>6. w.entries = [i \in (DOMAIN db.entries) \cup {idx} |->
                       IF i = idx THEN e ELSE db.entries[i]]
  BY DEF Indices
<1> HIDE DEF e, w
<1>7. AsLog(w) = put(AsLog(db), idx, e)
  BY <1>1, <1>2, <1>5, <1>6, AsLogPut
<1>8. seen = AsLog(db) /\ seen' = AsLog(w)
  BY <1>3 DEF seen, AsLog
<1>9. left' = left \cup {AsLog(w)}
  BY <1>3 DEF left, AsLog
<1>10. Len(seen) = n
  BY <1>1, <1>8, AsLogSeq
<1>11. Log!Put(idx)
  BY <1>4, <1>7, <1>8, <1>9, SameOperators DEF Log!Put
<1>12. idx \in 0 .. Len(seen)
  BY <1>2, <1>10
<1> QED BY <1>11, <1>12 DEF Log!Next

\* The first write of a rebuild is Rebuild of KvLog; the empty log it leaves
\* on disk is one that a crash may leave.
LEMMA RebuildRefines ==
  ASSUME StoreInv, NEW n \in Sizes, RebuildDelete(n)
  PROVE  Log!Next
<1> DEFINE w == [entries |-> <<>>, size |-> db.size]
<1>1. /\ rebuilding = 0 /\ rebuilding' = n /\ n > 0
      /\ db' = w /\ disk' = disk \cup {w}
  BY DEF RebuildDelete, Idle, Write
<1>2. DOMAIN w.entries = {}
  OBVIOUS
<1> HIDE DEF w
<1>3. AsLog(w) = <<>>
  BY <1>2, AsLogEmpty
<1>4. seen' = rebuilt(n)
  BY <1>1 DEF seen, rebuilt, Bytes
<1>5. left' = left \cup {<<>>, rebuilt(n)}
  <2>1. left = {AsLog(d) : d \in disk}
    BY <1>1 DEF left
  <2>2. left' = {AsLog(d) : d \in disk'} \cup {seen'}
    BY <1>1 DEF left, seen, AsLog, rebuilt, Bytes
  <2>3. {AsLog(d) : d \in disk'} = {AsLog(d) : d \in disk} \cup {AsLog(w)}
    BY <1>1
  <2> QED BY <1>3, <1>4, <2>1, <2>2, <2>3
<1>6. Log!Rebuild(n)
  BY <1>4, <1>5, SameOperators DEF Log!Rebuild
<1> QED BY <1>6 DEF Log!Next

\* The second write changes nothing KvLog sees.
LEMMA RebuildWriteRefines == StoreInv /\ RebuildWrite => UNCHANGED <<seen, left>>
<1> SUFFICES ASSUME StoreInv, RebuildWrite PROVE UNCHANGED <<seen, left>>
  OBVIOUS
<1> DEFINE n == rebuilding
           w == [entries |-> [i \in Indices \cup NewIndices |->
                                IF i \in NewIndices THEN rebuilt(n)[i + 1]
                                                    ELSE db.entries[i]],
                 size |-> n]
<1>1. /\ n \in Nat /\ n > 0 /\ rebuilding' = 0
      /\ db' = w /\ disk' = disk \cup {w}
  BY DEF StoreInv, RebuildWrite, Write
<1>2. Indices = {} /\ NewIndices = 0 .. n - 1
  BY <1>1 DEF StoreInv, Indices, NewIndices
<1>3. /\ DOMAIN w.entries = 0 .. n - 1
      /\ \A i \in 0 .. n - 1 : w.entries[i] = rebuilt(n)[i + 1]
  BY <1>2
<1> HIDE DEF w, n
<1>4. AsLog(w) = rebuilt(n)
  BY <1>1, <1>3, AsLogRebuilt
<1>5. seen = rebuilt(n) /\ seen' = AsLog(w)
  BY <1>1 DEF seen, n, AsLog
<1>6. left = {AsLog(d) : d \in disk} \cup {rebuilt(n)}
  BY <1>1 DEF left, n
<1>7. left' = {AsLog(d) : d \in disk} \cup {AsLog(w)}
  BY <1>1 DEF left, AsLog
<1> QED BY <1>4, <1>5, <1>6, <1>7

\* A crash takes the log back to one that KvLog allows.
LEMMA CrashRefines == StoreInv /\ Crash => Log!Next
<1> SUFFICES ASSUME StoreInv, Crash PROVE Log!Next
  OBVIOUS
<1>1. db' \in disk /\ disk' = {db'} /\ rebuilding' = 0
  BY DEF Crash
<1>2. seen' = AsLog(db') /\ left' = {AsLog(db')}
  BY <1>1 DEF seen, left, AsLog
<1>3. AsLog(db') \in left
  BY <1>1 DEF left
<1> QED BY <1>2, <1>3 DEF Log!Next, Log!Crash

\* The two writes of a rebuild, the batches and the crashes between and
\* across them look to the replica like the atomic log of KvLog, for every
\* bound on the log and every set of rebuilt sizes.
THEOREM StoreImplementsKvLog == Spec => ImplementsKvLog
<1>1. Init => Log!Init
  <2> SUFFICES ASSUME Init PROVE Log!Init
    OBVIOUS
  <2>1. AsLog(Empty) = <<>>
    BY AsLogEmpty DEF Empty
  <2> QED BY <2>1 DEF Init, Log!Init, seen, left
<1>2. StoreInv /\ [Next]_vars => [Log!Next]_<<seen, left>>
  <2> SUFFICES ASSUME StoreInv, [Next]_vars
               PROVE  Log!Next \/ UNCHANGED <<seen, left>>
    OBVIOUS
  <2>1. CASE UNCHANGED <<db, disk, rebuilding>>
    BY <2>1 DEF seen, left, AsLog, rebuilt, Bytes
  <2> QED BY <2>1, SpeculateRefines, RebuildRefines, RebuildWriteRefines, CrashRefines
          DEF Next, vars, RepairToZero, Start
<1> QED BY <1>1, <1>2, StoreInitInv, StoreNextInv, PTL DEF Spec, ImplementsKvLog, Log!Spec
=============================================================================
