------------------------- MODULE RatDbaseLogProofs -------------------------
(***************************************************************************)
(* Theorems about the message database: the lock and the entries in        *)
(* memory, the log and what the agents make of it, and that it keeps what  *)
(* MessageStore promises, for any number of agents and messages, any       *)
(* threshold and any bound on the operations.                              *)
(***************************************************************************)
EXTENDS RatDbaseLog, SequenceLemmas, FiniteSetTheorems, TLAPS

\* The number of elements of a set of indices of a sequence is a natural.
LEMMA IndexSetCardinality ==
  ASSUME NEW S, NEW s \in Seq(S), NEW I \in SUBSET (1..Len(s))
  PROVE  Cardinality(I) \in Nat /\ Cardinality(I) <= Len(s)
<1>1. Len(s) \in Nat
  OBVIOUS
<1>2. IsFiniteSet(1..Len(s)) /\ Cardinality(1..Len(s)) = Len(s)
  <2>1. 1 \in Int /\ Len(s) \in Int
    BY <1>1
  <2>2. /\ IsFiniteSet(1..Len(s))
        /\ Cardinality(1..Len(s)) = IF 1 > Len(s) THEN 0 ELSE Len(s) - 1 + 1
    BY <2>1, FS_Interval, Zenon
  <2> QED
    BY <1>1, <2>2
<1>3. IsFiniteSet(I) /\ Cardinality(I) <= Cardinality(1..Len(s))
  BY <1>2, FS_Subset
<1>4. Cardinality(I) \in Nat
  BY <1>3, FS_CardinalityType
<1> QED
  BY <1>2, <1>3, <1>4

\* The live entries of a sequence of entries are among its indices.
LEMMA LiveIndices ==
  ASSUME NEW m \in Seq(Entry)
  PROVE  /\ LiveAt(m) \in SUBSET (1..Len(m))
         /\ Cardinality(LiveAt(m)) \in Nat
         /\ Cardinality(LiveAt(m)) <= Len(m)
<1>1. LiveAt(m) \in SUBSET (1..Len(m))
  BY DEF LiveAt
<1> QED
  BY <1>1, IndexSetCardinality

\* Setting one field of an entry gives an entry.
LEMMA EntryUpdates ==
  ASSUME NEW e \in Entry
  PROVE  /\ [e EXCEPT !.gone = TRUE] \in Entry
         /\ \A d \in BOOLEAN : [e EXCEPT !.del = d] \in Entry
         /\ \A k \in Keywords : [e EXCEPT !.kw = k] \in Entry
  BY DEF Entry

\* Replaying one record of the log on the entries of an agent gives entries.
LEMMA AfterRecordType ==
  ASSUME DiskOK, MemoryOK, NEW a \in Agents, NEW r \in Record,
         r.op = "a" => r.at \in 1..Len(index)
  PROVE  AfterRecord(a, r) \in Seq(Entry)
<1>1. mem[a] \in Seq(Entry) /\ index \in Seq(Entry)
  BY DEF DiskOK, MemoryOK
<1>2. CASE r.op = "a"
  <2>1. index[r.at] \in Entry
    BY <1>1, <1>2
  <2> QED
    BY <1>1, <1>2, <2>1 DEF AfterRecord
<1>3. CASE r.op = "d"
  <2>1. CASE InRange(a, r)
    <3>0. mem[a][r.at] \in Entry
      BY <1>1, <2>1 DEF InRange
    <3>1. [mem[a][r.at] EXCEPT !.gone = TRUE] \in Entry
      BY <3>0, EntryUpdates
    <3> QED
      BY <1>1, <1>3, <2>1, <3>1 DEF AfterRecord, InRange
  <2>2. CASE ~InRange(a, r)
    BY <1>1, <1>3, <2>2 DEF AfterRecord
  <2> QED
    BY <2>1, <2>2
<1>4. CASE r.op = "s"
  <2>1. CASE InRange(a, r)
    <3>1. r.del \in BOOLEAN
      BY <1>4 DEF Record
    <3>0. mem[a][r.at] \in Entry
      BY <1>1, <2>1 DEF InRange
    <3>2. [mem[a][r.at] EXCEPT !.del = r.del] \in Entry
      BY <3>0, <3>1, EntryUpdates
    <3> QED
      BY <1>1, <1>4, <2>1, <3>2 DEF AfterRecord, InRange
  <2>2. CASE ~InRange(a, r)
    BY <1>1, <1>4, <2>2 DEF AfterRecord
  <2> QED
    BY <2>1, <2>2
<1>5. CASE r.op = "k"
  <2>1. r.kw \in Keywords
    BY <1>5 DEF Record
  <2>2. \A i \in 1..Len(mem[a]) : [mem[a][i] EXCEPT !.kw = r.kw] \in Entry
    <3>1. \A i \in 1..Len(mem[a]) : mem[a][i] \in Entry
      BY <1>1
    <3> QED
      BY <2>1, <3>1, EntryUpdates
  <2>3. \A i \in 1..Len(mem[a]) :
          (IF i \in r.at THEN [mem[a][i] EXCEPT !.kw = r.kw] ELSE mem[a][i]) \in Entry
    BY <1>1, <2>2
  <2>4. AfterRecord(a, r) = [i \in 1..Len(mem[a]) |->
                               IF i \in r.at THEN [mem[a][i] EXCEPT !.kw = r.kw]
                                             ELSE mem[a][i]]
    BY <1>5 DEF AfterRecord
  <2> QED
    BY <1>1, <2>3, <2>4
<1> QED
  BY <1>2, <1>3, <1>4, <1>5 DEF Record

\* A record of the log changes no message, revives no entry and removes none.
LEMMA AfterRecordKeeps ==
  ASSUME DiskOK, MemoryOK, NEW a \in Agents, NEW r \in Record,
         r.op = "a" => r.at \in 1..Len(index)
  PROVE  /\ Len(AfterRecord(a, r)) >= Len(mem[a])
         /\ \A i \in 1..Len(mem[a]) :
              /\ AfterRecord(a, r)[i].msg = mem[a][i].msg
              /\ mem[a][i].gone => AfterRecord(a, r)[i].gone
<1>1. mem[a] \in Seq(Entry) /\ index \in Seq(Entry) /\ Len(mem[a]) \in Nat
  BY DEF DiskOK, MemoryOK
<1>2. \A i \in 1..Len(mem[a]) : mem[a][i] \in Entry
  BY <1>1
<1>3. CASE r.op = "a"
  <2>1. AfterRecord(a, r) = Append(mem[a], index[r.at]) /\ index[r.at] \in Entry
    BY <1>1, <1>3 DEF AfterRecord
  <2> QED
    BY <1>1, <2>1
<1>4. CASE r.op = "d"
  <2>1. CASE InRange(a, r)
    <3>1. AfterRecord(a, r) = [mem[a] EXCEPT ![r.at].gone = TRUE]
      BY <1>4, <2>1 DEF AfterRecord
    <3> QED
      BY <1>1, <1>2, <2>1, <3>1 DEF InRange, Entry
  <2>2. CASE ~InRange(a, r)
    BY <1>1, <1>4, <2>2 DEF AfterRecord
  <2> QED
    BY <2>1, <2>2
<1>5. CASE r.op = "s"
  <2>1. CASE InRange(a, r)
    <3>1. AfterRecord(a, r) = [mem[a] EXCEPT ![r.at].del = r.del]
      BY <1>5, <2>1 DEF AfterRecord
    <3> QED
      BY <1>1, <1>2, <2>1, <3>1 DEF InRange, Entry
  <2>2. CASE ~InRange(a, r)
    BY <1>1, <1>5, <2>2 DEF AfterRecord
  <2> QED
    BY <2>1, <2>2
<1>6. CASE r.op = "k"
  <2>1. AfterRecord(a, r) = [i \in 1..Len(mem[a]) |->
                               IF i \in r.at THEN [mem[a][i] EXCEPT !.kw = r.kw]
                                             ELSE mem[a][i]]
    BY <1>6 DEF AfterRecord
  <2>2. \A i \in 1..Len(mem[a]) :
          /\ [mem[a][i] EXCEPT !.kw = r.kw].msg = mem[a][i].msg
          /\ [mem[a][i] EXCEPT !.kw = r.kw].gone = mem[a][i].gone
    BY <1>2 DEF Entry
  <2>3. Len(AfterRecord(a, r)) = Len(mem[a])
    BY <1>1, <2>1
  <2> QED
    BY <1>1, <2>1, <2>2, <2>3
<1> QED
  BY <1>3, <1>4, <1>5, <1>6 DEF Record

-----------------------------------------------------------------------------
(* Each action preserves the invariant: one step for each of its parts. *)

LEMMA UnlockStep ==
  ASSUME IInv, NEW a \in Agents, Unlock(a)
  PROVE  IInv'
<1> USE DEF IInv, TypeOK
<1>1. DiskOK'
  BY DEF DiskOK, disk, Unlock
<1>2. LocksOK'
  BY DEF LocksOK, Unlock, Goto, locks
<1>3. ControlOK'
  BY DEF ControlOK, Unlock, Goto, control, locals, PCs, Exclusive, Reading,
     Verifying, Syncing
<1>4. MemoryOK'
  BY DEF MemoryOK, memory, Unlock
<1>5. HistoryOK'
  BY DEF HistoryOK, history, Unlock
<1>6. BoundsOK'
  BY DEF BoundsOK, bounds, Unlock
<1>7. SessionOK'
  BY DEF SessionOK, ControlOK, MemoryOK, Unlock, Goto, PCs, Exclusive, Reading,
     Verifying, Syncing, control, locals, memory
<1>8. CriticalHoldsLock'
  BY DEF CriticalHoldsLock, InCritical, LocksOK, ControlOK, Unlock, Goto, PCs,
     Exclusive, Reading, Verifying, Syncing, control, locals, locks
<1> QED
  BY <1>1, <1>2, <1>3, <1>4, <1>5, <1>6, <1>7, <1>8

LEMMA ReadLockStep ==
  ASSUME IInv, NEW a \in Agents, ReadLock(a)
  PROVE  IInv'
<1> USE DEF IInv, TypeOK
<1>1. DiskOK'
  BY DEF DiskOK, disk, ReadLock
<1>2. LocksOK'
  BY DEF LocksOK, ReadLock, Enter, Lock, Goto, Idle, locks, RlockTimeout
<1>3. ControlOK'
  BY DEF ControlOK, ReadLock, Enter, Lock, Goto, Idle, control, locals, PCs,
     Exclusive, Reading, Verifying, Syncing
<1>4. MemoryOK'
  BY DEF MemoryOK, memory, ReadLock
<1>5. HistoryOK'
  BY DEF HistoryOK, history, ReadLock
<1>6. BoundsOK'
  BY DEF BoundsOK, bounds, ReadLock
<1>7. SessionOK'
  BY DEF SessionOK, ControlOK, MemoryOK, ReadLock, Enter, Lock, Goto, Idle, PCs,
     Exclusive, Reading, Verifying, Syncing, control, locals, memory
<1>8. CriticalHoldsLock'
  BY ConstantsAssumption
     DEF CriticalHoldsLock, InCritical, LocksOK, ControlOK, ReadLock, Enter, Lock,
     Goto, Idle, PCs, Exclusive, Reading, Verifying, Syncing, control, locals, locks
<1> QED
  BY <1>1, <1>2, <1>3, <1>4, <1>5, <1>6, <1>7, <1>8

LEMMA ReadInfoStep ==
  ASSUME IInv, NEW a \in Agents, ReadInfo(a)
  PROVE  IInv'
<1> USE DEF IInv, TypeOK
<1>1. DiskOK'
  BY DEF DiskOK, disk, ReadInfo
<1>2. LocksOK'
  BY DEF LocksOK, locks, ReadInfo
<1>3. ControlOK'
  BY DEF ControlOK, ReadInfo, Goto, control, locals, DiskOK, PCs, Exclusive,
     Reading, Verifying, Syncing
<1>4. MemoryOK'
  BY DEF MemoryOK, memory, ReadInfo
<1>5. HistoryOK'
  BY DEF HistoryOK, history, ReadInfo
<1>6. BoundsOK'
  BY DEF BoundsOK, bounds, ReadInfo
<1>7. SessionOK'
  BY DEF SessionOK, ControlOK, MemoryOK, ReadInfo, Goto, PCs, Exclusive, Reading,
     Verifying, Syncing, control, locals, memory
<1>8. CriticalHoldsLock'
  BY DEF CriticalHoldsLock, InCritical, LocksOK, ControlOK, ReadInfo, Goto, PCs,
     Exclusive, Reading, Verifying, Syncing, control, locals, locks
<1> QED
  BY <1>1, <1>2, <1>3, <1>4, <1>5, <1>6, <1>7, <1>8

LEMMA ReadIndexStep ==
  ASSUME IInv, NEW a \in Agents, ReadIndex(a)
  PROVE  IInv'
<1> USE DEF IInv, TypeOK
<1>1. DiskOK'
  BY DEF DiskOK, disk, ReadIndex
<1>2. LocksOK'
  BY DEF LocksOK, locks, ReadIndex
<1>3. ControlOK'
  BY DEF ControlOK, ReadIndex, Goto, control, locals, PCs, Exclusive, Reading,
     Verifying, Syncing
<1>4. MemoryOK'
  BY DEF MemoryOK, ReadIndex, Goto, memory, DiskOK, ControlOK
<1>5. HistoryOK'
  BY DEF HistoryOK, history, ReadIndex
<1>6. BoundsOK'
  BY DEF BoundsOK, bounds, ReadIndex
<1>7. SessionOK'
  BY DEF SessionOK, ControlOK, MemoryOK, ReadIndex, Goto, PCs, Exclusive, Reading,
     Verifying, Syncing, control, locals, memory
<1>8. CriticalHoldsLock'
  BY DEF CriticalHoldsLock, InCritical, LocksOK, ControlOK, ReadIndex, Goto, PCs,
     Exclusive, Reading, Verifying, Syncing, control, locals, locks
<1> QED
  BY <1>1, <1>2, <1>3, <1>4, <1>5, <1>6, <1>7, <1>8

LEMMA ReadIndexErrorStep ==
  ASSUME IInv, NEW a \in Agents, ReadIndexError(a)
  PROVE  IInv'
<1> USE DEF IInv, TypeOK
<1>1. DiskOK'
  BY DEF DiskOK, disk, ReadIndexError
<1>2. LocksOK'
  BY DEF LocksOK, ReadIndexError, Goto, locks
<1>3. ControlOK'
  BY DEF ControlOK, ReadIndexError, Goto, control, locals, PCs, Exclusive, Reading,
     Verifying, Syncing
<1>4. MemoryOK'
  BY DEF MemoryOK, memory, ReadIndexError
<1>5. HistoryOK'
  BY DEF HistoryOK, history, ReadIndexError
<1>6. BoundsOK'
  BY DEF BoundsOK, bounds, ReadIndexError
<1>7. SessionOK'
  BY DEF SessionOK, ControlOK, MemoryOK, ReadIndexError, Goto, PCs, Exclusive,
     Reading, Verifying, Syncing, control, locals, memory
<1>8. CriticalHoldsLock'
  BY DEF CriticalHoldsLock, InCritical, LocksOK, ControlOK, ReadIndexError, Goto,
     PCs, Exclusive, Reading, Verifying, Syncing, control, locals, locks
<1> QED
  BY <1>1, <1>2, <1>3, <1>4, <1>5, <1>6, <1>7, <1>8

LEMMA ReadIndexUnwrittenStep ==
  ASSUME IInv, NEW a \in Agents, ReadIndexUnwritten(a)
  PROVE  IInv'
<1> USE DEF IInv, TypeOK
<1>1. DiskOK'
  BY DEF DiskOK, disk, ReadIndexUnwritten
<1>2. LocksOK'
  BY DEF LocksOK, locks, ReadIndexUnwritten
<1>3. ControlOK'
  BY DEF ControlOK, ReadIndexUnwritten, Goto, control, locals, PCs, Exclusive,
     Reading, Verifying, Syncing
<1>4. MemoryOK'
  BY DEF MemoryOK, memory, ReadIndexUnwritten
<1>5. HistoryOK'
  BY DEF HistoryOK, history, ReadIndexUnwritten
<1>6. BoundsOK'
  BY DEF BoundsOK, bounds, ReadIndexUnwritten
<1>7. SessionOK'
  BY DEF SessionOK, ControlOK, MemoryOK, ReadIndexUnwritten, Goto, PCs, Exclusive,
     Reading, Verifying, Syncing, control, locals, memory
<1>8. CriticalHoldsLock'
  <2>1. /\ \A b \in Agents : b # a => pc'[b] = pc[b]
        /\ pc'[a] = "dead" /\ ret' = ret
        /\ lock' # lock => lock = a
    BY DEF ReadIndexUnwritten, Goto, ControlOK, CriticalHoldsLock, InCritical,
       Exclusive, Reading, Verifying
  <2> QED
    BY <2>1 DEF CriticalHoldsLock, InCritical, Exclusive, Reading, Verifying,
       Syncing
<1> QED
  BY <1>1, <1>2, <1>3, <1>4, <1>5, <1>6, <1>7, <1>8

LEMMA SyncStatStep ==
  ASSUME IInv, NEW a \in Agents, SyncStat(a)
  PROVE  IInv'
<1> USE DEF IInv, TypeOK
<1>1. DiskOK'
  BY DEF DiskOK, disk, SyncStat
<1>2. LocksOK'
  BY DEF LocksOK, locks, SyncStat
<1>3. ControlOK'
  BY DEF ControlOK, SyncStat, Return, Goto, control, locals, MemoryOK, PCs,
     Exclusive, Reading, Verifying, Syncing
<1>4. MemoryOK'
  <2>1. Len(changes) \in Nat
    BY DEF DiskOK
  <2>2. changeSize' \in [Agents -> Nat]
    BY <2>1 DEF SyncStat, MemoryOK
  <2> QED
    BY <2>2 DEF SyncStat, MemoryOK
<1>5. HistoryOK'
  BY DEF HistoryOK, history, SyncStat
<1>6. BoundsOK'
  BY DEF BoundsOK, bounds, SyncStat
<1>7. SessionOK'
  <2>1. UNCHANGED <<isRead, arg, mem, stale>>
    BY DEF SyncStat
  <2>2. pc' = [pc EXCEPT ![a] = "apply"] \/ pc' = [pc EXCEPT ![a] = ret[a]]
    BY DEF SyncStat, Return, Goto
  <2>3. isRead[a] /\ ret[a] \in {"idle", "unlock"}
    BY DEF SyncStat, SessionOK, ControlOK, Syncing
  <2> QED
    BY <2>1, <2>2, <2>3 DEF SessionOK, ControlOK, Reading, Verifying, Syncing
<1>8. CriticalHoldsLock'
  BY DEF CriticalHoldsLock, InCritical, LocksOK, ControlOK, SyncStat, Return, Goto,
     PCs, Exclusive, Reading, Verifying, Syncing, control, locals, locks
<1> QED
  BY <1>1, <1>2, <1>3, <1>4, <1>5, <1>6, <1>7, <1>8

LEMMA SyncApplyStep ==
  ASSUME IInv, NEW a \in Agents, SyncApply(a)
  PROVE  IInv'
<1> USE DEF IInv, TypeOK
<1>1. DiskOK'
  BY DEF DiskOK, disk, SyncApply
<1>2. LocksOK'
  BY DEF LocksOK, locks, SyncApply
<1>3. ControlOK'
  BY DEF ControlOK, SyncApply, control, locals, PCs, Exclusive, Reading, Verifying,
     Syncing
<1>4. MemoryOK'
  <2> DEFINE r == changes[pos[a] + 1]
  <2>1. r \in Record /\ (r.op = "a" => r.at \in 1..Len(index))
    BY DEF SyncApply, DiskOK, ControlOK
  <2>2. AfterRecord(a, r) \in Seq(Entry)
    BY <2>1, AfterRecordType
  <2>3. mem' \in [Agents -> Seq(Entry)]
    BY <2>2 DEF SyncApply, MemoryOK
  <2>4. numChanges' \in [Agents -> Nat] /\ needRewrite' \in [Agents -> BOOLEAN]
    BY DEF SyncApply, MemoryOK
  <2> QED
    BY <2>3, <2>4 DEF SyncApply, MemoryOK
<1>5. HistoryOK'
  BY DEF HistoryOK, history, SyncApply
<1>6. BoundsOK'
  BY DEF BoundsOK, bounds, SyncApply
<1>7. SessionOK'
  <2> DEFINE r == changes[pos[a] + 1]
  <2>1. r \in Record /\ (r.op = "a" => r.at \in 1..Len(index))
    BY DEF SyncApply, DiskOK, ControlOK
  <2>2. Len(AfterRecord(a, r)) >= Len(mem[a])
    BY <2>1, AfterRecordKeeps
  <2>3. /\ mem' = [mem EXCEPT ![a] = AfterRecord(a, r)]
        /\ UNCHANGED <<pc, arg, isRead, stale>>
    BY DEF SyncApply
  <2>4. Len(mem'[a]) \in Nat /\ Len(mem[a]) \in Nat /\ stale[a] \in Nat
    <3>1. AfterRecord(a, r) \in Seq(Entry)
      BY <2>1, AfterRecordType
    <3> QED
      BY <2>3, <3>1 DEF MemoryOK
  <2>5. stale[a] <= Len(mem'[a])
    BY <2>2, <2>3, <2>4 DEF MemoryOK, SessionOK
  <2> QED
    BY <2>3, <2>5 DEF SessionOK, MemoryOK
<1>8. CriticalHoldsLock'
  BY DEF CriticalHoldsLock, InCritical, LocksOK, ControlOK, SyncApply, PCs,
     Exclusive, Reading, Verifying, Syncing, control, locals, locks
<1> QED
  BY <1>1, <1>2, <1>3, <1>4, <1>5, <1>6, <1>7, <1>8

\* A line swallowed by a blank status acts as some record of the log.
LEMMA SwallowedRecord ==
  ASSUME IInv, NEW a \in Agents, SyncSwallow(a)
  PROVE  \E r \in Record : /\ r.op = "a" => r.at \in 1..Len(index)
                           /\ mem' = [mem EXCEPT ![a] = AfterRecord(a, r)]
<1> DEFINE r == changes[pos[a] + 1]
           n == changes[pos[a] + 2]
<1>1. r \in Record /\ n \in Record
  BY DEF SyncSwallow, IInv, TypeOK, DiskOK, ControlOK
<1>2. PICK del \in MarksIn(n) :
        mem' = [mem EXCEPT ![a] = AfterRecord(a, [r EXCEPT !.del = del])]
  BY DEF SyncSwallow
<1>3. del \in BOOLEAN
  BY <1>1, <1>2 DEF MarksIn, Record
<1>4. r.op = "s"
  BY DEF SyncSwallow, Blank
<1> HIDE DEF r, n
<1>5. [r EXCEPT !.del = del] \in Record /\ [r EXCEPT !.del = del].op = "s"
  BY <1>1, <1>3, <1>4 DEF Record
<1> QED
  BY <1>2, <1>5

LEMMA SyncSwallowStep ==
  ASSUME IInv, NEW a \in Agents, SyncSwallow(a)
  PROVE  IInv'
<1> USE DEF IInv, TypeOK
<1>1. DiskOK'
  BY DEF DiskOK, disk, SyncSwallow
<1>2. LocksOK'
  BY DEF LocksOK, locks, SyncSwallow
<1>3. ControlOK'
  BY DEF ControlOK, SyncSwallow, control, locals, PCs, Exclusive, Reading,
     Verifying, Syncing
<1>4. MemoryOK'
  <2>1. PICK r \in Record : /\ r.op = "a" => r.at \in 1..Len(index)
                            /\ mem' = [mem EXCEPT ![a] = AfterRecord(a, r)]
    BY SwallowedRecord
  <2>2. AfterRecord(a, r) \in Seq(Entry)
    BY <2>1, AfterRecordType
  <2>3. mem' \in [Agents -> Seq(Entry)]
    BY <2>1, <2>2 DEF MemoryOK
  <2>4. numChanges' \in [Agents -> Nat] /\ needRewrite' \in [Agents -> BOOLEAN]
    BY DEF SyncSwallow, MemoryOK
  <2> QED
    BY <2>3, <2>4 DEF SyncSwallow, MemoryOK
<1>5. HistoryOK'
  BY DEF HistoryOK, history, SyncSwallow
<1>6. BoundsOK'
  BY DEF BoundsOK, bounds, SyncSwallow
<1>7. SessionOK'
  <2>1. PICK r \in Record : /\ r.op = "a" => r.at \in 1..Len(index)
                            /\ mem' = [mem EXCEPT ![a] = AfterRecord(a, r)]
    BY SwallowedRecord
  <2>2. Len(AfterRecord(a, r)) >= Len(mem[a])
    BY <2>1, AfterRecordKeeps
  <2>3. UNCHANGED <<pc, arg, isRead, stale>>
    BY DEF SyncSwallow, control, locals
  <2>4. Len(mem'[a]) \in Nat /\ Len(mem[a]) \in Nat /\ stale[a] \in Nat
    <3>1. AfterRecord(a, r) \in Seq(Entry)
      BY <2>1, AfterRecordType
    <3> QED
      BY <2>1, <3>1 DEF MemoryOK
  <2>5. stale[a] <= Len(mem'[a])
    BY <2>1, <2>2, <2>4 DEF MemoryOK, SessionOK
  <2> QED
    BY <2>1, <2>3, <2>5 DEF SessionOK, MemoryOK
<1>8. CriticalHoldsLock'
  BY DEF CriticalHoldsLock, InCritical, LocksOK, ControlOK, SyncSwallow, PCs,
     Exclusive, Reading, Verifying, Syncing, control, locals, locks
<1> QED
  BY <1>1, <1>2, <1>3, <1>4, <1>5, <1>6, <1>7, <1>8

LEMMA SyncBlankEndStep ==
  ASSUME IInv, NEW a \in Agents, SyncBlankEnd(a)
  PROVE  IInv'
<1> USE DEF IInv, TypeOK
<1>1. DiskOK'
  BY DEF DiskOK, disk, SyncBlankEnd
<1>2. LocksOK'
  BY DEF LocksOK, locks, SyncBlankEnd
<1>3. ControlOK'
  BY DEF ControlOK, SyncBlankEnd, control, locals, PCs, Exclusive, Reading,
     Verifying, Syncing
<1>4. MemoryOK'
  BY DEF MemoryOK, memory, SyncBlankEnd
<1>5. HistoryOK'
  BY DEF HistoryOK, history, SyncBlankEnd
<1>6. BoundsOK'
  BY DEF BoundsOK, bounds, SyncBlankEnd
<1>7. SessionOK'
  BY DEF SessionOK, ControlOK, MemoryOK, SyncBlankEnd, Goto, PCs, Exclusive,
     Reading, Verifying, Syncing, control, locals, memory
<1>8. CriticalHoldsLock'
  BY DEF CriticalHoldsLock, InCritical, LocksOK, ControlOK, SyncBlankEnd, Goto,
     PCs, Exclusive, Reading, Verifying, Syncing, control, locals, locks
<1> QED
  BY <1>1, <1>2, <1>3, <1>4, <1>5, <1>6, <1>7, <1>8

LEMMA SyncErrorStep ==
  ASSUME IInv, NEW a \in Agents, SyncError(a)
  PROVE  IInv'
<1> USE DEF IInv, TypeOK
<1>1. DiskOK'
  BY DEF DiskOK, disk, SyncError
<1>2. LocksOK'
  BY DEF LocksOK, locks, SyncError
<1>3. ControlOK'
  BY DEF ControlOK, SyncError, Return, Goto, control, locals, PCs, Exclusive,
     Reading, Verifying, Syncing
<1>4. MemoryOK'
  BY DEF MemoryOK, SyncError, Return, Goto, memory
<1>5. HistoryOK'
  BY DEF HistoryOK, history, SyncError
<1>6. BoundsOK'
  BY DEF BoundsOK, bounds, SyncError
<1>7. SessionOK'
  BY DEF SessionOK, ControlOK, MemoryOK, SyncError, Return, Goto, PCs, Exclusive,
     Reading, Verifying, Syncing, control, locals, memory
<1>8. CriticalHoldsLock'
  BY DEF CriticalHoldsLock, InCritical, LocksOK, ControlOK, SyncError, Return,
     Goto, PCs, Exclusive, Reading, Verifying, Syncing, control, locals, locks
<1> QED
  BY <1>1, <1>2, <1>3, <1>4, <1>5, <1>6, <1>7, <1>8

LEMMA SyncEndStep ==
  ASSUME IInv, NEW a \in Agents, SyncEnd(a)
  PROVE  IInv'
<1> USE DEF IInv, TypeOK
<1>1. DiskOK'
  BY DEF DiskOK, disk, SyncEnd
<1>2. LocksOK'
  BY DEF LocksOK, SyncEnd, Return, Goto, locks, OldRlocks, FreshRlocks
<1>3. ControlOK'
  BY DEF ControlOK, SyncEnd, Return, Goto, control, locals, PCs, Exclusive,
     Reading, Verifying, Syncing
<1>4. MemoryOK'
  BY DEF MemoryOK, memory, SyncEnd
<1>5. HistoryOK'
  BY DEF HistoryOK, history, SyncEnd
<1>6. BoundsOK'
  BY DEF BoundsOK, bounds, SyncEnd
<1>7. SessionOK'
  <2>1. /\ UNCHANGED <<arg, memory>>
        /\ \A b \in Agents : b # a => pc'[b] = pc[b]
        /\ isRead[a]
        /\ pc'[a] \in Syncing \cup {"idle", "unlock"}
    <3>1. pc[a] \in Syncing /\ ret[a] \in {"idle", "unlock"}
      BY DEF SyncEnd, Syncing, ControlOK
    <3>2. isRead[a]
      BY <3>1 DEF SessionOK
    <3> QED
      BY <3>1, <3>2 DEF SyncEnd, Return, Goto, ControlOK, control, locals, Syncing
  <2> QED
    BY <2>1 DEF SessionOK, memory, Syncing, Reading, Verifying
<1>8. CriticalHoldsLock'
  BY DEF CriticalHoldsLock, InCritical, LocksOK, ControlOK, SyncEnd, Return, Goto,
     PCs, Exclusive, Reading, Verifying, Syncing, control, locals, locks
<1> QED
  BY <1>1, <1>2, <1>3, <1>4, <1>5, <1>6, <1>7, <1>8

LEMMA CompactFilesStep ==
  ASSUME IInv, NEW a \in Agents, CompactFiles(a)
  PROVE  IInv'
<1> USE DEF IInv, TypeOK
<1>1. DiskOK'
  BY DEF DiskOK, disk, CompactFiles
<1>2. LocksOK'
  BY DEF LocksOK, locks, CompactFiles
<1>3. ControlOK'
  BY DEF ControlOK, CompactFiles, Goto, control, locals, PCs, Exclusive, Reading,
     Verifying, Syncing
<1>4. MemoryOK'
  BY DEF MemoryOK, memory, CompactFiles
<1>5. HistoryOK'
  BY DEF HistoryOK, history, CompactFiles
<1>6. BoundsOK'
  BY DEF BoundsOK, bounds, CompactFiles
<1>7. SessionOK'
  BY DEF SessionOK, ControlOK, MemoryOK, CompactFiles, Goto, PCs, Exclusive,
     Reading, Verifying, Syncing, control, locals, memory
<1>8. CriticalHoldsLock'
  BY DEF CriticalHoldsLock, InCritical, LocksOK, ControlOK, CompactFiles, Goto,
     PCs, Exclusive, Reading, Verifying, Syncing, control, locals, locks
<1> QED
  BY <1>1, <1>2, <1>3, <1>4, <1>5, <1>6, <1>7, <1>8

LEMMA CompactIndexStep ==
  ASSUME IInv, NEW a \in Agents, CompactIndex(a)
  PROVE  IInv'
<1> USE DEF IInv, TypeOK
<1>1. DiskOK'
  <2>1. /\ LiveAt(mem[a]) \in SUBSET (1..Len(mem[a]))
        /\ Cardinality(LiveAt(mem[a])) \in Nat
    BY LiveIndices DEF MemoryOK
  <2>2. PICK f \in Ascending(LiveAt(mem[a])) :
          index' = [i \in 1..Cardinality(LiveAt(mem[a])) |-> mem[a][f[i]]]
    BY DEF CompactIndex
  <2>3. \A i \in 1..Cardinality(LiveAt(mem[a])) : f[i] \in 1..Len(mem[a])
    BY <2>1, <2>2 DEF Ascending
  <2>4. \A i \in 1..Cardinality(LiveAt(mem[a])) : mem[a][f[i]] \in Entry
    BY <2>3 DEF MemoryOK
  <2>5. index' \in Seq(Entry)
    BY <2>1, <2>2, <2>4
  <2>6. files' \subseteq Msgs
    BY DEF CompactIndex, DiskOK
  <2> QED
    BY <2>5, <2>6 DEF CompactIndex, DiskOK
<1>2. LocksOK'
  BY DEF LocksOK, locks, CompactIndex
<1>3. ControlOK'
  BY DEF ControlOK, CompactIndex, Goto, control, locals, PCs, Exclusive, Reading,
     Verifying, Syncing
<1>4. MemoryOK'
  <2>1. Len(mem[a]) - Cardinality(LiveAt(mem[a])) \in Nat
    <3>1. Len(mem[a]) \in Nat
      BY DEF MemoryOK
    <3> QED
      BY <3>1, LiveIndices DEF MemoryOK
  <2> QED
    BY <2>1 DEF CompactIndex, MemoryOK
<1>5. HistoryOK'
  BY DEF HistoryOK, history, CompactIndex
<1>6. BoundsOK'
  BY DEF BoundsOK, bounds, CompactIndex
<1>7. SessionOK'
  <2>1. /\ Len(mem[a]) - Cardinality(LiveAt(mem[a])) <= Len(mem[a])
        /\ isRead[a]
    <3>1. Len(mem[a]) \in Nat
      BY DEF MemoryOK
    <3>2. isRead[a]
      BY DEF CompactIndex, SessionOK, Syncing
    <3> QED
      BY <3>1, <3>2, LiveIndices DEF MemoryOK
  <2> QED
    BY <2>1 DEF CompactIndex, Goto, SessionOK, MemoryOK, ControlOK, Syncing,
       Reading, Verifying, locals
<1>8. CriticalHoldsLock'
  BY DEF CriticalHoldsLock, InCritical, LocksOK, ControlOK, CompactIndex, Goto,
     PCs, Exclusive, Reading, Verifying, Syncing, control, locals, locks
<1> QED
  BY <1>1, <1>2, <1>3, <1>4, <1>5, <1>6, <1>7, <1>8

LEMMA CompactInfoStep ==
  ASSUME IInv, NEW a \in Agents, CompactInfo(a)
  PROVE  IInv'
<1> USE DEF IInv, TypeOK
<1>1. DiskOK'
  BY DEF DiskOK, CompactInfo, Goto, disk, MemoryOK, SessionOK
<1>2. LocksOK'
  BY DEF LocksOK, locks, CompactInfo
<1>3. ControlOK'
  BY DEF ControlOK, CompactInfo, Goto, control, locals, PCs, Exclusive, Reading,
     Verifying, Syncing
<1>4. MemoryOK'
  BY DEF MemoryOK, memory, CompactInfo
<1>5. HistoryOK'
  BY DEF HistoryOK, history, CompactInfo
<1>6. BoundsOK'
  BY DEF BoundsOK, bounds, CompactInfo
<1>7. SessionOK'
  BY DEF SessionOK, ControlOK, MemoryOK, CompactInfo, Goto, PCs, Exclusive,
     Reading, Verifying, Syncing, control, locals, memory
<1>8. CriticalHoldsLock'
  BY DEF CriticalHoldsLock, InCritical, LocksOK, ControlOK, CompactInfo, Goto, PCs,
     Exclusive, Reading, Verifying, Syncing, control, locals, locks
<1> QED
  BY <1>1, <1>2, <1>3, <1>4, <1>5, <1>6, <1>7, <1>8

LEMMA CompactUnlinkStep ==
  ASSUME IInv, NEW a \in Agents, CompactUnlink(a)
  PROVE  IInv'
<1> USE DEF IInv, TypeOK
<1>1. DiskOK'
  BY DEF DiskOK, CompactUnlink, Return, Goto, disk
<1>2. LocksOK'
  BY DEF LocksOK, locks, CompactUnlink
<1>3. ControlOK'
  BY DEF ControlOK, CompactUnlink, Return, Goto, control, locals, PCs, Exclusive,
     Reading, Verifying, Syncing
<1>4. MemoryOK'
  <2>1. CASE changes = <<>>
    BY <2>1 DEF CompactUnlink, MemoryOK
  <2>2. CASE changes # <<>>
    <3>1. /\ changeSize' = [changeSize EXCEPT ![a] = 0]
          /\ numChanges' = [numChanges EXCEPT ![a] = 0]
          /\ needRewrite' = [needRewrite EXCEPT ![a] = FALSE]
          /\ UNCHANGED <<isRead, mem, stale>>
      BY <2>2 DEF CompactUnlink
    <3> QED
      BY <3>1 DEF MemoryOK
  <2> QED
    BY <2>1, <2>2
<1>5. HistoryOK'
  BY DEF HistoryOK, history, CompactUnlink
<1>6. BoundsOK'
  BY DEF BoundsOK, bounds, CompactUnlink
<1>7. SessionOK'
  BY DEF SessionOK, ControlOK, MemoryOK, CompactUnlink, Return, Goto, PCs,
     Exclusive, Reading, Verifying, Syncing, control, locals, memory
<1>8. CriticalHoldsLock'
  BY DEF CriticalHoldsLock, InCritical, LocksOK, ControlOK, CompactUnlink, Return,
     Goto, PCs, Exclusive, Reading, Verifying, Syncing, control, locals, locks
<1> QED
  BY <1>1, <1>2, <1>3, <1>4, <1>5, <1>6, <1>7, <1>8

LEMMA CompactFailStep ==
  ASSUME IInv, NEW a \in Agents, CompactFail(a)
  PROVE  IInv'
<1> USE DEF IInv, TypeOK
<1>1. DiskOK' /\ MemoryOK' /\ HistoryOK'
  BY DEF DiskOK, MemoryOK, HistoryOK, CompactFail, disk, memory, history
<1>2. LocksOK'
  BY DEF LocksOK, locks, CompactFail
<1>3. ControlOK'
  BY DEF ControlOK, CompactFail, Return, Goto, control, locals, PCs, Exclusive,
     Reading, Verifying, Syncing
<1>4. BoundsOK'
  BY DEF BoundsOK, CompactFail, bounds
<1>5. SessionOK'
  BY DEF SessionOK, ControlOK, MemoryOK, CompactFail, Return, Goto, PCs,
     Exclusive, Reading, Verifying, Syncing, control, locals, memory
<1>6. CriticalHoldsLock'
  BY DEF CriticalHoldsLock, InCritical, LocksOK, ControlOK, CompactFail,
     Return, Goto, PCs, Exclusive, Reading, Verifying, Syncing, control, locals,
     locks
<1> QED
  BY <1>1, <1>2, <1>3, <1>4, <1>5, <1>6

LEMMA CompactBreaksStep ==
  ASSUME IInv, NEW a \in Agents, CompactBreaks(a)
  PROVE  IInv'
<1> USE DEF IInv, TypeOK
<1>1. DiskOK' /\ MemoryOK' /\ HistoryOK'
  BY DEF DiskOK, MemoryOK, HistoryOK, CompactBreaks, disk, memory, history
<1>2. LocksOK'
  BY DEF LocksOK, locks, CompactBreaks
<1>3. ControlOK'
  BY DEF ControlOK, CompactBreaks, Return, Goto, control, locals, PCs, Exclusive,
     Reading, Verifying, Syncing
<1>4. BoundsOK'
  BY ConstantsAssumption DEF BoundsOK, CompactBreaks, bounds
<1>5. SessionOK'
  BY DEF SessionOK, ControlOK, MemoryOK, CompactBreaks, Return, Goto, PCs,
     Exclusive, Reading, Verifying, Syncing, control, locals, memory
<1>6. CriticalHoldsLock'
  BY DEF CriticalHoldsLock, InCritical, LocksOK, ControlOK, CompactBreaks,
     Return, Goto, PCs, Exclusive, Reading, Verifying, Syncing, control, locals,
     locks
<1> QED
  BY <1>1, <1>2, <1>3, <1>4, <1>5, <1>6

LEMMA InsertIndexStep ==
  ASSUME IInv, NEW a \in Agents, NEW m \in Msgs, InsertIndex(a, m)
  PROVE  IInv'
<1> USE DEF IInv, TypeOK
<1>1. DiskOK'
  <2>1. [msg |-> m, del |-> FALSE, kw |-> NoKeywords, gone |-> FALSE] \in Entry
    BY ConstantsAssumption DEF Entry
  <2> QED
    BY <2>1 DEF InsertIndex, DiskOK
<1>2. LocksOK'
  BY DEF LocksOK, InsertIndex, Operation, Idle, Enter, Lock, Goto, locks
<1>3. ControlOK'
  BY DEF ControlOK, InsertIndex, Operation, Idle, Enter, Lock, Goto, control,
     locals, DiskOK, PCs, Exclusive, Reading, Verifying, Syncing
<1>4. MemoryOK'
  BY DEF MemoryOK, memory, InsertIndex
<1>5. HistoryOK'
  BY DEF HistoryOK, history, InsertIndex
<1>6. BoundsOK'
  BY ConstantsAssumption DEF BoundsOK, InsertIndex, Operation, Idle, Enter, Lock,
     Goto, bounds
<1>7. SessionOK'
  BY DEF SessionOK, ControlOK, MemoryOK, InsertIndex, Operation, Idle, Enter, Lock,
     Goto, PCs, Exclusive, Reading, Verifying, Syncing, control, locals, memory
<1>8. CriticalHoldsLock'
  BY ConstantsAssumption
     DEF CriticalHoldsLock, InCritical, LocksOK, ControlOK, InsertIndex, Operation,
     Idle, Enter, Lock, Goto, PCs, Exclusive, Reading, Verifying, Syncing, control,
     locals, locks
<1> QED
  BY <1>1, <1>2, <1>3, <1>4, <1>5, <1>6, <1>7, <1>8

LEMMA InsertFileStep ==
  ASSUME IInv, NEW a \in Agents, InsertFile(a)
  PROVE  IInv'
<1> USE DEF IInv, TypeOK
<1>1. DiskOK'
  BY DEF DiskOK, InsertFile, SessionOK, disk
<1>2. LocksOK'
  BY DEF LocksOK, locks, InsertFile
<1>3. ControlOK'
  BY DEF ControlOK, InsertFile, Goto, control, locals, PCs, Exclusive, Reading,
     Verifying, Syncing
<1>4. MemoryOK'
  BY DEF MemoryOK, memory, InsertFile
<1>5. HistoryOK'
  BY DEF HistoryOK, history, InsertFile
<1>6. BoundsOK'
  BY DEF BoundsOK, bounds, InsertFile
<1>7. SessionOK'
  BY DEF SessionOK, ControlOK, MemoryOK, InsertFile, Goto, PCs, Exclusive, Reading,
     Verifying, Syncing, control, locals, memory
<1>8. CriticalHoldsLock'
  BY DEF CriticalHoldsLock, InCritical, LocksOK, ControlOK, InsertFile, Goto, PCs,
     Exclusive, Reading, Verifying, Syncing, control, locals, locks
<1> QED
  BY <1>1, <1>2, <1>3, <1>4, <1>5, <1>6, <1>7, <1>8

LEMMA InsertChangesStep ==
  ASSUME IInv, NEW a \in Agents, InsertChanges(a)
  PROVE  IInv'
<1> USE DEF IInv, TypeOK
<1>1. DiskOK'
  BY DEF DiskOK, InsertChanges, Goto, disk, Record, ControlOK, SessionOK
<1>2. LocksOK'
  BY DEF LocksOK, locks, InsertChanges
<1>3. ControlOK'
  BY DEF ControlOK, InsertChanges, Goto, control, locals, PCs, Exclusive, Reading,
     Verifying, Syncing
<1>4. MemoryOK'
  BY DEF MemoryOK, memory, InsertChanges
<1>5. HistoryOK'
  BY DEF HistoryOK, InsertChanges, Goto, history, SessionOK
<1>6. BoundsOK'
  BY DEF BoundsOK, bounds, InsertChanges
<1>7. SessionOK'
  BY DEF SessionOK, ControlOK, MemoryOK, InsertChanges, Goto, PCs, Exclusive,
     Reading, Verifying, Syncing, control, locals, memory
<1>8. CriticalHoldsLock'
  BY DEF CriticalHoldsLock, InCritical, LocksOK, ControlOK, InsertChanges, Goto,
     PCs, Exclusive, Reading, Verifying, Syncing, control, locals, locks
<1> QED
  BY <1>1, <1>2, <1>3, <1>4, <1>5, <1>6, <1>7, <1>8

LEMMA InsertFailStep ==
  ASSUME IInv, NEW a \in Agents, InsertFail(a)
  PROVE  IInv'
<1> USE DEF IInv, TypeOK
<1>1. DiskOK'
  BY DEF DiskOK, InsertFail, Goto, disk, ControlOK
<1>2. LocksOK'
  BY DEF LocksOK, locks, InsertFail
<1>3. ControlOK'
  BY DEF ControlOK, InsertFail, Goto, control, locals, PCs, Exclusive, Reading,
     Verifying, Syncing
<1>4. MemoryOK'
  BY DEF MemoryOK, memory, InsertFail
<1>5. HistoryOK'
  BY DEF HistoryOK, history, InsertFail
<1>6. BoundsOK'
  BY DEF BoundsOK, bounds, InsertFail
<1>7. SessionOK'
  BY DEF SessionOK, ControlOK, MemoryOK, InsertFail, Goto, PCs, Exclusive, Reading,
     Verifying, Syncing, control, locals, memory
<1>8. CriticalHoldsLock'
  BY DEF CriticalHoldsLock, InCritical, LocksOK, ControlOK, InsertFail, Goto, PCs,
     Exclusive, Reading, Verifying, Syncing, control, locals, locks
<1> QED
  BY <1>1, <1>2, <1>3, <1>4, <1>5, <1>6, <1>7, <1>8

LEMMA SearchStep ==
  ASSUME IInv, NEW a \in Agents, Search(a)
  PROVE  IInv'
<1> USE DEF IInv, TypeOK
<1>1. DiskOK'
  BY DEF DiskOK, disk, Search
<1>2. LocksOK'
  BY DEF LocksOK, locks, Search
<1>3. ControlOK'
  BY DEF ControlOK, Search, Goto, Idle, control, locals, PCs, Exclusive, Reading,
     Verifying, Syncing
<1>4. MemoryOK'
  BY DEF MemoryOK, memory, Search
<1>5. HistoryOK'
  BY DEF HistoryOK, history, Search
<1>6. BoundsOK'
  BY DEF BoundsOK, bounds, Search
<1>7. SessionOK'
  BY DEF SessionOK, ControlOK, MemoryOK, Search, Goto, Idle, PCs, Exclusive,
     Reading, Verifying, Syncing, control, locals, memory
<1>8. CriticalHoldsLock'
  BY DEF CriticalHoldsLock, InCritical, LocksOK, ControlOK, Search, Goto, Idle,
     PCs, Exclusive, Reading, Verifying, Syncing, control, locals, locks
<1> QED
  BY <1>1, <1>2, <1>3, <1>4, <1>5, <1>6, <1>7, <1>8

LEMMA GetMessageStep ==
  ASSUME IInv, NEW a \in Agents, GetMessage(a)
  PROVE  IInv'
<1> USE DEF IInv, TypeOK
<1>1. DiskOK'
  BY DEF DiskOK, disk, GetMessage
<1>2. LocksOK'
  BY DEF LocksOK, GetMessage, Enter, Lock, Goto, Idle, locks
<1>3. ControlOK'
  BY DEF ControlOK, GetMessage, Enter, Lock, Goto, Idle, control, locals, PCs,
     Exclusive, Reading, Verifying, Syncing
<1>4. MemoryOK'
  BY DEF MemoryOK, memory, GetMessage
<1>5. HistoryOK'
  BY DEF HistoryOK, history, GetMessage
<1>6. BoundsOK'
  BY DEF BoundsOK, bounds, GetMessage
<1>7. SessionOK'
  BY DEF SessionOK, ControlOK, MemoryOK, GetMessage, Enter, Lock, Goto, Idle, PCs,
     Exclusive, Reading, Verifying, Syncing, control, locals, memory
<1>8. CriticalHoldsLock'
  BY ConstantsAssumption
     DEF CriticalHoldsLock, InCritical, LocksOK, ControlOK, GetMessage, Enter,
     Lock, Goto, Idle, PCs, Exclusive, Reading, Verifying, Syncing, control,
     locals, locks
<1> QED
  BY <1>1, <1>2, <1>3, <1>4, <1>5, <1>6, <1>7, <1>8

LEMMA GetMessageReadErrorStep ==
  ASSUME IInv, NEW a \in Agents, GetMessageReadError(a)
  PROVE  IInv'
<1> USE DEF IInv, TypeOK
<1>1. DiskOK'
  BY DEF DiskOK, disk, GetMessageReadError
<1>2. LocksOK'
  BY DEF LocksOK, GetMessageReadError, Lock, Idle, locks
<1>3. ControlOK'
  BY DEF ControlOK, control, locals, GetMessageReadError
<1>4. MemoryOK'
  BY DEF MemoryOK, memory, GetMessageReadError
<1>5. HistoryOK'
  BY DEF HistoryOK, history, GetMessageReadError
<1>6. BoundsOK'
  BY DEF BoundsOK, bounds, GetMessageReadError
<1>7. SessionOK'
  BY DEF SessionOK, ControlOK, MemoryOK, GetMessageReadError, Lock, Idle, PCs,
     Exclusive, Reading, Verifying, Syncing, control, locals, memory
<1>8. CriticalHoldsLock'
  BY ConstantsAssumption
     DEF CriticalHoldsLock, InCritical, LocksOK, ControlOK, GetMessageReadError,
     Lock, Idle, PCs, Exclusive, Reading, Verifying, Syncing, control, locals, locks
<1> QED
  BY <1>1, <1>2, <1>3, <1>4, <1>5, <1>6, <1>7, <1>8

LEMMA CloseStep ==
  ASSUME IInv, NEW a \in Agents, Close(a)
  PROVE  IInv'
<1> USE DEF IInv, TypeOK
<1>1. DiskOK'
  BY DEF DiskOK, disk, Close
<1>2. LocksOK'
  BY DEF LocksOK, Close, Goto, Idle, locks
<1>3. ControlOK'
  BY DEF ControlOK, Close, Goto, Idle, control, locals, PCs, Exclusive, Reading,
     Verifying, Syncing
<1>4. MemoryOK'
  BY DEF MemoryOK, Close, Goto, Idle, memory
<1>5. HistoryOK'
  BY DEF HistoryOK, history, Close
<1>6. BoundsOK'
  BY DEF BoundsOK, bounds, Close
<1>7. SessionOK'
  BY DEF SessionOK, ControlOK, MemoryOK, Close, Goto, Idle, PCs, Exclusive,
     Reading, Verifying, Syncing, control, locals, memory
<1>8. CriticalHoldsLock'
  BY DEF CriticalHoldsLock, InCritical, LocksOK, ControlOK, Close, Goto, Idle, PCs,
     Exclusive, Reading, Verifying, Syncing, control, locals, locks
<1> QED
  BY <1>1, <1>2, <1>3, <1>4, <1>5, <1>6, <1>7, <1>8

LEMMA CrashStep ==
  ASSUME IInv, NEW a \in Agents, Crash(a)
  PROVE  IInv'
<1> USE DEF IInv, TypeOK
<1>1. DiskOK'
  BY DEF DiskOK, disk, Crash
<1>2. LocksOK'
  BY DEF LocksOK, Crash, Goto, locks
<1>3. ControlOK'
  BY DEF ControlOK, Crash, Goto, control, locals, PCs, Exclusive, Reading,
     Verifying, Syncing
<1>4. MemoryOK'
  BY DEF MemoryOK, Crash, Goto, memory
<1>5. HistoryOK'
  BY DEF HistoryOK, history, Crash
<1>6. BoundsOK'
  BY ConstantsAssumption DEF BoundsOK, Crash, Goto, bounds
<1>7. SessionOK'
  BY DEF SessionOK, ControlOK, MemoryOK, Crash, Goto, PCs, Exclusive, Reading,
     Verifying, Syncing, control, locals, memory
<1>8. CriticalHoldsLock'
  BY DEF CriticalHoldsLock, InCritical, LocksOK, ControlOK, Crash, Goto, PCs,
     Exclusive, Reading, Verifying, Syncing, control, locals, locks
<1> QED
  BY <1>1, <1>2, <1>3, <1>4, <1>5, <1>6, <1>7, <1>8

\* Locked operations that only append to the log.
LEMMA AppendLogStep ==
  ASSUME IInv, NEW a \in Agents, NEW records \in Seq(Record),
         Idle(a), isRead[a], AppendLog(a, records),
         condemned' \subseteq Msgs, ops' \in 0..MaxOps
  PROVE  IInv'
<1> USE DEF IInv, TypeOK
<1>1. DiskOK'
  BY DEF DiskOK, AppendLog
<1>2. LocksOK'
  BY DEF LocksOK, AppendLog, Enter, Lock
<1>3. ControlOK'
  BY DEF ControlOK, AppendLog, Enter, Goto, PCs, Syncing, locals
<1>4. MemoryOK'
  BY DEF MemoryOK, AppendLog, memory
<1>5. HistoryOK'
  BY DEF HistoryOK, AppendLog
<1>6. BoundsOK'
  BY DEF BoundsOK, AppendLog
<1>7. SessionOK'
  BY DEF SessionOK, ControlOK, AppendLog, Enter, Goto, Syncing, Reading,
     Verifying, locals, memory
<1>8. CriticalHoldsLock'
  BY ConstantsAssumption DEF CriticalHoldsLock, InCritical, ControlOK, AppendLog,
     Enter, Lock, Goto, Exclusive, Reading, Verifying, Syncing
<1> QED
  BY <1>1, <1>2, <1>3, <1>4, <1>5, <1>6, <1>7, <1>8

LEMMA SetStatusStep ==
  ASSUME IInv, NEW a \in Agents, NEW i \in 1..Len(mem[a]), NEW del \in BOOLEAN,
         SetStatus(a, i, del)
  PROVE  IInv'
<1>1. [op |-> "s", at |-> i, del |-> del] \in Record
  <2>1. Len(mem[a]) \in Nat
    BY DEF IInv, TypeOK, MemoryOK
  <2> QED
    BY <2>1 DEF Record
<1>2. <<[op |-> "s", at |-> i, del |-> del]>> \in Seq(Record)
  BY <1>1
<1>3. condemned' \subseteq Msgs /\ ops' \in 0..MaxOps
  BY ConstantsAssumption
     DEF SetStatus, Operation, IInv, TypeOK, HistoryOK, BoundsOK
<1> QED
  BY <1>2, <1>3, AppendLogStep DEF SetStatus, Operation

LEMMA SetInfoStep ==
  ASSUME IInv, NEW a \in Agents, NEW S \in SUBSET (1..Len(mem[a])),
         NEW kw \in Keywords, SetInfo(a, S, kw)
  PROVE  IInv'
<1>1. [op |-> "k", at |-> S, kw |-> kw] \in Record
  <2>1. Len(mem[a]) \in Nat
    BY DEF IInv, TypeOK, MemoryOK
  <2> QED
    BY <2>1 DEF Record
<1>2. <<[op |-> "k", at |-> S, kw |-> kw]>> \in Seq(Record)
  BY <1>1
<1>3. condemned' \subseteq Msgs /\ ops' \in 0..MaxOps
  BY ConstantsAssumption
     DEF SetInfo, Operation, IInv, TypeOK, HistoryOK, BoundsOK
<1> QED
  BY <1>2, <1>3, AppendLogStep DEF SetInfo, Operation

\* What Expunge and Expire share.
LEMMA DeleteStep ==
  ASSUME IInv, NEW a \in Agents, NEW S \in SUBSET (1..Len(mem[a])),
         Idle(a), isRead[a], ops' \in 0..MaxOps, Delete(a, S)
  PROVE  IInv'
<1>1. mem[a] \in Seq(Entry) /\ Len(mem[a]) \in Nat
  BY DEF IInv, TypeOK, MemoryOK
<1>2. PICK f \in Ascending(S) :
        AppendLog(a, [i \in 1..Cardinality(S) |-> [op |-> "d", at |-> f[i]]])
  BY DEF Delete
<1> DEFINE records == [i \in 1..Cardinality(S) |-> [op |-> "d", at |-> f[i]]]
<1>3. Cardinality(S) \in Nat
  BY <1>1, IndexSetCardinality
<1>4. \A i \in 1..Cardinality(S) : [op |-> "d", at |-> f[i]] \in Record
  <2>1. f \in [1..Cardinality(S) -> S]
    BY <1>2 DEF Ascending
  <2>2. \A i \in S : i \in Nat
    BY <1>1
  <2>3. \A i \in 1..Cardinality(S) : f[i] \in Nat
    BY <2>1, <2>2
  <2> QED
    BY <2>3 DEF Record
<1>5. records \in Seq(Record)
  BY <1>3, <1>4
<1>6. condemned' \subseteq Msgs
  <2>1. \A i \in S : mem[a][i] \in Entry
    BY <1>1
  <2>2. \A i \in S : mem[a][i].msg \in Msgs
    BY <2>1 DEF Entry
  <2> QED
    BY <2>2 DEF Delete, IInv, TypeOK, HistoryOK
<1>7. AppendLog(a, records)
  BY <1>2
<1> HIDE DEF records
<1> QED
  BY <1>5, <1>6, <1>7, AppendLogStep

LEMMA ExpungeStep ==
  ASSUME IInv, NEW a \in Agents, Expunge(a)
  PROVE  IInv'
<1>1. Marked(a) \in SUBSET (1..Len(mem[a]))
  BY DEF Marked
<1>2. ops' \in 0..MaxOps
  BY ConstantsAssumption DEF Expunge, Operation, IInv, TypeOK, BoundsOK
<1> QED
  BY <1>1, <1>2, DeleteStep DEF Expunge, Operation

LEMMA ExpireStep ==
  ASSUME IInv, NEW a \in Agents, NEW S \in SUBSET (1..Len(mem[a])), Expire(a, S)
  PROVE  IInv'
<1>1. ops' \in 0..MaxOps
  BY ConstantsAssumption DEF Expire, Operation, IInv, TypeOK, BoundsOK
<1> QED
  BY <1>1, DeleteStep DEF Expire, Operation

LEMMA CheckLockStep ==
  ASSUME IInv, NEW a \in Agents, NEW fix \in BOOLEAN, CheckLock(a, fix)
  PROVE  IInv'
<1> USE DEF IInv, TypeOK
<1>1. DiskOK'
  BY DEF DiskOK, disk, CheckLock, Enter, Lock, Idle, Goto
<1>2. LocksOK'
  BY DEF LocksOK, locks, CheckLock, Enter, Lock, Idle, Goto
<1>3. ControlOK'
  <2> DEFINE alone == \A b \in Agents \ {a} : ~isRead[b]
  <2>1. alone \in BOOLEAN
    OBVIOUS
  <2>2. work' = [work EXCEPT ![a].fix = fix, ![a].alone = alone]
    BY DEF CheckLock
  <2>3. work[a] \in Work
    BY DEF ControlOK
  <2> HIDE DEF alone
  <2>4. work' \in [Agents -> Work]
    BY <2>1, <2>2, <2>3 DEF Work, ControlOK
  <2> QED
    BY <2>4 DEF ControlOK, CheckLock, Enter, Goto, PCs, Exclusive, Verifying
<1>4. MemoryOK'
  BY DEF MemoryOK, memory, CheckLock, Enter, Lock, Idle, Goto
<1>5. HistoryOK'
  BY DEF HistoryOK, history, CheckLock, Enter, Lock, Idle, Goto
<1>6. BoundsOK'
  BY ConstantsAssumption DEF BoundsOK, bounds, CheckLock
<1>7. SessionOK'
  BY DEF SessionOK, ControlOK, MemoryOK, CheckLock, Enter, Lock, Idle, Goto, PCs,
     Exclusive, Reading, Verifying, Syncing,
     control, locals, memory
<1>8. CriticalHoldsLock'
  BY ConstantsAssumption
     DEF CriticalHoldsLock, InCritical, LocksOK, ControlOK, CheckLock, Enter, Lock,
     Idle, Goto,
     PCs, Exclusive, Reading, Verifying, Syncing, control, locals, locks
<1> QED
  BY <1>1, <1>2, <1>3, <1>4, <1>5, <1>6, <1>7, <1>8

\* A step that only looks: the agent moves on in its verification or, from the
\* last step, to its end.
LEMMA LookStep ==
  ASSUME IInv, NEW a \in Agents, NEW from \in Verifying,
         NEW to \in Verifying \cup {"idle", "unlock"}, Look(a, from, to),
         work' \in [Agents -> Work]
  PROVE  IInv'
<1> USE DEF IInv, TypeOK
<1>1. /\ UNCHANGED disk /\ UNCHANGED locks /\ UNCHANGED memory
      /\ UNCHANGED history /\ UNCHANGED bounds /\ UNCHANGED <<ret, pos, arg>>
      /\ pc[a] = from /\ pc' = [pc EXCEPT ![a] = to]
  BY DEF Look, Goto
<1>2. DiskOK' /\ LocksOK' /\ MemoryOK' /\ HistoryOK' /\ BoundsOK'
  <2>1. DiskOK'
    BY <1>1 DEF DiskOK, disk
  <2>2. LocksOK'
    BY <1>1 DEF LocksOK, locks
  <2>3. MemoryOK'
    BY <1>1 DEF MemoryOK, memory
  <2>4. HistoryOK'
    BY <1>1 DEF HistoryOK, history
  <2>5. BoundsOK'
    BY <1>1 DEF BoundsOK, bounds
  <2> QED
    BY <2>1, <2>2, <2>3, <2>4, <2>5
<1>3. to \in PCs /\ to \notin Syncing \cup {"i_file", "i_log"} \cup Reading
  BY DEF PCs, Exclusive, Reading, Verifying, Syncing
<1>4. ControlOK'
  BY <1>1, <1>3 DEF ControlOK
<1>5. pc'[a] = to /\ \A b \in Agents : b # a => pc'[b] = pc[b]
  BY <1>1 DEF ControlOK
<1>6. pc[a] \notin {"restart", "dead"} /\ InCritical(a)
  BY <1>1 DEF InCritical, Exclusive, Verifying
<1>7. UNCHANGED <<isRead, mem, stale, arg, ret, lock>>
  BY <1>1 DEF memory, locks
<1>8. SessionOK'
  <2> SUFFICES ASSUME NEW b \in Agents
               PROVE  /\ pc'[b] \in Syncing \cup {"i_file", "i_log"} => isRead[b]
                      /\ pc'[b] \in Reading => ~isRead[b]
                      /\ pc'[b] \in {"i_file", "i_log"} => arg[b] \in Msgs
                      /\ ~isRead[b] /\ pc'[b] \notin {"restart", "dead"} => stale[b] = 0
                      /\ stale[b] <= Len(mem[b])
    BY <1>7 DEF SessionOK
  <2>1. CASE b = a
    BY <1>3, <1>5, <1>6, <2>1 DEF SessionOK
  <2>2. CASE b # a
    BY <1>5, <2>2 DEF SessionOK
  <2> QED
    BY <2>1, <2>2
<1>9. CriticalHoldsLock'
  <2> SUFFICES ASSUME NEW b \in Agents, InCritical(b)'
               PROVE  lock = b
    BY <1>7 DEF CriticalHoldsLock
  <2>1. CASE b = a
    BY <1>6, <2>1 DEF CriticalHoldsLock
  <2>2. CASE b # a
    BY <1>5, <1>7, <2>2 DEF CriticalHoldsLock, InCritical
  <2> QED
    BY <2>1, <2>2
<1> QED
  BY <1>2, <1>4, <1>8, <1>9

LEMMA CheckInfoStep ==
  ASSUME IInv, NEW a \in Agents, CheckInfo(a)
  PROVE  IInv'
<1>1. work \in [Agents -> Work] /\ info \in Nat
  BY DEF IInv, TypeOK, ControlOK, DiskOK
<1>2. work' \in [Agents -> Work]
  <2>1. [work[a] EXCEPT !.counted = info] \in Work
    BY <1>1 DEF Work
  <2> QED
    BY <1>1, <2>1 DEF CheckInfo
<1>3. Look(a, "v_info", "v_files")
  BY DEF CheckInfo
<1> QED
  BY <1>2, <1>3, LookStep DEF Verifying

LEMMA CheckErrorStep ==
  ASSUME IInv, NEW a \in Agents, CheckError(a)
  PROVE  IInv'
<1>1. work \in [Agents -> Work] /\ NoWork \in Work
  BY DEF IInv, TypeOK, ControlOK, Work, NoWork
<1>2. work' \in [Agents -> Work]
  BY <1>1 DEF CheckError
<1>3. CASE Look(a, "v_info", "idle")
  BY <1>2, <1>3, LookStep DEF Verifying
<1>4. CASE Look(a, "v_index", "idle")
  BY <1>2, <1>4, LookStep DEF Verifying
<1> QED
  BY <1>3, <1>4 DEF CheckError

LEMMA CheckFilesStep ==
  ASSUME IInv, NEW a \in Agents, CheckFiles(a)
  PROVE  IInv'
<1>1. work \in [Agents -> Work] /\ files \in SUBSET Msgs
  BY DEF IInv, TypeOK, ControlOK, DiskOK
<1>2. work' \in [Agents -> Work]
  <2>1. [work[a] EXCEPT !.items = files] \in Work
    BY <1>1 DEF Work
  <2> QED
    BY <1>1, <2>1 DEF CheckFiles
<1>3. Look(a, "v_files", "v_changes")
  BY DEF CheckFiles
<1> QED
  BY <1>2, <1>3, LookStep DEF Verifying

\* What CheckChanges() counts and collects has the types it should have.
LEMMA LogTypes ==
  ASSUME DiskOK
  PROVE  /\ Cardinality(Records("a")) \in Nat
         /\ Numbers \subseteq Nat
<1>1. changes \in Seq(Record)
  BY DEF DiskOK
<1>2. Records("a") \in SUBSET (1..Len(changes))
  BY <1>1 DEF Records
<1>3. ASSUME NEW i \in Records("s") PROVE changes[i].at \in Nat
  <2>1. changes[i] \in Record /\ changes[i].op = "s"
    BY <1>1 DEF Records
  <2> QED
    BY <2>1 DEF Record
<1> QED
  BY <1>1, <1>2, <1>3, IndexSetCardinality DEF Numbers

LEMMA CheckChangesStep ==
  ASSUME IInv, NEW a \in Agents, CheckChanges(a)
  PROVE  IInv'
<1>1. DiskOK /\ work \in [Agents -> Work]
  BY DEF IInv, TypeOK, ControlOK
<1>2. work' \in [Agents -> Work]
  <2>1. PICK del \in [Numbers -> BOOLEAN] :
          work' = [work EXCEPT
                     ![a].counted = @ + Cardinality(Records("a")),
                     ![a].status = {[at |-> n, del |-> del[n]] : n \in Numbers}]
    BY DEF CheckChanges
  <2>2. {[at |-> n, del |-> del[n]] : n \in Numbers} \subseteq [at : Nat, del : BOOLEAN]
    BY <1>1, LogTypes
  <2>3. work[a] \in Work
    BY <1>1
  <2>4. work[a].counted + Cardinality(Records("a")) \in Nat
    BY <1>1, <2>3, LogTypes DEF Work
  <2> QED
    BY <1>1, <2>1, <2>2, <2>3, <2>4 DEF Work
<1>3. Look(a, "v_changes", "v_index")
  BY DEF CheckChanges
<1> QED
  BY <1>2, <1>3, LookStep DEF Verifying

LEMMA CheckCleanStep ==
  ASSUME IInv, NEW a \in Agents, CheckClean(a)
  PROVE  IInv'
<1>1. work \in [Agents -> Work] /\ NoWork \in Work
  BY DEF IInv, TypeOK, ControlOK, Work, NoWork
<1>2. work' \in [Agents -> Work]
  BY <1>1 DEF CheckClean
<1>3. Look(a, "v_index", "unlock")
  BY DEF CheckClean
<1> QED
  BY <1>2, <1>3, LookStep DEF Verifying

\* The entries of a mended index are entries.
LEMMA FreshEntries ==
  ASSUME DiskOK, NEW a \in Agents, work[a] \in Work
  PROVE  KeptEntries(a) \cup MadeUp(a) \subseteq Entry
<1>1. ASSUME NEW i \in Found(a) PROVE Kept(a, i) \in Entry
  <2> DEFINE logged == {s \in work[a].status : s.at = Rank(a, i)}
  <2>1. index[i] \in Entry
    BY DEF Found, DiskOK
  <2>2. index[i].del \in BOOLEAN
    BY <2>1 DEF Entry
  <2>3. (IF logged = {} THEN index[i].del ELSE \E s \in logged : s.del) \in BOOLEAN
    BY <2>2
  <2>4. Kept(a, i) = [index[i] EXCEPT !.del = IF logged = {} THEN index[i].del
                                              ELSE \E s \in logged : s.del]
    BY DEF Kept
  <2> HIDE DEF logged
  <2> QED
    BY <2>1, <2>3, <2>4, EntryUpdates
<1>2. KeptEntries(a) \subseteq Entry
  BY <1>1 DEF KeptEntries
<1>3. MadeUp(a) \subseteq Entry
  <2>1. ASSUME NEW m \in Unlinked(a)
        PROVE  [msg |-> m, del |-> FALSE, kw |-> LostMessage, gone |-> FALSE] \in Entry
    <3>1. m \in Msgs
      BY DEF Unlinked, Work
    <3> QED
      BY <3>1, ConstantsAssumption DEF Entry
  <2> QED
    BY <2>1 DEF MadeUp
<1> QED
  BY <1>2, <1>3

LEMMA CheckOpenStep ==
  ASSUME IInv, NEW a \in Agents, CheckOpen(a)
  PROVE  IInv'
<1> USE DEF IInv, TypeOK
<1>1. DiskOK'
  BY DEF DiskOK, disk, CheckOpen, Goto
<1>2. LocksOK'
  BY DEF LocksOK, locks, CheckOpen, Goto
<1>3. ControlOK'
  <2>1. work[a] \in Work
    BY DEF ControlOK
  <2>2. KeptEntries(a) \cup MadeUp(a) \subseteq Entry
    BY <2>1, FreshEntries
  <2>3. work' \in [Agents -> Work]
    BY <2>1, <2>2 DEF CheckOpen, Work, ControlOK
  <2> QED
    BY <2>3 DEF ControlOK, CheckOpen, Goto, PCs, Exclusive, Reading, Verifying,
       Syncing
<1>4. MemoryOK'
  BY DEF MemoryOK, memory, CheckOpen, Goto
<1>5. HistoryOK'
  BY DEF HistoryOK, history, CheckOpen, Goto
<1>6. BoundsOK'
  BY DEF BoundsOK, bounds, CheckOpen, Goto
<1>7. SessionOK'
  BY DEF SessionOK, ControlOK, MemoryOK, CheckOpen, Goto, PCs, Exclusive, Reading,
     Verifying, Syncing,
     control, locals, memory
<1>8. CriticalHoldsLock'
  BY DEF CriticalHoldsLock, InCritical, LocksOK, ControlOK, CheckOpen, Goto,
     PCs, Exclusive, Reading, Verifying, Syncing, control, locals, locks
<1> QED
  BY <1>1, <1>2, <1>3, <1>4, <1>5, <1>6, <1>7, <1>8

LEMMA CheckWriteStep ==
  ASSUME IInv, NEW a \in Agents, CheckWrite(a)
  PROVE  IInv'
<1> USE DEF IInv, TypeOK
<1>1. DiskOK'
  <2>1. work[a].fresh \subseteq Entry
    BY DEF ControlOK, Work
  <2> QED
    BY <2>1 DEF DiskOK, CheckWrite
<1>2. LocksOK'
  BY DEF LocksOK, locks, CheckWrite, Goto
<1>3. ControlOK'
  <2>1. PICK e \in work[a].fresh :
          work' = [work EXCEPT ![a].fresh = @ \ {e}, ![a].counted = @ + 1]
    BY DEF CheckWrite
  <2>2. work[a] \in Work
    BY DEF ControlOK
  <2>3. work' \in [Agents -> Work]
    BY <2>1, <2>2 DEF Work, ControlOK
  <2> QED
    BY <2>3 DEF ControlOK, CheckWrite
<1>4. MemoryOK'
  BY DEF MemoryOK, memory, CheckWrite, Goto
<1>5. HistoryOK'
  BY DEF HistoryOK, history, CheckWrite, Goto
<1>6. BoundsOK'
  BY DEF BoundsOK, bounds, CheckWrite, Goto
<1>7. SessionOK'
  BY DEF SessionOK, ControlOK, MemoryOK, CheckWrite, Goto, PCs, Exclusive, Reading,
     Verifying, Syncing,
     control, locals, memory
<1>8. CriticalHoldsLock'
  BY DEF CriticalHoldsLock, InCritical, LocksOK, ControlOK, CheckWrite, Goto,
     PCs, Exclusive, Reading, Verifying, Syncing, control, locals, locks
<1> QED
  BY <1>1, <1>2, <1>3, <1>4, <1>5, <1>6, <1>7, <1>8

LEMMA CheckWriteInfoStep ==
  ASSUME IInv, NEW a \in Agents, CheckWriteInfo(a)
  PROVE  IInv'
<1> USE DEF IInv, TypeOK
<1>1. DiskOK'
  BY DEF DiskOK, CheckWriteInfo, ControlOK, Work
<1>2. LocksOK'
  BY DEF LocksOK, locks, CheckWriteInfo, Goto
<1>3. ControlOK'
  BY DEF ControlOK, CheckWriteInfo, Goto, control, locals, Work, NoWork, PCs,
     Exclusive, Reading, Verifying, Syncing
<1>4. MemoryOK'
  BY DEF MemoryOK, memory, CheckWriteInfo, Goto
<1>5. HistoryOK'
  BY DEF HistoryOK, history, CheckWriteInfo, Goto
<1>6. BoundsOK'
  BY DEF BoundsOK, bounds, CheckWriteInfo, Goto
<1>7. SessionOK'
  BY DEF SessionOK, ControlOK, MemoryOK, CheckWriteInfo, Goto, PCs, Exclusive,
     Reading, Verifying, Syncing,
     control, locals, memory
<1>8. CriticalHoldsLock'
  BY DEF CriticalHoldsLock, InCritical, LocksOK, ControlOK, CheckWriteInfo, Goto,
     PCs, Exclusive, Reading, Verifying, Syncing, control, locals, locks
<1> QED
  BY <1>1, <1>2, <1>3, <1>4, <1>5, <1>6, <1>7, <1>8

LEMMA CheckUnlinkStep ==
  ASSUME IInv, NEW a \in Agents, CheckUnlink(a)
  PROVE  IInv'
<1> USE DEF IInv, TypeOK
<1>1. DiskOK'
  BY DEF DiskOK, disk, CheckUnlink, Goto
<1>2. LocksOK'
  BY DEF LocksOK, locks, CheckUnlink, Goto
<1>3. ControlOK'
  BY DEF ControlOK, CheckUnlink, Goto, control, locals, Work, NoWork, PCs,
     Exclusive, Reading, Verifying, Syncing
<1>4. MemoryOK'
  BY DEF MemoryOK, memory, CheckUnlink, Goto
<1>5. HistoryOK'
  BY DEF HistoryOK, history, CheckUnlink, Goto
<1>6. BoundsOK'
  BY DEF BoundsOK, bounds, CheckUnlink, Goto
<1>7. SessionOK'
  BY DEF SessionOK, ControlOK, MemoryOK, CheckUnlink, Goto, PCs, Exclusive,
     Reading, Verifying, Syncing,
     control, locals, memory
<1>8. CriticalHoldsLock'
  BY DEF CriticalHoldsLock, InCritical, LocksOK, ControlOK, CheckUnlink, Goto,
     PCs, Exclusive, Reading, Verifying, Syncing, control, locals, locks
<1> QED
  BY <1>1, <1>2, <1>3, <1>4, <1>5, <1>6, <1>7, <1>8

LEMMA RestartStep ==
  ASSUME IInv, NEW a \in Agents, Restart(a)
  PROVE  IInv'
<1> USE DEF IInv, TypeOK
<1>1. DiskOK'
  BY DEF DiskOK, disk, Restart, Goto
<1>2. LocksOK'
  BY DEF LocksOK, locks, Restart, Goto
<1>3. ControlOK'
  BY DEF ControlOK, Restart, Goto, control, locals, Work, NoWork, PCs, Exclusive,
     Reading, Verifying, Syncing
<1>4. MemoryOK'
  BY DEF MemoryOK, memory, Restart, Goto
<1>5. HistoryOK'
  BY DEF HistoryOK, history, Restart, Goto
<1>6. BoundsOK'
  BY DEF BoundsOK, bounds, Restart, Goto
<1>7. SessionOK'
  BY DEF SessionOK, ControlOK, MemoryOK, Restart, Goto, PCs, Exclusive, Reading,
     Verifying, Syncing,
     control, locals, memory
<1>8. CriticalHoldsLock'
  BY DEF CriticalHoldsLock, InCritical, LocksOK, ControlOK, Restart, Goto,
     PCs, Exclusive, Reading, Verifying, Syncing, control, locals, locks
<1> QED
  BY <1>1, <1>2, <1>3, <1>4, <1>5, <1>6, <1>7, <1>8

LEMMA RemoveLockStep ==
  ASSUME IInv, RemoveLock
  PROVE  IInv'
<1> USE DEF IInv, TypeOK
<1>1. LocksOK'
  BY DEF LocksOK, RemoveLock
<1>2. CriticalHoldsLock'
  BY DEF CriticalHoldsLock, InCritical, RemoveLock, control, locals, Exclusive,
     Reading, Verifying, Syncing
<1>3. UNCHANGED <<disk, control, memory, history, bounds>>
  BY DEF RemoveLock
<1>4. DiskOK' /\ ControlOK' /\ MemoryOK' /\ HistoryOK' /\ BoundsOK' /\ SessionOK'
  BY <1>3 DEF DiskOK, ControlOK, MemoryOK, HistoryOK, BoundsOK, SessionOK,
     disk, control, locals, memory, history, bounds
<1> QED
  BY <1>1, <1>2, <1>4

LEMMA TimePassesStep ==
  ASSUME IInv, TimePasses
  PROVE  IInv'
<1> USE DEF IInv, TypeOK
<1>1. LocksOK'
  <2>1. age' \in [Agents -> 0..RlockTimeout]
    <3>1. \A a \in Agents : age[a] \in 0..RlockTimeout
      BY DEF LocksOK
    <3> QED
      BY <3>1 DEF TimePasses, RlockTimeout
  <2> QED
    BY <2>1 DEF LocksOK, TimePasses
<1>2. BoundsOK'
  BY ConstantsAssumption DEF BoundsOK, TimePasses
<1>3. UNCHANGED <<disk, lock, control, memory, history>>
  BY DEF TimePasses
<1>4. DiskOK' /\ ControlOK' /\ MemoryOK' /\ HistoryOK' /\ SessionOK' /\ CriticalHoldsLock'
  BY <1>3 DEF DiskOK, ControlOK, MemoryOK, HistoryOK, SessionOK,
     CriticalHoldsLock, InCritical, disk, control, locals, memory, history
<1> QED
  BY <1>1, <1>2, <1>4

-----------------------------------------------------------------------------

LEMMA InitIInv == Init => IInv
BY ConstantsAssumption
   DEF Init, IInv, TypeOK, DiskOK, LocksOK, ControlOK, MemoryOK, HistoryOK,
       BoundsOK, SessionOK, CriticalHoldsLock, InCritical, Work, NoWork, PCs,
       Exclusive,
       Reading, Verifying, Syncing, RlockTimeout

LEMMA NextIInv == IInv /\ [Next]_vars => IInv'
<1> SUFFICES ASSUME IInv, [Next]_vars PROVE IInv'
  OBVIOUS
<1>1. CASE TimePasses \/ RemoveLock
  BY <1>1, TimePassesStep, RemoveLockStep
<1>2. ASSUME NEW a \in Agents, Start(a) PROVE IInv'
  BY <1>2, ReadLockStep, InsertIndexStep, SetStatusStep, ExpungeStep,
     ExpireStep, SetInfoStep, SearchStep, GetMessageStep,
     GetMessageReadErrorStep, CheckLockStep, CloseStep, CrashStep DEF Start
<1>3. ASSUME NEW a \in Agents, Continue(a) PROVE IInv'
  BY <1>3, ReadInfoStep, ReadIndexStep, ReadIndexErrorStep, ReadIndexUnwrittenStep,
     InsertFileStep, InsertChangesStep, InsertFailStep, SyncStatStep, SyncApplyStep,
     SyncSwallowStep, SyncBlankEndStep, SyncErrorStep, SyncEndStep,
     CompactFilesStep, CompactIndexStep, CompactInfoStep, CompactUnlinkStep,
     CompactFailStep, CompactBreaksStep,
     CheckInfoStep, CheckErrorStep, CheckFilesStep, CheckChangesStep,
     CheckCleanStep,
     CheckOpenStep, CheckWriteStep, CheckWriteInfoStep, CheckUnlinkStep,
     RestartStep,
     UnlockStep
     DEF Continue
<1>4. CASE UNCHANGED vars
  BY <1>4 DEF vars, disk, locks, control, locals, memory, history, bounds, IInv,
     TypeOK,
     DiskOK, LocksOK, ControlOK, MemoryOK, HistoryOK, BoundsOK, SessionOK,
     CriticalHoldsLock, InCritical
<1> QED
  BY <1>1, <1>2, <1>3, <1>4 DEF Next

THEOREM Invariance == Spec => []IInv
BY InitIInv, NextIInv, PTL DEF Spec

\* The variables keep their types whatever the agents do.
THEOREM TypeCorrect == Spec => []TypeOK
<1>1. IInv => TypeOK
  BY DEF IInv
<1> QED
  BY <1>1, Invariance, PTL

\* For any number of agents, any mixture of operations, failures and crashes:
\* no two agents are between Lock() and Unlock() at once.
THEOREM MutualExclusion == Spec => []LockExclusion
<1>1. IInv => LockExclusion
  BY DEF IInv, CriticalHoldsLock, LockExclusion
<1> QED
  BY <1>1, Invariance, PTL

\* Only Read() and the loop of Sync() write the entries in memory.
LEMMA MemoryWriters ==
  ASSUME Next, NEW a \in Agents, mem'[a] # mem[a], IInv
  PROVE  ReadIndex(a) \/ SyncApply(a) \/ SyncSwallow(a)
<1>1. mem \in [Agents -> Seq(Entry)]
  BY DEF IInv, TypeOK, MemoryOK
<1>2. \A b \in Agents : ReadIndex(b) => mem' = [mem EXCEPT ![b] = SubSeq(index, 1, pos[b])]
  BY DEF ReadIndex
<1>3. \A b \in Agents : SyncApply(b) =>
        mem' = [mem EXCEPT ![b] = AfterRecord(b, changes[pos[b] + 1])]
  BY DEF SyncApply
<1>3a. \A b \in Agents : SyncSwallow(b) =>
        \E r \in Record : mem' = [mem EXCEPT ![b] = AfterRecord(b, r)]
  BY SwallowedRecord
<1>4. \A b \in Agents : Start(b) => UNCHANGED mem
  <2> TAKE b \in Agents
  <2>1. (\E m \in Msgs : InsertIndex(b, m)) => UNCHANGED mem
    BY DEF InsertIndex, memory
  <2>2. (\E i \in 1..Len(mem[b]), del \in BOOLEAN : SetStatus(b, i, del))
          => UNCHANGED mem
    BY DEF SetStatus, AppendLog, memory
  <2>3. Expunge(b) => UNCHANGED mem
    BY DEF Expunge, Delete, AppendLog, memory
  <2>4. (\E S \in SUBSET (1..Len(mem[b])) : Expire(b, S)) => UNCHANGED mem
    BY DEF Expire, Delete, AppendLog, memory
  <2>5. (\E S \in SUBSET (1..Len(mem[b])), kw \in Keywords : SetInfo(b, S, kw))
          => UNCHANGED mem
    BY DEF SetInfo, AppendLog, memory
  <2>6. ReadLock(b) \/ Search(b) \/ GetMessage(b) \/ GetMessageReadError(b)
          => UNCHANGED mem
    BY DEF ReadLock, Search, GetMessage, GetMessageReadError, memory
  <2>7. (\E fix \in BOOLEAN : CheckLock(b, fix)) \/ Close(b) \/ Crash(b)
          => UNCHANGED mem
    BY DEF CheckLock, Close, Crash, memory
  <2> QED
    BY <2>1, <2>2, <2>3, <2>4, <2>5, <2>6, <2>7 DEF Start
<1>5. \A b \in Agents : Continue(b) =>
        ReadIndex(b) \/ SyncApply(b) \/ SyncSwallow(b) \/ UNCHANGED mem
  BY DEF Continue, ReadInfo, ReadIndexError, ReadIndexUnwritten, InsertFile,
     InsertChanges, InsertFail, SyncStat, SyncBlankEnd, SyncError, SyncEnd,
     CompactFiles, CompactIndex, CompactInfo, CompactUnlink, CompactFail, CompactBreaks,
     CheckInfo, CheckError,
     CheckFiles, CheckChanges, CheckClean, CheckOpen, CheckWrite, CheckWriteInfo,
     CheckUnlink, Restart, Look, Unlock, memory
<1>6. TimePasses \/ RemoveLock => UNCHANGED mem
  BY DEF TimePasses, RemoveLock, memory
<1> QED
  BY <1>1, <1>2, <1>3, <1>3a, <1>4, <1>5, <1>6 DEF Next

LEMMA StepKeepsIndices == IInv /\ [Next]_vars => StableIndices
<1> SUFFICES ASSUME IInv, [Next]_vars, NEW a \in Agents, isRead[a], isRead'[a]
             PROVE  /\ Len(mem[a]) <= Len(mem'[a])
                    /\ \A i \in 1..Len(mem[a]) :
                         /\ mem'[a][i].msg = mem[a][i].msg
                         /\ mem[a][i].gone => mem'[a][i].gone
  BY DEF StableIndices
<1>1. mem \in [Agents -> Seq(Entry)] /\ Len(mem[a]) \in Nat
  BY DEF IInv, TypeOK, MemoryOK
<1>2. CASE mem'[a] = mem[a]
  BY <1>1, <1>2
<1>3. CASE mem'[a] # mem[a]
  <2>1. Next
    BY <1>3 DEF vars, memory
  <2>2. ReadIndex(a) \/ SyncApply(a) \/ SyncSwallow(a)
    BY <1>3, <2>1, MemoryWriters
  <2>3. ~ReadIndex(a)
    BY DEF IInv, SessionOK, ReadIndex, Reading, Verifying
  <2>4. PICK r \in Record : /\ r.op = "a" => r.at \in 1..Len(index)
                            /\ mem' = [mem EXCEPT ![a] = AfterRecord(a, r)]
    <3>1. CASE SyncApply(a)
      <4>1. changes[pos[a] + 1] \in Record
        BY <3>1 DEF SyncApply, IInv, TypeOK, DiskOK, ControlOK
      <4> QED
        BY <3>1, <4>1 DEF SyncApply
    <3>2. CASE SyncSwallow(a)
      BY <3>2, SwallowedRecord
    <3> QED
      BY <2>2, <2>3, <3>1, <3>2
  <2>5. mem'[a] = AfterRecord(a, r)
    BY <1>1, <2>4
  <2>6. DiskOK /\ MemoryOK
    BY DEF IInv, TypeOK
  <2>7. Len(AfterRecord(a, r)) \in Nat
    BY <2>4, <2>6, AfterRecordType
  <2> QED
    BY <1>1, <2>4, <2>5, <2>6, <2>7, AfterRecordKeeps
<1> QED
  BY <1>2, <1>3

\* An agent never renumbers or revives the entries a folder may hold an index
\* of, whatever the other agents write to the log or compact.
THEOREM IndicesStable == Spec => IndexStability
<1>1. IInv /\ [Next]_vars => StableIndices
  BY StepKeepsIndices
<1> QED
  BY <1>1, Invariance, PTL DEF Spec, IndexStability


-----------------------------------------------------------------------------
(* Replaying a log, for every index and every log.                         *)

\* u replays the first k records, one at a time.
Replays(u, idx, n, log, k) ==
  u = [j \in 0..k |-> IF j = 0 THEN SubSeq(idx, 1, n)
                      ELSE Applied(idx, u[j - 1], log[j])]

\* There is such a function.
LEMMA ReplayFunction ==
  ASSUME NEW idx, NEW n, NEW log, NEW k \in Nat
  PROVE  \E u : Replays(u, idx, n, log, k)
<1> DEFINE Step(u, j) == IF j = 0 THEN SubSeq(idx, 1, n)
                         ELSE Applied(idx, u[j - 1], log[j])
           Upto(m) == \E u : Replays(u, idx, n, log, m)
           T == {m \in Nat : Upto(m)}
<1>1. 0 \in T
  <2> DEFINE u == [j \in 0..0 |-> SubSeq(idx, 1, n)]
  <2>1. Replays(u, idx, n, log, 0)
    BY DEF Replays
  <2> HIDE DEF u
  <2>2. Upto(0)
    BY <2>1
  <2> QED
    BY <2>2
<1>2. ASSUME NEW m \in Nat, m \in T PROVE m + 1 \in T
  <2>1. PICK u : u = [j \in 0..m |-> Step(u, j)]
    BY <1>2 DEF Replays
  <2> DEFINE h == [j \in 0..m + 1 |-> IF j = m + 1 THEN Step(u, j) ELSE u[j]]
  <2>2. \A j \in 0..m : h[j] = u[j]
    OBVIOUS
  <2>3. ASSUME NEW j \in 0..m + 1 PROVE h[j] = Step(h, j)
    <3>1. CASE j = 0
      <4>1. u[0] = Step(u, 0)
        <5> HIDE DEF Step
        <5> QED
          BY <2>1
      <4> QED
        BY <2>2, <3>1, <4>1
    <3>2. CASE j # 0 /\ j # m + 1
      <4>1. j - 1 \in 0..m /\ j \in 0..m
        BY <3>2
      <4>2. u[j] = Step(u, j)
        BY <2>1, <4>1
      <4>3. h[j - 1] = u[j - 1] /\ h[j] = u[j]
        BY <2>2, <4>1
      <4> HIDE DEF h
      <4> QED
        BY <4>2, <4>3
    <3>3. CASE j = m + 1
      <4>1. j - 1 \in 0..m /\ h[j] = Step(u, j)
        BY <3>3
      <4>2. h[j - 1] = u[j - 1]
        BY <2>2, <4>1
      <4> HIDE DEF h
      <4> QED
        BY <4>1, <4>2
    <3> QED
      BY <3>1, <3>2, <3>3
  <2>4. h = [j \in 0..m + 1 |-> h[j]]
    OBVIOUS
  <2> HIDE DEF h
  <2>5. h = [j \in 0..m + 1 |-> Step(h, j)]
    BY <2>3, <2>4
  <2>6. Upto(m + 1)
    BY <2>5 DEF Replays
  <2> QED
    BY <2>6
<1> HIDE DEF T
<1>3. k \in T
  BY <1>1, <1>2, NatSetInduction
<1> QED
  BY <1>3 DEF T

\* Its values.
LEMMA ReplaysZero ==
  ASSUME NEW idx, NEW n, NEW log, NEW k \in Nat, NEW u, Replays(u, idx, n, log, k)
  PROVE  u[0] = SubSeq(idx, 1, n)
<1> DEFINE E(i) == IF i = 0 THEN SubSeq(idx, 1, n) ELSE Applied(idx, u[i - 1], log[i])
<1>1. u = [i \in 0..k |-> E(i)]
  BY DEF Replays
<1> HIDE DEF E
<1>2. u[0] = E(0)
  BY <1>1
<1> QED
  BY <1>2 DEF E

\* And one more.
LEMMA ReplaysNext ==
  ASSUME NEW idx, NEW n, NEW log, NEW k \in Nat, NEW u, Replays(u, idx, n, log, k),
         NEW i \in Nat, i < k
  PROVE  u[i + 1] = Applied(idx, u[i], log[i + 1])
<1> DEFINE E(j) == IF j = 0 THEN SubSeq(idx, 1, n) ELSE Applied(idx, u[j - 1], log[j])
<1>1. u = [j \in 0..k |-> E(j)]
  BY DEF Replays
<1>2. i + 1 \in 0..k /\ i + 1 # 0 /\ i + 1 - 1 = i
  OBVIOUS
<1>3. E(i + 1) = Applied(idx, u[i], log[i + 1])
  BY <1>2
<1> HIDE DEF E
<1>4. u[i + 1] = E(i + 1)
  BY <1>1, <1>2
<1> QED
  BY <1>3, <1>4

\* Two replays of one log agree as far as both go.
LEMMA ReplaysAgree ==
  ASSUME NEW idx, NEW n, NEW log, NEW k \in Nat, NEW l \in Nat,
         NEW u, Replays(u, idx, n, log, k), NEW v, Replays(v, idx, n, log, l),
         NEW j \in Nat, j <= k, j <= l
  PROVE  u[j] = v[j]
<1> DEFINE T == {i \in Nat : i <= k /\ i <= l => u[i] = v[i]}
<1>1. u[0] = SubSeq(idx, 1, n)
  BY ReplaysZero
<1>2. v[0] = SubSeq(idx, 1, n)
  BY ReplaysZero
<1>3. 0 \in T
  BY <1>1, <1>2
<1>4. ASSUME NEW i \in Nat, i \in T PROVE i + 1 \in T
  <2> SUFFICES ASSUME i + 1 <= k, i + 1 <= l PROVE u[i + 1] = v[i + 1]
    OBVIOUS
  <2>1. i < k /\ i < l /\ u[i] = v[i]
    BY <1>4
  <2>2. u[i + 1] = Applied(idx, u[i], log[i + 1])
    BY <2>1, ReplaysNext
  <2>3. v[i + 1] = Applied(idx, v[i], log[i + 1])
    BY <2>1, ReplaysNext
  <2> QED
    BY <2>1, <2>2, <2>3
<1> HIDE DEF T
<1>5. j \in T
  BY <1>3, <1>4, NatSetInduction
<1> QED
  BY <1>5 DEF T

\* Replay() is the last value of such a function.
LEMMA ReplayChosen ==
  ASSUME NEW idx, NEW n, NEW log, NEW k \in Nat
  PROVE  \E u : Replays(u, idx, n, log, k) /\ Replay(idx, n, log, k) = u[k]
<1> DEFINE u == CHOOSE w : Replays(w, idx, n, log, k)
<1>1. Replays(u, idx, n, log, k)
  BY ReplayFunction
<1>2. Replay(idx, n, log, k) = u[k]
  BY DEF Replay, Replays
<1> HIDE DEF u
<1> QED
  BY <1>1, <1>2

\* None of the records.
LEMMA ReplayZero ==
  ASSUME NEW idx, NEW n, NEW log
  PROVE  Replay(idx, n, log, 0) = SubSeq(idx, 1, n)
<1>1. PICK u : Replays(u, idx, n, log, 0) /\ Replay(idx, n, log, 0) = u[0]
  BY ReplayChosen
<1> QED
  BY <1>1, ReplaysZero

\* One record more.
LEMMA ReplayNext ==
  ASSUME NEW idx, NEW n, NEW log, NEW k \in Nat
  PROVE  Replay(idx, n, log, k + 1) = Applied(idx, Replay(idx, n, log, k), log[k + 1])
<1>1. PICK u : Replays(u, idx, n, log, k) /\ Replay(idx, n, log, k) = u[k]
  BY ReplayChosen
<1>2. PICK v : Replays(v, idx, n, log, k + 1) /\ Replay(idx, n, log, k + 1) = v[k + 1]
  BY ReplayChosen
<1>3. u[k] = v[k]
  BY <1>1, <1>2, ReplaysAgree
<1>4. v[k + 1] = Applied(idx, v[k], log[k + 1])
  <2>1. k + 1 \in Nat /\ k < k + 1 /\ Replays(v, idx, n, log, k + 1)
    BY <1>2
  <2> QED
    BY <2>1, ReplaysNext
<1> QED
  BY <1>1, <1>2, <1>3, <1>4

\* What the replay of k records does not use may change.
SameUsed(idx, idx2, n, log, log2, k) ==
  /\ SubSeq(idx2, 1, n) = SubSeq(idx, 1, n)
  /\ \A j \in 1..k : log2[j] = log[j]
  /\ \A j \in 1..k : log[j].op = "a" =>
                        /\ log[j].at \in 1..Len(idx) /\ log[j].at \in 1..Len(idx2)
                        /\ idx2[log[j].at] = idx[log[j].at]

LEMMA ReplaySame ==
  ASSUME NEW idx, NEW idx2, NEW n, NEW log, NEW log2, NEW k \in Nat,
         SameUsed(idx, idx2, n, log, log2, k)
  PROVE  Replay(idx2, n, log2, k) = Replay(idx, n, log, k)
<1> DEFINE T == {i \in Nat : i <= k => Replay(idx2, n, log2, i) = Replay(idx, n, log, i)}
<1>1. 0 \in T
  BY ReplayZero DEF SameUsed
<1>2. ASSUME NEW i \in Nat, i \in T PROVE i + 1 \in T
  <2> SUFFICES ASSUME i + 1 <= k
               PROVE  Replay(idx2, n, log2, i + 1) = Replay(idx, n, log, i + 1)
    OBVIOUS
  <2> DEFINE v == Replay(idx, n, log, i)
             r == log[i + 1]
  <2>1. i + 1 \in 1..k /\ Replay(idx2, n, log2, i) = v
    BY <1>2
  <2>2. log2[i + 1] = r /\ (r.op = "a" => /\ r.at \in 1..Len(idx) /\ r.at \in 1..Len(idx2)
                                          /\ idx2[r.at] = idx[r.at])
    BY <2>1 DEF SameUsed
  <2>3. Replay(idx2, n, log2, i + 1) = Applied(idx2, v, r)
    BY <2>1, <2>2, ReplayNext
  <2>4. Replay(idx, n, log, i + 1) = Applied(idx, v, r)
    BY ReplayNext
  <2> HIDE DEF v, r
  <2>5. Applied(idx2, v, r) = Applied(idx, v, r)
    <3>1. CASE r.op = "a"
      BY <2>2, <3>1 DEF Applied
    <3>2. CASE r.op # "a"
      BY <3>2 DEF Applied
    <3> QED
      BY <3>1, <3>2
  <2> QED
    BY <2>3, <2>4, <2>5
<1> HIDE DEF T
<1>3. k \in T
  BY <1>1, <1>2, NatSetInduction
<1> QED
  BY <1>3 DEF T

\* A record leaves entries behind.
LEMMA AppliedType ==
  ASSUME NEW idx \in Seq(Entry), NEW v \in Seq(Entry), NEW r \in Record
  PROVE  Applied(idx, v, r) \in Seq(Entry)
<1>1. CASE r.op = "a"
  <2>1. CASE r.at \in 1..Len(idx)
    <3>1. Applied(idx, v, r) = Append(v, idx[r.at]) /\ idx[r.at] \in Entry
      BY <1>1, <2>1 DEF Applied
    <3> QED
      BY <3>1
  <2>2. CASE r.at \notin 1..Len(idx)
    BY <1>1, <2>2 DEF Applied
  <2> QED
    BY <2>1, <2>2
<1>2. CASE r.op = "d"
  <2>1. CASE r.at \in 1..Len(v)
    <3>0. v[r.at] \in Entry
      BY <2>1
    <3>1. [v[r.at] EXCEPT !.gone = TRUE] \in Entry
      BY <3>0, EntryUpdates
    <3>2. Applied(idx, v, r) = [v EXCEPT ![r.at].gone = TRUE]
      BY <1>2, <2>1 DEF Applied
    <3> QED
      BY <2>1, <3>1, <3>2
  <2>2. CASE r.at \notin 1..Len(v)
    BY <1>2, <2>2 DEF Applied
  <2> QED
    BY <2>1, <2>2
<1>3. CASE r.op = "s"
  <2>1. CASE r.at \in 1..Len(v)
    <3>1. r.del \in BOOLEAN
      BY <1>3 DEF Record
    <3>0. v[r.at] \in Entry
      BY <2>1
    <3>2. [v[r.at] EXCEPT !.del = r.del] \in Entry
      BY <3>0, <3>1, EntryUpdates
    <3>3. Applied(idx, v, r) = [v EXCEPT ![r.at].del = r.del]
      BY <1>3, <2>1 DEF Applied
    <3> QED
      BY <2>1, <3>2, <3>3
  <2>2. CASE r.at \notin 1..Len(v)
    BY <1>3, <2>2 DEF Applied
  <2> QED
    BY <2>1, <2>2
<1>4. CASE r.op = "k"
  <2> DEFINE w == [i \in 1..Len(v) |-> IF i \in r.at THEN [v[i] EXCEPT !.kw = r.kw]
                                                      ELSE v[i]]
  <2>1. r.kw \in Keywords
    BY <1>4 DEF Record
  <2>2. \A i \in 1..Len(v) : v[i] \in Entry /\ [v[i] EXCEPT !.kw = r.kw] \in Entry
    <3>1. \A i \in 1..Len(v) : v[i] \in Entry
      OBVIOUS
    <3> QED
      BY <2>1, <3>1, EntryUpdates
  <2>3. Len(v) \in Nat /\ w \in [1..Len(v) -> Entry]
    BY <2>2
  <2>4. Applied(idx, v, r) = w
    BY <1>4 DEF Applied
  <2> HIDE DEF w
  <2> QED
    BY <2>3, <2>4
<1> QED
  BY <1>1, <1>2, <1>3, <1>4 DEF Record

\* So does a log.
LEMMA ReplayType ==
  ASSUME NEW idx \in Seq(Entry), NEW n \in Nat, n <= Len(idx), NEW log \in Seq(Record),
         NEW k \in Nat, k <= Len(log)
  PROVE  Replay(idx, n, log, k) \in Seq(Entry)
<1> DEFINE T == {i \in Nat : i <= k => Replay(idx, n, log, i) \in Seq(Entry)}
<1>1. 0 \in T
  <2>1. SubSeq(idx, 1, n) \in Seq(Entry)
    OBVIOUS
  <2> QED
    BY <2>1, ReplayZero
<1>2. ASSUME NEW i \in Nat, i \in T PROVE i + 1 \in T
  <2> SUFFICES ASSUME i + 1 <= k PROVE Replay(idx, n, log, i + 1) \in Seq(Entry)
    OBVIOUS
  <2>1. Replay(idx, n, log, i) \in Seq(Entry)
    BY <1>2
  <2>2. log[i + 1] \in Record
    OBVIOUS
  <2> QED
    BY <2>1, <2>2, AppliedType, ReplayNext
<1> HIDE DEF T
<1>3. k \in T
  BY <1>1, <1>2, NatSetInduction
<1> QED
  BY <1>3 DEF T

\* The first n elements depend on nothing else.
LEMMA SubSeqSame ==
  ASSUME NEW S, NEW s \in Seq(S), NEW t \in Seq(S), NEW n \in Nat, n <= Len(s), n <= Len(t),
         \A k \in 1..n : t[k] = s[k]
  PROVE  SubSeq(t, 1, n) = SubSeq(s, 1, n)
<1>1. Len(SubSeq(t, 1, n)) = n /\ Len(SubSeq(s, 1, n)) = n
      /\ SubSeq(t, 1, n) \in Seq(S) /\ SubSeq(s, 1, n) \in Seq(S)
  OBVIOUS
<1>2. \A k \in 1..n : SubSeq(t, 1, n)[k] = SubSeq(s, 1, n)[k]
  OBVIOUS
<1> QED
  BY <1>1, <1>2

\* Two lists of entries that differ in nothing but keywords.
SameButKeys(m, v) ==
  /\ Len(m) = Len(v)
  /\ \A i \in 1..Len(m) : m[i].msg = v[i].msg /\ m[i].del = v[i].del /\ m[i].gone = v[i].gone

LEMMA SameUnkeyed ==
  ASSUME NEW m \in Seq(Entry), NEW v \in Seq(Entry), SameButKeys(m, v)
  PROVE  Unkeyed(m) = Unkeyed(v)
<1>1. Len(m) = Len(v)
  BY DEF SameButKeys
<1>2. ASSUME NEW i \in 1..Len(m)
      PROVE  [m[i] EXCEPT !.kw = NoKeywords] = [v[i] EXCEPT !.kw = NoKeywords]
  <2>1. m[i] \in Entry /\ v[i] \in Entry
    BY <1>1
  <2>2. m[i].msg = v[i].msg /\ m[i].del = v[i].del /\ m[i].gone = v[i].gone
    BY DEF SameButKeys
  <2> QED
    BY <2>1, <2>2 DEF Entry
<1> QED
  BY <1>1, <1>2 DEF Unkeyed

\* A turn of the loop in Sync() does what the record says.
LEMMA SameApplied ==
  ASSUME NEW a, NEW v \in Seq(Entry), mem[a] \in Seq(Entry), index \in Seq(Entry),
         NEW r \in Record, r.op = "a" => r.at \in 1..Len(index), SameButKeys(mem[a], v)
  PROVE  SameButKeys(AfterRecord(a, r), Applied(index, v, r))
<1> DEFINE m == mem[a]
           n == Len(m)
<1>1. n \in Nat /\ Len(v) = n /\ \A i \in 1..n : m[i] \in Entry /\ v[i] \in Entry
  BY DEF SameButKeys
<1>2. \A i \in 1..n : m[i].msg = v[i].msg /\ m[i].del = v[i].del /\ m[i].gone = v[i].gone
  BY DEF SameButKeys
<1>3. CASE r.op = "a"
  <2> DEFINE e == index[r.at]
  <2>1. AfterRecord(a, r) = Append(m, e) /\ Applied(index, v, r) = Append(v, e)
    BY <1>3 DEF AfterRecord, Applied
  <2>2. e \in Entry
    BY <1>3
  <2> HIDE DEF e
  <2>3. /\ Len(Append(m, e)) = n + 1 /\ Len(Append(v, e)) = n + 1
        /\ Append(m, e)[n + 1] = e /\ Append(v, e)[n + 1] = e
        /\ \A i \in 1..n : Append(m, e)[i] = m[i] /\ Append(v, e)[i] = v[i]
    BY <1>1, <2>2
  <2>4. \A i \in 1..n + 1 : i \in 1..n \/ i = n + 1
    BY <1>1
  <2> HIDE DEF m, n
  <2> QED
    BY <1>2, <2>1, <2>3, <2>4 DEF SameButKeys
<1>4. CASE r.op = "d"
  <2>1. CASE r.at \in 1..n
    <3>1. /\ AfterRecord(a, r) = [m EXCEPT ![r.at].gone = TRUE]
          /\ Applied(index, v, r) = [v EXCEPT ![r.at].gone = TRUE]
      BY <1>1, <1>4, <2>1 DEF AfterRecord, Applied, InRange
    <3>2. /\ Len([m EXCEPT ![r.at].gone = TRUE]) = n
          /\ Len([v EXCEPT ![r.at].gone = TRUE]) = n
      BY <1>1
    <3>3. ASSUME NEW i \in 1..n
          PROVE  /\ [m EXCEPT ![r.at].gone = TRUE][i].msg = [v EXCEPT ![r.at].gone = TRUE][i].msg
                 /\ [m EXCEPT ![r.at].gone = TRUE][i].del = [v EXCEPT ![r.at].gone = TRUE][i].del
                 /\ [m EXCEPT ![r.at].gone = TRUE][i].gone = [v EXCEPT ![r.at].gone = TRUE][i].gone
      <4>1. m[i] \in Entry /\ v[i] \in Entry /\ i \in DOMAIN m /\ i \in DOMAIN v
        BY <1>1
      <4>2. CASE i = r.at
        <5>1. /\ [m EXCEPT ![r.at].gone = TRUE][i] = [m[i] EXCEPT !.gone = TRUE]
              /\ [v EXCEPT ![r.at].gone = TRUE][i] = [v[i] EXCEPT !.gone = TRUE]
          BY <4>1, <4>2
        <5>2. m[i].msg = v[i].msg /\ m[i].del = v[i].del /\ m[i].gone = v[i].gone
          BY <1>2
        <5> DEFINE x == m[i]
                   y == v[i]
        <5>3. /\ [x EXCEPT !.gone = TRUE].msg = [y EXCEPT !.gone = TRUE].msg
              /\ [x EXCEPT !.gone = TRUE].del = [y EXCEPT !.gone = TRUE].del
              /\ [x EXCEPT !.gone = TRUE].gone = [y EXCEPT !.gone = TRUE].gone
          <6>1. x \in Entry /\ y \in Entry /\ x.msg = y.msg /\ x.del = y.del
                /\ x.gone = y.gone
            BY <4>1, <5>2
          <6> HIDE DEF x, y
          <6> QED
            BY <6>1 DEF Entry
        <5> QED
          BY <5>1, <5>3
      <4>3. CASE i # r.at
        BY <1>2, <4>1, <4>3
      <4> QED
        BY <4>2, <4>3
    <3> QED
      BY <3>1, <3>2, <3>3 DEF SameButKeys
  <2>2. CASE r.at \notin 1..n
    BY <1>1, <1>4, <2>2 DEF AfterRecord, Applied, InRange
  <2> QED
    BY <2>1, <2>2
<1>5. CASE r.op = "s"
  <2>1. CASE r.at \in 1..n
    <3>1. /\ AfterRecord(a, r) = [m EXCEPT ![r.at].del = r.del]
          /\ Applied(index, v, r) = [v EXCEPT ![r.at].del = r.del]
      BY <1>1, <1>5, <2>1 DEF AfterRecord, Applied, InRange
    <3>2. /\ Len([m EXCEPT ![r.at].del = r.del]) = n
          /\ Len([v EXCEPT ![r.at].del = r.del]) = n
      BY <1>1
    <3>3. ASSUME NEW i \in 1..n
          PROVE  /\ [m EXCEPT ![r.at].del = r.del][i].msg = [v EXCEPT ![r.at].del = r.del][i].msg
                 /\ [m EXCEPT ![r.at].del = r.del][i].del = [v EXCEPT ![r.at].del = r.del][i].del
                 /\ [m EXCEPT ![r.at].del = r.del][i].gone = [v EXCEPT ![r.at].del = r.del][i].gone
      <4>1. m[i] \in Entry /\ v[i] \in Entry /\ i \in DOMAIN m /\ i \in DOMAIN v
        BY <1>1
      <4>2. CASE i = r.at
        <5>1. /\ [m EXCEPT ![r.at].del = r.del][i] = [m[i] EXCEPT !.del = r.del]
              /\ [v EXCEPT ![r.at].del = r.del][i] = [v[i] EXCEPT !.del = r.del]
          BY <4>1, <4>2
        <5>2. m[i].msg = v[i].msg /\ m[i].del = v[i].del /\ m[i].gone = v[i].gone
          BY <1>2
        <5> DEFINE x == m[i]
                   y == v[i]
        <5>3. /\ [x EXCEPT !.del = r.del].msg = [y EXCEPT !.del = r.del].msg
              /\ [x EXCEPT !.del = r.del].del = [y EXCEPT !.del = r.del].del
              /\ [x EXCEPT !.del = r.del].gone = [y EXCEPT !.del = r.del].gone
          <6>1. x \in Entry /\ y \in Entry /\ x.msg = y.msg /\ x.del = y.del
                /\ x.gone = y.gone
            BY <4>1, <5>2
          <6> HIDE DEF x, y
          <6> QED
            BY <6>1 DEF Entry
        <5> QED
          BY <5>1, <5>3
      <4>3. CASE i # r.at
        BY <1>2, <4>1, <4>3
      <4> QED
        BY <4>2, <4>3
    <3> QED
      BY <3>1, <3>2, <3>3 DEF SameButKeys
  <2>2. CASE r.at \notin 1..n
    BY <1>1, <1>5, <2>2 DEF AfterRecord, Applied, InRange
  <2> QED
    BY <2>1, <2>2
<1>6. CASE r.op = "k"
  <2> DEFINE w(s) == [i \in 1..Len(s) |-> IF i \in r.at THEN [s[i] EXCEPT !.kw = r.kw]
                                                         ELSE s[i]]
  <2>1. AfterRecord(a, r) = w(m) /\ Applied(index, v, r) = w(v)
    BY <1>6 DEF AfterRecord, Applied, InRange
  <2>2. Len(w(m)) = n /\ Len(w(v)) = n
    BY <1>1
  <2>3. ASSUME NEW i \in 1..n
        PROVE  w(m)[i].msg = w(v)[i].msg /\ w(m)[i].del = w(v)[i].del
               /\ w(m)[i].gone = w(v)[i].gone
    BY <1>1, <1>2 DEF Entry
  <2> HIDE DEF w
  <2> QED
    BY <2>1, <2>2, <2>3 DEF SameButKeys
<1> QED
  BY <1>3, <1>4, <1>5, <1>6 DEF Record

LEMMA SameSelf ==
  ASSUME NEW m
  PROVE  SameButKeys(m, m)
BY DEF SameButKeys

\* A strictly increasing function from 1..n to itself is the identity.
LEMMA Increasing ==
  ASSUME NEW n \in Nat, NEW f, \A i \in 1..n : f[i] \in 1..n,
         \A i, j \in 1..n : i < j => f[i] < f[j]
  PROVE  \A i \in 1..n : f[i] = i
<1> DEFINE T == {d \in Nat : \A i \in 1..n : i + d <= n => f[i] + d <= f[i + d]}
<1>1. 0 \in T
  <2>1. \A i \in 1..n : i + 0 = i /\ f[i] \in Nat
    OBVIOUS
  <2> QED
    BY <2>1
<1>2. ASSUME NEW d \in Nat, d \in T PROVE d + 1 \in T
  <2> SUFFICES ASSUME NEW i \in 1..n, i + (d + 1) <= n
               PROVE  f[i] + (d + 1) <= f[i + (d + 1)]
    OBVIOUS
  <2>1. /\ i + d \in 1..n /\ i + (d + 1) \in 1..n /\ i + d < i + (d + 1) /\ i + d <= n
    OBVIOUS
  <2>2. f[i] + d <= f[i + d]
    BY <1>2, <2>1
  <2>3. f[i + d] < f[i + (d + 1)]
    BY <2>1
  <2>4. f[i] \in Nat /\ f[i + d] \in Nat /\ f[i + (d + 1)] \in Nat
    BY <2>1
  <2> QED
    BY <2>2, <2>3, <2>4
<1> HIDE DEF T
<1>3. \A d \in Nat : d \in T
  BY <1>1, <1>2, NatSetInduction
<1>4. ASSUME NEW i \in 1..n PROVE f[i] = i
  <2>1. i - 1 \in Nat /\ n - i \in Nat /\ 1 \in 1..n /\ n \in 1..n
    OBVIOUS
  <2>2. f[1] + (i - 1) <= f[1 + (i - 1)]
    <3>1. i - 1 \in T /\ 1 + (i - 1) <= n
      BY <1>3, <2>1
    <3> QED
      BY <2>1, <3>1 DEF T
  <2>3. f[i] + (n - i) <= f[i + (n - i)]
    <3>1. n - i \in T /\ i + (n - i) <= n
      BY <1>3, <2>1
    <3> QED
      BY <2>1, <3>1 DEF T
  <2>4. 1 + (i - 1) = i /\ i + (n - i) = n
    OBVIOUS
  <2>5. f[1] \in 1..n /\ f[i] \in 1..n /\ f[n] \in 1..n
    BY <2>1
  <2> QED
    BY <2>2, <2>3, <2>4, <2>5
<1> QED
  BY <1>4

-----------------------------------------------------------------------------
(* Counting the 'a' records of a log.                                      *)

\* the 'a' records among the first p
Adds(log, p) == Cardinality({i \in 1..p : log[i].op = "a"})

LEMMA AddsFinite ==
  ASSUME NEW log, NEW p \in Nat
  PROVE  /\ IsFiniteSet({i \in 1..p : log[i].op = "a"})
         /\ Adds(log, p) \in Nat
<1>1. IsFiniteSet(1..p)
  BY FS_Interval
<1>2. {i \in 1..p : log[i].op = "a"} \subseteq 1..p
  OBVIOUS
<1>3. IsFiniteSet({i \in 1..p : log[i].op = "a"})
  BY <1>1, <1>2, FS_Subset
<1> QED
  BY <1>3, FS_CardinalityType DEF Adds

LEMMA AddsZero ==
  ASSUME NEW log
  PROVE  Adds(log, 0) = 0
<1>1. {i \in 1..0 : log[i].op = "a"} = {}
  OBVIOUS
<1> QED
  BY <1>1, FS_EmptySet DEF Adds

LEMMA AddsNext ==
  ASSUME NEW log, NEW p \in Nat
  PROVE  Adds(log, p + 1) = Adds(log, p) + (IF log[p + 1].op = "a" THEN 1 ELSE 0)
<1> DEFINE S(q) == {i \in 1..q : log[i].op = "a"}
<1>1. IsFiniteSet(S(p)) /\ Cardinality(S(p)) \in Nat
  BY AddsFinite DEF Adds
<1>2. CASE log[p + 1].op = "a"
  <2>1. S(p + 1) = S(p) \cup {p + 1} /\ p + 1 \notin S(p)
    BY <1>2
  <2> HIDE DEF S
  <2>2. Cardinality(S(p + 1)) = Cardinality(S(p)) + 1
    BY <1>1, <2>1, FS_AddElement
  <2> QED
    BY <1>2, <2>2 DEF S, Adds
<1>3. CASE log[p + 1].op # "a"
  <2>1. S(p + 1) = S(p)
    BY <1>3
  <2> HIDE DEF S
  <2>2. Cardinality(S(p + 1)) = Cardinality(S(p)) + 0
    BY <1>1, <2>1
  <2> QED
    BY <1>3, <2>2 DEF S, Adds
<1> QED
  BY <1>2, <1>3

\* More records, none of them an 'a'.
LEMMA AddsNone ==
  ASSUME NEW log, NEW p \in Nat, NEW q \in Nat, p <= q,
         \A i \in p + 1..q : log[i].op # "a"
  PROVE  Adds(log, q) = Adds(log, p)
<1>1. {i \in 1..q : log[i].op = "a"} = {i \in 1..p : log[i].op = "a"}
  OBVIOUS
<1> QED
  BY <1>1 DEF Adds

LEMMA AddsSame ==
  ASSUME NEW log, NEW log2, NEW p \in Nat, \A i \in 1..p : log2[i] = log[i]
  PROVE  Adds(log2, p) = Adds(log, p)
<1>1. {i \in 1..p : log2[i].op = "a"} = {i \in 1..p : log[i].op = "a"}
  OBVIOUS
<1> QED
  BY <1>1 DEF Adds

LEMMA AddsGrow ==
  ASSUME NEW log, NEW p \in Nat, NEW q \in Nat, p <= q
  PROVE  Adds(log, p) <= Adds(log, q)
<1>1. {i \in 1..p : log[i].op = "a"} \subseteq {i \in 1..q : log[i].op = "a"}
  OBVIOUS
<1> QED
  BY <1>1, AddsFinite, FS_Subset DEF Adds

-----------------------------------------------------------------------------
(* The invariant.                                                          *)

\* Nobody dies, no session outlives its rlock, every step of the database is
\* taken under the lock, and a status without marks is not the empty string.
Orderly ==
  /\ MaxCrashes = 0 /\ MaxTime < RlockTimeout
  /\ Ops \cap {"search", "check"} = {} /\ ~EmptyStatus

Inserting == {"i_file", "i_log"}
Quiescent == {"idle", "dead"}

\* the entries that index.info and the log account for
Counted == info + Adds(changes, Len(changes))

\* how much of the log agent a has replayed
Where(a) == IF pc[a] = "apply" THEN pos[a] ELSE changeSize[a]

\* No other agent is in the middle of an operation.
Alone(a) == \A b \in Agents \ {a} : pc[b] \in Quiescent

\* What the lock and the rlock files guarantee, and the agents that have not
\* opened the database.
Session(a) ==
  /\ pc[a] \notin Verifying \cup {"restart"}
  /\ pc[a] \in Syncing \cup Reading \cup Inserting => ret[a] = "unlock"
  /\ isRead[a] \/ pc[a] \in Reading => a \in rlock
  /\ age[a] <= clock
  /\ Compacting(a) => \A b \in Agents : isRead[b] => a = b
  /\ arg[a] # NoMsg => arg[a] \notin inserted /\ pc[a] \in Inserting
  /\ pc[a] = "r_index" => pos[a] = info
  /\ ~isRead[a] /\ pc[a] # "dead" =>
       /\ mem[a] = <<>> /\ changeSize[a] = 0 /\ numChanges[a] = 0
       /\ ~needRewrite[a] /\ stale[a] = 0

\* The k-th 'a' record of a log has the entry behind the first n + k - 1.
Numbered(log, n) ==
  \A k \in 1..Len(log) : log[k].op = "a" => log[k].at = n + Adds(log, k)

\* The counts, while agent a, alone, is at label p.
Counts(p, a) ==
  /\ p # "c_unlink" => Numbered(changes, info)
  /\ p \notin Inserting \cup {"c_info", "c_unlink"} => Len(index) = Counted
  /\ p \in Inserting => /\ pos[a] = Counted /\ Len(index) = pos[a] + 1
                        /\ index[pos[a] + 1].msg = arg[a]
  /\ p \in {"c_info", "c_unlink"} => Len(index) = Len(mem[a]) - stale[a]
  /\ p = "c_unlink" => info = Len(index)

\* The entries of the index, too.
Entries(p, a) ==
  /\ \A i, j \in 1..Len(index) : index[i].msg = index[j].msg => i = j
  /\ \A i \in 1..Len(index) :
       /\ ~index[i].gone
       /\ \/ index[i].msg \in inserted /\ (p # "c_index" => index[i].msg \in files)
          \/ p \in Inserting /\ i = Len(index)
  /\ p = "i_log" => arg[a] \in files

DiskInv(p, a) == Counts(p, a) /\ Entries(p, a)

\* The counters of an agent that has the database open ...
Replayed(a) ==
  /\ Where(a) <= Len(changes) /\ changeSize[a] <= Len(changes)
  /\ numChanges[a] = Where(a)
  /\ pc[a] = "apply" \/ Compacting(a) => changeSize[a] = Len(changes)
  /\ Compacting(a) => numChanges[a] >= Threshold
  /\ pc[a] \notin {"c_info", "c_unlink"} =>
       Len(mem[a]) - stale[a] = info + Adds(changes, Where(a))

\* ... and its entries.
Remembers(a) ==
  /\ \A i, j \in 1..Len(mem[a]) : mem[a][i].msg = mem[a][j].msg => i = j
  /\ \A i \in 1..Len(mem[a]) :
       /\ mem[a][i].msg \in inserted
       /\ mem[a][i].gone \/ mem[a][i].msg \in files
       /\ \A k \in 1..Len(index) :
            k > Len(mem[a]) - stale[a] => mem[a][i].msg # index[k].msg

\* And what they are worth: as long as it has dropped no deleted entry from the
\* index, an agent holds what the log says, and what the index says when it
\* need not be written anew.
AtLog(a)   == SameButKeys(mem[a], View(Where(a)))
AtIndex(a) == SameButKeys(mem[a], SubSeq(index, 1, Len(mem[a])))

Meant(a) ==
  stale[a] = 0 =>
    /\ pc[a] \notin {"c_info", "c_unlink"} => AtLog(a)
    /\ ~needRewrite[a] \/ pc[a] \in {"c_info", "c_unlink"} => AtIndex(a)

LInv ==
  /\ Orderly /\ IInv
  /\ \A a \in Agents : Session(a)
  /\ \A a \in Agents : Alone(a) => DiskInv(pc[a], a)
  /\ Agents = {} => Len(index) = Counted
  /\ \A a \in Agents : isRead[a] => Replayed(a) /\ Remembers(a) /\ Meant(a)

-----------------------------------------------------------------------------
(* One agent at a time.                                                    *)

\* Whoever is in the middle of an operation has the lock.
LEMMA ActiveHasLock ==
  ASSUME LInv, NEW a \in Agents, pc[a] \notin Quiescent
  PROVE  lock = a /\ InCritical(a)
<1>1. pc[a] \in PCs /\ Session(a)
  BY DEF LInv, IInv, TypeOK, ControlOK
<1>2. pc[a] \in Exclusive \cup Syncing
  BY <1>1 DEF PCs, Quiescent
<1>3. InCritical(a)
  BY <1>1, <1>2 DEF InCritical, Session
<1> QED
  BY <1>3 DEF LInv, IInv, CriticalHoldsLock

LEMMA ActiveAlone ==
  ASSUME LInv, NEW a \in Agents, pc[a] \notin Quiescent
  PROVE  Alone(a) /\ DiskInv(pc[a], a) /\ lock = a
<1>1. lock = a
  BY ActiveHasLock
<1>2. Alone(a)
  <2> SUFFICES ASSUME NEW b \in Agents \ {a}, pc[b] \notin Quiescent PROVE FALSE
    BY DEF Alone
  <2>1. lock = b
    BY ActiveHasLock
  <2> QED
    BY <1>1, <2>1
<1> QED
  BY <1>1, <1>2 DEF LInv

\* An agent that gets the lock.
LEMMA LockAlone ==
  ASSUME LInv, NEW a \in Agents, lock = None
  PROVE  (\A b \in Agents : pc[b] \in Quiescent) /\ DiskInv(pc[a], a)
<1>1. None \notin Agents
  BY ConstantsAssumption
<1>2. \A b \in Agents : pc[b] \in Quiescent
  BY <1>1, ActiveHasLock
<1>3. Alone(a)
  BY <1>2 DEF Alone
<1> QED
  BY <1>2, <1>3 DEF LInv

\* What pc is after a step to label l.
LEMMA Gone ==
  ASSUME TypeOK, NEW a \in Agents, NEW l, Goto(a, l)
  PROVE  pc'[a] = l /\ \A b \in Agents \ {a} : pc'[b] = pc[b]
  BY DEF Goto, TypeOK, ControlOK

\* The labels at which the counts and the entries are the same thing.
Calm == PCs \ (Inserting \cup {"c_index", "c_info", "c_unlink"})

LEMMA CalmDisk ==
  ASSUME NEW p \in Calm, NEW q \in Calm, NEW a, NEW b, DiskInv(p, a)
  PROVE  DiskInv(q, b)
<1>1. Counts(q, b)
  BY DEF DiskInv, Counts, Calm, Inserting
<1>2. Entries(q, b)
  BY DEF DiskInv, Entries, Calm, Inserting
<1> QED
  BY <1>1, <1>2 DEF DiskInv

\* Agent a, alone, has taken a step.
LEMMA DiskStep ==
  ASSUME NEW a \in Agents, Alone(a), \A b \in Agents \ {a} : pc'[b] = pc[b],
         DiskInv(pc[a], a)'
  PROVE  \A c \in Agents : Alone(c)' => DiskInv(pc[c], c)'
<1> SUFFICES ASSUME NEW c \in Agents, Alone(c)', c # a PROVE DiskInv(pc[c], c)'
  OBVIOUS
<1>1. pc'[a] \in Quiescent /\ pc'[c] \in Quiescent
  BY DEF Alone
<1>2. pc'[a] \in Calm /\ pc'[c] \in Calm
  BY <1>1 DEF Calm, Quiescent, PCs, Inserting
<1>3. Counts(pc[c], c)'
  BY <1>2 DEF DiskInv, Counts, Calm, Inserting
<1>4. Entries(pc[c], c)'
  BY <1>2 DEF DiskInv, Entries, Calm, Inserting
<1> QED
  BY <1>3, <1>4 DEF DiskInv

\* A step of agent a leaves the others where they are, and their rlocks.
StepOf(a) ==
  /\ \A b \in Agents \ {a} :
       /\ pc'[b] = pc[b] /\ arg'[b] = arg[b]
       /\ isRead'[b] = isRead[b] /\ mem'[b] = mem[b]
       /\ changeSize'[b] = changeSize[b] /\ numChanges'[b] = numChanges[b]
       /\ needRewrite'[b] = needRewrite[b] /\ stale'[b] = stale[b]
       /\ b \in rlock => b \in rlock'
  /\ clock' = clock /\ \A b \in Agents : age'[b] \in {age[b], 0}

\* It adds to the files, or takes back what it has added to them.
Extends ==
  /\ info' = info /\ Numbered(changes, info)
  /\ Counted <= Len(index) /\ Counted <= Len(index')
  /\ \A k \in 1..Counted : index'[k] = index[k]
  /\ Len(changes) <= Len(changes')
  /\ \A k \in 1..Len(changes) : changes'[k] = changes[k]
  /\ inserted \subseteq inserted' /\ inserted \cap files \subseteq files'
  /\ \A k \in 1..Len(index') :
       \/ k \in 1..Len(index) /\ index'[k] = index[k]
       \/ index'[k].msg \notin inserted

LEMMA Natural ==
  ASSUME TypeOK, NEW a \in Agents
  PROVE  /\ Len(index) \in Nat /\ Len(changes) \in Nat /\ info \in Nat
         /\ index \in Seq(Entry) /\ changes \in Seq(Record) /\ mem[a] \in Seq(Entry)
         /\ Len(mem[a]) \in Nat /\ stale[a] \in Nat /\ pos[a] \in Nat
         /\ changeSize[a] \in Nat /\ numChanges[a] \in Nat /\ Where(a) \in Nat
         /\ age[a] \in Nat /\ clock \in Nat
<1>1. Len(index) \in Nat /\ Len(changes) \in Nat /\ info \in Nat
      /\ index \in Seq(Entry) /\ changes \in Seq(Record)
  BY DEF TypeOK, DiskOK
<1>2. mem[a] \in Seq(Entry) /\ stale[a] \in Nat /\ changeSize[a] \in Nat
      /\ numChanges[a] \in Nat
  BY DEF TypeOK, MemoryOK
<1>3. pos[a] \in Nat
  BY DEF TypeOK, ControlOK
<1>4. age[a] \in Nat /\ clock \in Nat
  BY DEF TypeOK, LocksOK, BoundsOK
<1> QED
  BY <1>1, <1>2, <1>3, <1>4 DEF Where

\* The others' sessions.
LEMMA OtherSession ==
  ASSUME LInv, NEW a \in Agents, Alone(a), StepOf(a), NEW b \in Agents \ {a}
  PROVE  Session(b)'
<1>1. Session(b) /\ pc[b] \in Quiescent /\ pc'[b] = pc[b]
  BY DEF LInv, Alone, StepOf
<1>2. /\ pc[b] \notin Verifying \cup {"restart"} /\ pc[b] \notin Syncing
      /\ pc[b] \notin Reading /\ ~Compacting(b) /\ pc[b] \notin Inserting
      /\ pc[b] # "r_index"
  BY <1>1 DEF Quiescent, Verifying, Syncing, Reading, Compacting, Inserting
<1>3. age'[b] <= clock'
  <2>1. age'[b] \in {age[b], 0} /\ clock' = clock
    BY DEF StepOf
  <2>2. age[b] <= clock /\ 0 <= clock
    BY <1>1, Natural DEF Session, LInv, IInv
  <2> QED
    BY <2>1, <2>2
<1>4. isRead'[b] => b \in rlock'
  BY <1>1 DEF StepOf, Session
<1>5. arg'[b] = NoMsg
  BY <1>1, <1>2 DEF StepOf, Session
<1>6. ~Compacting(b)'
  BY <1>1, <1>2 DEF Compacting
<1>7. ~isRead'[b] /\ pc'[b] # "dead" =>
        /\ mem'[b] = <<>> /\ changeSize'[b] = 0 /\ numChanges'[b] = 0
        /\ ~needRewrite'[b] /\ stale'[b] = 0
  BY <1>1 DEF StepOf, Session
<1> QED
  BY <1>1, <1>2, <1>3, <1>4, <1>5, <1>6, <1>7 DEF Session

\* What the log means does not change.
LEMMA ViewKept ==
  ASSUME TypeOK, TypeOK', Extends, NEW w \in Nat, w <= Len(changes)
  PROVE  View(w)' = View(w)
<1>1. /\ info \in Nat /\ Len(changes) \in Nat /\ Len(index) \in Nat /\ Len(index') \in Nat
      /\ index \in Seq(Entry) /\ index' \in Seq(Entry)
  BY DEF TypeOK, DiskOK
<1> DEFINE A(j) == Adds(changes, j)
           n == Counted
<1>2. \A j \in Nat : A(j) \in Nat
  BY AddsFinite
<1>3. n = info + A(Len(changes))
  BY DEF Counted
<1>4. n <= Len(index) /\ n <= Len(index') /\ \A k \in 1..n : index'[k] = index[k]
  BY DEF Extends
<1> HIDE DEF A, n
<1>5. n \in Nat /\ info <= n
  <2>1. A(Len(changes)) \in Nat
    BY <1>1, <1>2
  <2> QED
    BY <1>1, <1>3, <2>1
<1>6. SubSeq(index', 1, info) = SubSeq(index, 1, info)
  BY <1>1, <1>4, <1>5, SubSeqSame
<1>7. ASSUME NEW j \in 1..w, changes[j].op = "a"
      PROVE  /\ changes[j].at \in 1..Len(index) /\ changes[j].at \in 1..Len(index')
             /\ index'[changes[j].at] = index[changes[j].at]
  <2>1. j \in 1..Len(changes) /\ j \in Nat /\ j - 1 \in Nat /\ j <= Len(changes)
    BY <1>1
  <2>2. changes[j].at = info + A(j)
    BY <1>7, <2>1 DEF Extends, Numbered, A
  <2>3. A(j) = A(j - 1) + 1
    <3>1. (j - 1) + 1 = j
      BY <2>1
    <3> QED
      BY <1>7, <2>1, <3>1, AddsNext DEF A
  <2>4. A(j) <= A(Len(changes))
    BY <1>1, <2>1, AddsGrow DEF A
  <2>5. info + A(j) \in 1..n
    <3>1. A(j) \in Nat /\ A(j - 1) \in Nat /\ A(Len(changes)) \in Nat
      BY <1>1, <1>2, <2>1
    <3> QED
      BY <1>1, <1>3, <2>3, <2>4, <3>1
  <2>6. info + A(j) \in 1..Len(index) /\ info + A(j) \in 1..Len(index')
    BY <1>1, <1>4, <1>5, <2>5
  <2> QED
    BY <1>4, <2>2, <2>5, <2>6
<1>71. \A j \in 1..w : changes[j].op = "a" =>
                          /\ changes[j].at \in 1..Len(index) /\ changes[j].at \in 1..Len(index')
                          /\ index'[changes[j].at] = index[changes[j].at]
  BY <1>7
<1>8. \A j \in 1..w : changes'[j] = changes[j]
  BY <1>1 DEF Extends
<1>9. Replay(index', info, changes', w) = Replay(index, info, changes, w)
  <2>1. SameUsed(index, index', info, changes, changes', w)
    BY <1>6, <1>71, <1>8 DEF SameUsed
  <2> QED
    BY <2>1, ReplaySame
<1>10. info' = info
  BY DEF Extends
<1> QED
  BY <1>9, <1>10 DEF View

\* The memory of an agent that does not use it in this step.
LEMMA MemoryKept ==
  ASSUME LInv, IInv', NEW b \in Agents, isRead[b], Extends,
         pc[b] \notin Syncing \ {"sync"}, pc'[b] \notin Syncing \ {"sync"},
         mem'[b] = mem[b], changeSize'[b] = changeSize[b],
         numChanges'[b] = numChanges[b], stale'[b] = stale[b],
         needRewrite'[b] = needRewrite[b]
  PROVE  (Replayed(b) /\ Remembers(b) /\ Meant(b))'
<1>1. Replayed(b) /\ Remembers(b) /\ Meant(b)
  BY DEF LInv
<1>2. /\ Where(b) = changeSize[b] /\ Where(b)' = changeSize'[b]
      /\ pc[b] \notin {"c_info", "c_unlink"} /\ pc'[b] # "apply"
      /\ ~Compacting(b)' /\ pc'[b] \notin {"c_info", "c_unlink"}
  BY DEF Syncing, Where, Compacting
<1>4. TypeOK /\ changeSize[b] \in Nat /\ Len(changes) \in Nat /\ changeSize[b] <= Len(changes)
  BY <1>1, Natural DEF LInv, IInv, Replayed
<1>5. Adds(changes', changeSize[b]) = Adds(changes, changeSize[b])
  <2>1. \A i \in 1..changeSize[b] : changes'[i] = changes[i]
    BY <1>4 DEF Extends
  <2> QED
    BY <1>4, <2>1, AddsSame
<1>6. Replayed(b)'
  <2>1. Where(b)' <= Len(changes') /\ changeSize'[b] <= Len(changes')
    <3>1. Len(changes') \in Nat
      BY DEF IInv, TypeOK, DiskOK
    <3>2. Len(changes) <= Len(changes')
      BY DEF Extends
    <3> QED
      BY <1>2, <1>4, <3>1, <3>2
  <2> QED
    BY <1>1, <1>2, <1>4, <1>5, <2>1 DEF Replayed, Extends
<1>7. Remembers(b)'
  <2>1. ASSUME NEW i \in 1..Len(mem[b])
        PROVE  /\ mem[b][i].msg \in inserted'
               /\ mem[b][i].gone \/ mem[b][i].msg \in files'
    BY <1>1 DEF Remembers, Extends
  <2>2. ASSUME NEW i \in 1..Len(mem[b]), NEW k \in 1..Len(index'),
               k > Len(mem[b]) - stale[b]
        PROVE  mem[b][i].msg # index'[k].msg
    BY <1>1, <2>2 DEF Remembers, Extends
  <2> QED
    BY <1>1, <2>1, <2>2 DEF Remembers
<1>8. Meant(b)'
  <2> SUFFICES ASSUME stale[b] = 0 PROVE AtLog(b)' /\ (~needRewrite[b] => AtIndex(b)')
    BY <1>2 DEF Meant
  <2>1. AtLog(b) /\ (~needRewrite[b] => AtIndex(b))
    BY <1>1, <1>2 DEF Meant
  <2>2. View(changeSize[b])' = View(changeSize[b])
    BY <1>4, ViewKept DEF IInv
  <2>3. AtLog(b)'
    BY <1>2, <2>1, <2>2 DEF AtLog
  <2>4. SubSeq(index', 1, Len(mem[b])) = SubSeq(index, 1, Len(mem[b]))
    <3> DEFINE n == Len(mem[b])
               A == Adds(changes, changeSize[b])
               B == Adds(changes, Len(changes))
    <3>1. /\ n \in Nat /\ info \in Nat /\ A \in Nat /\ B \in Nat /\ A <= B /\ n - 0 = info + A
          /\ index \in Seq(Entry) /\ index' \in Seq(Entry)
      BY <1>1, <1>2, <1>4, Natural, AddsFinite, AddsGrow DEF Replayed, IInv, TypeOK, DiskOK
    <3>2. info + B <= Len(index) /\ info + B <= Len(index')
          /\ \A k \in 1..info + B : index'[k] = index[k]
      BY DEF Extends, Counted
    <3>3. Len(index) \in Nat /\ Len(index') \in Nat
      BY <3>1
    <3> HIDE DEF n, A, B
    <3>4. n <= Len(index) /\ n <= Len(index') /\ \A k \in 1..n : index'[k] = index[k]
      BY <3>1, <3>2, <3>3
    <3>5. SubSeq(index', 1, n) = SubSeq(index, 1, n)
      BY <3>1, <3>4, SubSeqSame
    <3> QED
      BY <3>5 DEF n
  <2>5. ~needRewrite[b] => AtIndex(b)'
    BY <2>1, <2>4 DEF AtIndex
  <2> QED
    BY <2>3, <2>5
<1> QED
  BY <1>6, <1>7, <1>8

\* The others' memories.
LEMMA OtherMemory ==
  ASSUME LInv, IInv', NEW a \in Agents, Alone(a), StepOf(a), Extends,
         NEW b \in Agents \ {a}, isRead'[b]
  PROVE  (Replayed(b) /\ Remembers(b) /\ Meant(b))'
<1>1. pc[b] \in Quiescent /\ pc'[b] = pc[b]
  BY DEF Alone, StepOf
<1>2. pc[b] \notin Syncing
  BY <1>1 DEF Quiescent, Syncing
<1> QED
  BY <1>1, <1>2, MemoryKept DEF StepOf

\* What a step of agent a, alone, has to keep.
LEMMA StepKeeps ==
  ASSUME LInv, IInv', NEW a \in Agents, Alone(a), StepOf(a),
         Extends \/ Compacting(a),
         Session(a)', DiskInv(pc[a], a)',
         isRead'[a] => (Replayed(a) /\ Remembers(a) /\ Meant(a))'
  PROVE  LInv'
<1>1. \A b \in Agents : Session(b)'
  BY OtherSession
<1>2. \A c \in Agents : (Alone(c) => DiskInv(pc[c], c))'
  BY DiskStep DEF StepOf
<1>3. ASSUME NEW b \in Agents, isRead'[b]
      PROVE  (Replayed(b) /\ Remembers(b) /\ Meant(b))'
  <2>1. CASE b = a
    BY <1>3, <2>1
  <2>2. CASE b # a /\ Extends
    BY <1>3, <2>2, OtherMemory
  <2>3. CASE b # a /\ Compacting(a)
    BY <1>3, <2>3 DEF StepOf, LInv, Session
  <2> QED
    BY <2>1, <2>2, <2>3
<1> QED
  BY <1>1, <1>2, <1>3 DEF LInv, Orderly

-----------------------------------------------------------------------------
(* Steps that leave the files and the entries alone.                       *)

LEMMA SameDisk ==
  ASSUME LInv, NEW a \in Agents, DiskInv(pc[a], a), pc[a] \in Calm, pc'[a] \in Calm,
         UNCHANGED <<disk, inserted>>
  PROVE  Extends /\ DiskInv(pc[a], a)'
<1>1. Extends
  <2>1. /\ index' = index /\ info' = info /\ changes' = changes /\ files' = files
        /\ inserted' = inserted
    BY DEF disk
  <2>2. Len(changes) \in Nat /\ Len(index) \in Nat
    BY Natural DEF LInv, IInv
  <2>3. Numbered(changes, info) /\ Len(index) = Counted
    BY DEF DiskInv, Counts, Calm, Inserting
  <2> QED
    BY <2>1, <2>2, <2>3 DEF Extends
<1>2. Counts(pc[a], a)'
  BY DEF DiskInv, Counts, Calm, Inserting, disk, Counted
<1>3. Entries(pc[a], a)'
  BY DEF DiskInv, Entries, Calm, Inserting, disk
<1> QED
  BY <1>1, <1>2, <1>3 DEF DiskInv

LEMMA QuietStep ==
  ASSUME LInv, IInv', NEW a \in Agents, Alone(a), StepOf(a), Session(a)',
         DiskInv(pc[a], a), pc[a] \in Calm, pc'[a] \in Calm,
         UNCHANGED <<disk, inserted, memory>>, Where(a)' = Where(a),
         pc'[a] = "apply" \/ Compacting(a)' => pc[a] = "apply" \/ Compacting(a),
         Compacting(a)' => Compacting(a) \/ numChanges[a] >= Threshold
  PROVE  LInv'
<1>1. Extends /\ DiskInv(pc[a], a)'
  BY SameDisk
<1>2. ASSUME isRead'[a] PROVE (Replayed(a) /\ Remembers(a) /\ Meant(a))'
  <2>1. Replayed(a) /\ Remembers(a) /\ Meant(a)
    BY <1>2 DEF LInv, memory
  <2>2. Replayed(a)'
    BY <2>1 DEF Replayed, memory, disk, Calm
  <2>3. Remembers(a)'
    BY <2>1 DEF Remembers, memory, disk
  <2>4. Meant(a)'
    BY <2>1 DEF Meant, AtLog, AtIndex, View, memory, disk, Calm
  <2> QED
    BY <2>2, <2>3, <2>4
<1> QED
  BY <1>1, <1>2, StepKeeps

\* A step that changes nothing but where agent a is, its pos and ret, and the
\* lock.
LEMMA Moves ==
  ASSUME TypeOK, NEW a \in Agents, NEW l, Goto(a, l),
         UNCHANGED <<rlock, age, arg, memory, clock>>
  PROVE  StepOf(a) /\ pc'[a] = l
<1>1. pc'[a] = l /\ \A b \in Agents \ {a} : pc'[b] = pc[b]
  BY Gone
<1> QED
  BY <1>1 DEF StepOf, memory

\* The session of agent a after such a step.
LEMMA MovedSession ==
  ASSUME LInv, NEW a \in Agents, NEW l, pc'[a] = l, l \in PCs,
         UNCHANGED <<age, arg, memory, clock, inserted>>,
         l \notin Verifying \cup {"restart", "dead", "r_index", "r_info"},
         l \in Syncing \cup Inserting => ret'[a] = "unlock",
         isRead[a] => a \in rlock',
         Compacting(a)' => \A b \in Agents : isRead[b] => a = b,
         pc[a] \in Inserting => l \in Inserting,
         pc[a] # "dead"
  PROVE  Session(a)'
<1>1. Session(a)
  BY DEF LInv
<1>2. /\ pc'[a] \notin Reading /\ isRead'[a] = isRead[a] /\ arg'[a] = arg[a]
      /\ mem'[a] = mem[a] /\ changeSize'[a] = changeSize[a]
      /\ numChanges'[a] = numChanges[a] /\ needRewrite'[a] = needRewrite[a]
      /\ stale'[a] = stale[a] /\ age'[a] = age[a] /\ clock' = clock
  BY DEF Reading, memory
<1>3. Compacting(a)' => \A b \in Agents : isRead'[b] => a = b
  BY DEF memory
<1> QED
  BY <1>1, <1>2, <1>3 DEF Session

LEMMA UnlockLog ==
  ASSUME LInv, IInv', NEW a \in Agents, Unlock(a)
  PROVE  LInv'
<1>1. TypeOK
  BY DEF LInv, IInv
<1>2. /\ pc[a] = "unlock" /\ Goto(a, "idle")
      /\ UNCHANGED <<disk, rlock, age, arg, memory, inserted, clock, ret>>
  BY DEF Unlock, locals, history, bounds
<1>3. StepOf(a) /\ pc'[a] = "idle"
  BY <1>1, <1>2, Moves
<1>4. Alone(a) /\ DiskInv(pc[a], a)
  BY <1>2, ActiveAlone DEF Quiescent
<1>5. /\ "idle" \in Calm /\ "unlock" \in Calm /\ "idle" \in PCs
      /\ "idle" \notin Verifying \cup {"restart", "dead", "r_index", "r_info"}
      /\ "idle" \notin Syncing \cup Inserting /\ "unlock" \notin Inserting
  BY DEF Calm, PCs, Inserting, Exclusive, Verifying, Syncing
<1>6. ~Compacting(a)' /\ Where(a)' = Where(a)
  BY <1>2, <1>3 DEF Compacting, Where, memory
<1>7. isRead[a] => a \in rlock'
  BY <1>2 DEF LInv, Session
<1>8. Session(a)'
  BY <1>2, <1>3, <1>5, <1>6, <1>7, MovedSession
<1> QED
  BY <1>2, <1>3, <1>4, <1>5, <1>6, <1>8, QuietStep

LEMMA ReadLockLog ==
  ASSUME LInv, IInv', NEW a \in Agents, ReadLock(a)
  PROVE  LInv'
<1>1. TypeOK /\ Session(a)
  BY DEF LInv, IInv
<1>2. /\ pc[a] = "idle" /\ ~isRead[a] /\ Goto(a, "r_info") /\ lock = None
      /\ rlock' = rlock \cup {a}
      /\ age' = [age EXCEPT ![a] = IF a \in rlock THEN @ ELSE 0]
      /\ UNCHANGED <<disk, arg, memory, inserted, clock, pos>>
  BY DEF ReadLock, Idle, Enter, Lock, locals, history, bounds
<1>3. pc'[a] = "r_info" /\ \A b \in Agents \ {a} : pc'[b] = pc[b]
  BY <1>1, <1>2, Gone
<1>4. \A b \in Agents : age'[b] \in {age[b], 0}
  BY <1>1, <1>2 DEF TypeOK, LocksOK
<1>5. StepOf(a)
  BY <1>2, <1>3, <1>4 DEF StepOf, memory
<1>6. Alone(a) /\ DiskInv(pc[a], a)
  BY <1>2, LockAlone DEF Alone
<1>7. Session(a)'
  <2>1. age'[a] <= clock'
    BY <1>1, <1>2, <1>4, Natural DEF Session
  <2>2. "r_info" \notin Verifying \cup {"restart"} /\ ret'[a] = "unlock"
    BY <1>1 DEF Verifying, ReadLock, Enter, TypeOK, ControlOK
  <2>3. /\ ~Compacting(a)' /\ arg'[a] = NoMsg
    BY <1>1, <1>2, <1>3 DEF Compacting, Session, Inserting
  <2>4. /\ mem'[a] = <<>> /\ changeSize'[a] = 0 /\ numChanges'[a] = 0
        /\ ~needRewrite'[a] /\ stale'[a] = 0
    BY <1>1, <1>2 DEF Session, memory
  <2>5. a \in rlock'
    BY <1>2
  <2> QED
    BY <1>3, <2>1, <2>2, <2>3, <2>4, <2>5 DEF Session
<1>8. pc[a] \in Calm /\ pc'[a] \in Calm
  BY <1>2, <1>3 DEF Calm, PCs, Inserting, Exclusive, Reading
<1>9. Where(a)' = Where(a) /\ ~Compacting(a)' /\ pc'[a] # "apply"
  BY <1>2, <1>3 DEF Where, Compacting, memory
<1> QED
  BY <1>2, <1>5, <1>6, <1>7, <1>8, <1>9, QuietStep

LEMMA ReadInfoLog ==
  ASSUME LInv, IInv', NEW a \in Agents, ReadInfo(a)
  PROVE  LInv'
<1>1. TypeOK /\ Session(a)
  BY DEF LInv, IInv
<1>2. /\ pc[a] = "r_info" /\ Goto(a, "r_index") /\ pos' = [pos EXCEPT ![a] = info]
      /\ UNCHANGED <<disk, rlock, age, arg, memory, inserted, clock>>
  BY DEF ReadInfo, locks, history, bounds
<1>3. StepOf(a) /\ pc'[a] = "r_index"
  BY <1>1, <1>2, Moves
<1>4. Alone(a) /\ DiskInv(pc[a], a)
  BY <1>2, ActiveAlone DEF Quiescent
<1>5. Session(a)'
  <2>1. "r_index" \notin Verifying \cup {"restart"} /\ ret'[a] = "unlock"
    BY <1>1, <1>2 DEF Verifying, ReadInfo, Session, Reading
  <2>2. ~Compacting(a)' /\ arg'[a] = NoMsg
    BY <1>1, <1>2, <1>3 DEF Compacting, Session, Inserting
  <2>3. pos'[a] = info'
    BY <1>1, <1>2 DEF TypeOK, ControlOK, disk
  <2>4. age'[a] <= clock' /\ a \in rlock'
    BY <1>1, <1>2 DEF Session, Reading
  <2>5. ~isRead'[a] =>
          /\ mem'[a] = <<>> /\ changeSize'[a] = 0 /\ numChanges'[a] = 0
          /\ ~needRewrite'[a] /\ stale'[a] = 0
    BY <1>1, <1>2 DEF Session, memory
  <2> QED
    BY <1>3, <2>1, <2>2, <2>3, <2>4, <2>5 DEF Session
<1>6. pc[a] \in Calm /\ pc'[a] \in Calm
  BY <1>2, <1>3 DEF Calm, PCs, Inserting, Exclusive, Reading
<1>7. Where(a)' = Where(a) /\ ~Compacting(a)' /\ pc'[a] # "apply"
  BY <1>2, <1>3 DEF Where, Compacting, memory
<1> QED
  BY <1>2, <1>3, <1>4, <1>5, <1>6, <1>7, QuietStep

\* The count never exceeds the entries: no "error in index-file", no memory that
\* nobody has written.
LEMMA InfoCovered ==
  ASSUME LInv, NEW a \in Agents, pc[a] = "r_index"
  PROVE  pos[a] = info /\ info <= Len(index)
<1>1. DiskInv(pc[a], a) /\ Session(a) /\ TypeOK
  BY ActiveAlone DEF Quiescent, LInv, IInv
<1>2. Len(index) = Counted
  BY <1>1 DEF DiskInv, Counts, Inserting
<1>3. Adds(changes, Len(changes)) \in Nat /\ info \in Nat
  BY <1>1, AddsFinite, Natural
<1> QED
  BY <1>1, <1>2, <1>3 DEF Session, Counted

LEMMA ReadIndexLog ==
  ASSUME LInv, IInv', NEW a \in Agents, ReadIndex(a)
  PROVE  LInv'
<1>1. TypeOK /\ Session(a) /\ SessionOK
  BY DEF LInv, IInv
<1>2. /\ pc[a] = "r_index" /\ Goto(a, "sync")
      /\ mem' = [mem EXCEPT ![a] = SubSeq(index, 1, pos[a])]
      /\ isRead' = [isRead EXCEPT ![a] = TRUE]
      /\ UNCHANGED <<disk, rlock, age, arg, inserted, clock, ret>>
      /\ UNCHANGED <<changeSize, numChanges, needRewrite, stale>>
  BY DEF ReadIndex, locks, locals, history, bounds
<1>3. pc'[a] = "sync" /\ \A b \in Agents \ {a} : pc'[b] = pc[b]
  BY <1>1, <1>2, Gone
<1>4. Alone(a) /\ DiskInv(pc[a], a)
  BY <1>2, ActiveAlone DEF Quiescent
<1>5. pos[a] = info /\ info <= Len(index) /\ info \in Nat /\ Len(index) \in Nat
      /\ index \in Seq(Entry)
  BY <1>1, <1>2, InfoCovered, Natural
<1>6. mem'[a] = SubSeq(index, 1, info) /\ isRead'[a]
  BY <1>1, <1>2, <1>5 DEF TypeOK, MemoryOK
<1>7. \A b \in Agents \ {a} : mem'[b] = mem[b] /\ isRead'[b] = isRead[b]
  BY <1>1, <1>2 DEF TypeOK, MemoryOK
<1>8. StepOf(a)
  BY <1>2, <1>3, <1>7 DEF StepOf
<1>9. ~isRead[a] /\ changeSize[a] = 0 /\ numChanges[a] = 0 /\ stale[a] = 0
  BY <1>1, <1>2 DEF Session, SessionOK, Reading
<1>10. Session(a)'
  <2>1. "sync" \notin Verifying \cup {"restart"} \cup Reading \cup {"r_index"}
    BY DEF Verifying, Reading
  <2>2. ret'[a] = "unlock"
    BY <1>1, <1>2 DEF Session, Reading
  <2>3. ~Compacting(a)' /\ arg'[a] = NoMsg
    BY <1>1, <1>2, <1>3 DEF Compacting, Session, Inserting
  <2>4. age'[a] <= clock' /\ a \in rlock'
    BY <1>1, <1>2 DEF Session, Reading
  <2> QED
    BY <1>3, <1>6, <2>1, <2>2, <2>3, <2>4 DEF Session
<1>11. pc[a] \in Calm /\ pc'[a] \in Calm
  BY <1>2, <1>3 DEF Calm, PCs, Inserting, Exclusive, Reading, Syncing
<1>12. Extends /\ DiskInv(pc[a], a)'
  BY <1>2, <1>4, <1>11, SameDisk
<1>13. Len(mem'[a]) = info /\ \A i \in 1..info : mem'[a][i] = index[i]
  BY <1>5, <1>6
<1>14. Replayed(a)'
  <2>1. Where(a)' = 0 /\ ~Compacting(a)'
    BY <1>2, <1>3, <1>9 DEF Where, Compacting
  <2>2. Adds(changes', 0) = 0 /\ Len(changes') \in Nat
    BY <1>1, <1>2, AddsZero, Natural DEF disk
  <2> QED
    BY <1>2, <1>3, <1>5, <1>9, <1>13, <2>1, <2>2 DEF Replayed, disk
<1>15. Remembers(a)'
  <2>1. Entries(pc[a], a)
    BY <1>4 DEF DiskInv
  <2>2. \A i \in 1..info : i \in 1..Len(index)
    BY <1>5
  <2>3. \A i \in 1..info : index[i].msg \in inserted /\ index[i].msg \in files
    BY <1>2, <2>1, <2>2 DEF Entries, Inserting
  <2>4. \A i, j \in 1..info : index[i].msg = index[j].msg => i = j
    BY <2>1, <2>2 DEF Entries
  <2>5. \A i \in 1..info, k \in 1..Len(index) :
          k > info - 0 => index[i].msg # index[k].msg
    BY <1>5, <2>1, <2>2 DEF Entries
  <2>6. /\ index' = index /\ files' = files /\ inserted' = inserted /\ stale'[a] = 0
    BY <1>2, <1>9 DEF disk
  <2> QED
    BY <1>13, <2>3, <2>4, <2>5, <2>6 DEF Remembers
<1>16. Meant(a)'
  <2>1. Where(a)' = 0 /\ View(0)' = SubSeq(index, 1, info)
    <3>1. Where(a)' = 0
      BY <1>2, <1>3, <1>9 DEF Where
    <3>2. index' = index /\ info' = info
      BY <1>2 DEF disk
    <3> QED
      BY <3>1, <3>2, ReplayZero DEF View
  <2>2. AtLog(a)'
    BY <1>6, <2>1, SameSelf DEF AtLog
  <2>3. AtIndex(a)'
    <3>1. SubSeq(index', 1, Len(mem'[a])) = mem'[a]
      BY <1>2, <1>6, <1>13 DEF disk
    <3> QED
      BY <3>1, SameSelf DEF AtIndex
  <2> QED
    BY <1>3, <2>2, <2>3 DEF Meant
<1> QED
  BY <1>4, <1>8, <1>10, <1>12, <1>14, <1>15, <1>16, StepKeeps

\* No step takes a path on which Read() fails.
LEMMA ReadErrorLog ==
  ASSUME LInv, NEW a \in Agents
  PROVE  ~ReadIndexError(a) /\ ~ReadIndexUnwritten(a)
<1> SUFFICES ASSUME ReadIndexError(a) \/ ReadIndexUnwritten(a) PROVE FALSE
  OBVIOUS
<1>1. pc[a] = "r_index"
  BY DEF ReadIndexError, ReadIndexUnwritten
<1>2. pos[a] = info /\ info <= Len(index) /\ info \in Nat /\ Len(index) \in Nat
  BY <1>1, InfoCovered, Natural DEF LInv, IInv
<1>3. CASE ReadIndexError(a)
  BY <1>2, <1>3 DEF ReadIndexError
<1>4. CASE ReadIndexUnwritten(a)
  BY <1>2, <1>4 DEF ReadIndexUnwritten
<1> QED
  BY <1>3, <1>4

-----------------------------------------------------------------------------
(* Sync().                                                                 *)

\* Where Return() goes, in an orderly run.
LEMMA Returns ==
  ASSUME LInv, NEW a \in Agents, pc[a] \in Syncing, Return(a)
  PROVE  Goto(a, "unlock")
  BY DEF LInv, Session, Return

LEMMA SyncStatLog ==
  ASSUME LInv, IInv', NEW a \in Agents, SyncStat(a)
  PROVE  LInv'
<1>1. TypeOK /\ Session(a) /\ SessionOK
  BY DEF LInv, IInv
<1>2. /\ pc[a] = "sync"
      /\ UNCHANGED <<disk, locks, ret, arg, work, isRead, mem, numChanges,
                     needRewrite, stale, history, bounds>>
  BY DEF SyncStat
<1>3. Alone(a) /\ DiskInv(pc[a], a)
  BY <1>2, ActiveAlone DEF Quiescent
<1>4. isRead[a] /\ Replayed(a) /\ Remembers(a) /\ Meant(a) /\ pc[a] \in Syncing
  BY <1>1, <1>2 DEF SessionOK, Syncing, LInv
<1>5. isRead[a] => a \in rlock'
  BY <1>1, <1>2 DEF Session, locks
<1>6. CASE changeSize[a] >= Len(changes)
  <2>1. Goto(a, "unlock") /\ UNCHANGED <<pos, changeSize>>
    BY <1>4, <1>6, Returns DEF SyncStat
  <2>2. UNCHANGED <<rlock, age, arg, memory, clock, inserted, disk>>
    BY <1>2, <2>1 DEF locks, memory, history, bounds
  <2>3. StepOf(a) /\ pc'[a] = "unlock"
    BY <1>1, <2>1, <2>2, Moves
  <2>4. /\ "unlock" \in Calm /\ "sync" \in Calm /\ "unlock" \in PCs
        /\ "unlock" \notin Verifying \cup {"restart", "dead", "r_index", "r_info"}
        /\ "unlock" \notin Syncing \cup Inserting /\ "sync" \notin Inserting
    BY DEF Calm, PCs, Inserting, Exclusive, Verifying, Syncing
  <2>5. ~Compacting(a)' /\ Where(a)' = Where(a)
    BY <1>2, <2>1, <2>3 DEF Compacting, Where
  <2>6. Session(a)'
    BY <1>2, <1>5, <2>2, <2>3, <2>4, <2>5, MovedSession
  <2> QED
    BY <1>2, <1>3, <2>2, <2>3, <2>4, <2>5, <2>6, QuietStep
<1>7. CASE ~(changeSize[a] >= Len(changes))
  <2>1. /\ Goto(a, "apply") /\ pos' = [pos EXCEPT ![a] = changeSize[a]]
        /\ changeSize' = [changeSize EXCEPT ![a] = Len(changes)]
    BY <1>7 DEF SyncStat
  <2>2. pc'[a] = "apply" /\ \A b \in Agents \ {a} : pc'[b] = pc[b]
    BY <1>1, <2>1, Gone
  <2>3. /\ pos'[a] = changeSize[a] /\ changeSize'[a] = Len(changes)
        /\ \A b \in Agents \ {a} : changeSize'[b] = changeSize[b]
    BY <1>1, <2>1 DEF TypeOK, ControlOK, MemoryOK
  <2>4. StepOf(a)
    BY <1>2, <2>2, <2>3 DEF StepOf, locks, bounds
  <2>5. Session(a)'
    <3>1. "apply" \notin Verifying \cup {"restart"} \cup Reading \cup {"r_index"}
      BY DEF Verifying, Reading
    <3>2. ~Compacting(a)' /\ arg'[a] = NoMsg
      BY <1>1, <1>2, <2>2 DEF Compacting, Session, Inserting
    <3>3. age'[a] <= clock' /\ a \in rlock' /\ isRead'[a] /\ ret'[a] = "unlock"
      BY <1>1, <1>2, <1>4, <1>5 DEF Session, locks, bounds
    <3> QED
      BY <2>2, <3>1, <3>2, <3>3 DEF Session
  <2>6. pc[a] \in Calm /\ pc'[a] \in Calm
    BY <1>2, <2>2 DEF Calm, PCs, Inserting, Syncing
  <2>7. Extends /\ DiskInv(pc[a], a)'
    BY <1>2, <1>3, <2>6, SameDisk DEF history
  <2>8. Replayed(a)'
    <3>1. Where(a)' = changeSize[a] /\ ~Compacting(a)' /\ Where(a) = changeSize[a]
      BY <1>2, <2>2, <2>3 DEF Where, Compacting
    <3>2. changes' = changes /\ info' = info /\ mem' = mem /\ stale' = stale
          /\ numChanges' = numChanges
      BY <1>2 DEF disk
    <3>3. Len(changes) \in Nat /\ pc[a] \notin {"c_info", "c_unlink"}
      BY <1>1, <1>2, Natural
    <3> QED
      BY <1>4, <2>2, <2>3, <3>1, <3>2, <3>3 DEF Replayed
  <2>9. Remembers(a)'
    BY <1>2, <1>4 DEF Remembers, disk, history
  <2>10. Meant(a)'
    <3>1. Where(a)' = Where(a)
      BY <1>2, <2>2, <2>3 DEF Where
    <3> QED
      BY <1>2, <1>4, <2>2, <3>1 DEF Meant, AtLog, AtIndex, View, disk
  <2> QED
    BY <1>3, <2>4, <2>5, <2>7, <2>8, <2>9, <2>10, StepKeeps
<1> QED
  BY <1>6, <1>7

\* What the loop over the records knows of the one it is at.
LEMMA AtRecord ==
  ASSUME LInv, NEW a \in Agents, pc[a] = "apply", pos[a] < Len(changes)
  PROVE  LET r == changes[pos[a] + 1] IN
         /\ r \in Record /\ ~Blank(r)
         /\ pos[a] + 1 \in 1..Len(changes)
         /\ r.op = "a" => /\ r.at = Len(mem[a]) - stale[a] + 1
                          /\ r.at \in 1..Len(index)
<1> DEFINE r == changes[pos[a] + 1]
           n == Len(changes)
<1>1. TypeOK /\ SessionOK /\ DiskInv(pc[a], a)
  BY ActiveAlone DEF Quiescent, LInv, IInv
<1>2. isRead[a] /\ Replayed(a)
  BY <1>1 DEF SessionOK, Syncing, LInv
<1>3. /\ pos[a] \in Nat /\ n \in Nat /\ info \in Nat /\ Len(mem[a]) \in Nat
      /\ stale[a] \in Nat /\ changes \in Seq(Record)
  BY <1>1, Natural
<1>4. pos[a] + 1 \in 1..n
  BY <1>3
<1>5. r \in Record
  BY <1>3, <1>4
<1>6. ~Blank(r)
  BY DEF LInv, Orderly, Blank
<1>7. ASSUME r.op = "a"
      PROVE  r.at = Len(mem[a]) - stale[a] + 1 /\ r.at \in 1..Len(index)
  <2>1. r.at = info + Adds(changes, pos[a] + 1)
    BY <1>1, <1>4, <1>7 DEF DiskInv, Counts, Numbered
  <2>2. Adds(changes, pos[a] + 1) = Adds(changes, pos[a]) + 1
    BY <1>3, <1>7, AddsNext
  <2>3. Len(mem[a]) - stale[a] = info + Adds(changes, pos[a])
    BY <1>2 DEF Replayed, Where
  <2>4. Len(index) = info + Adds(changes, n)
    BY <1>1 DEF DiskInv, Counts, Counted, Inserting
  <2>5. Adds(changes, pos[a] + 1) <= Adds(changes, n)
    BY <1>3, AddsGrow
  <2>6. Adds(changes, pos[a]) \in Nat /\ Adds(changes, n) \in Nat
    BY <1>3, AddsFinite
  <2> HIDE DEF r
  <2> QED
    BY <1>3, <2>1, <2>2, <2>3, <2>4, <2>5, <2>6
<1> QED
  BY <1>4, <1>5, <1>6, <1>7

\* A record that is not an insertion leaves the entries' number and messages.
LEMMA AfterOther ==
  ASSUME DiskOK, MemoryOK, NEW a \in Agents, NEW r \in Record, r.op # "a"
  PROVE  /\ Len(AfterRecord(a, r)) = Len(mem[a])
         /\ \A i \in 1..Len(mem[a]) :
              /\ AfterRecord(a, r)[i].msg = mem[a][i].msg
              /\ mem[a][i].gone => AfterRecord(a, r)[i].gone
<1>1. mem[a] \in Seq(Entry) /\ Len(mem[a]) \in Nat
  BY DEF MemoryOK
<1>2. Len(AfterRecord(a, r)) = Len(mem[a])
  BY <1>1 DEF AfterRecord, InRange
<1> QED
  BY <1>2, AfterRecordKeeps

LEMMA SyncApplyLog ==
  ASSUME LInv, IInv', NEW a \in Agents, SyncApply(a)
  PROVE  LInv'
<1> DEFINE r == changes[pos[a] + 1]
           m == AfterRecord(a, r)
<1>1. TypeOK /\ Session(a) /\ SessionOK /\ DiskOK /\ MemoryOK
  BY DEF LInv, IInv, TypeOK
<1>2. /\ pc[a] = "apply" /\ pos[a] < Len(changes)
      /\ mem' = [mem EXCEPT ![a] = m]
      /\ numChanges' = [numChanges EXCEPT ![a] = @ + 1]
      /\ pos' = [pos EXCEPT ![a] = @ + 1]
      /\ UNCHANGED <<disk, locks, pc, ret, arg, work, isRead, changeSize, stale,
                     history, bounds>>
  BY DEF SyncApply
<1>3. Alone(a) /\ DiskInv(pc[a], a)
  BY <1>2, ActiveAlone DEF Quiescent
<1>4. isRead[a] /\ Replayed(a) /\ Remembers(a) /\ Meant(a)
  BY <1>1, <1>2 DEF SessionOK, Syncing, LInv
<1>5. /\ r \in Record /\ pos[a] + 1 \in 1..Len(changes)
      /\ r.op = "a" => r.at = Len(mem[a]) - stale[a] + 1 /\ r.at \in 1..Len(index)
  BY <1>2, AtRecord
<1>6. /\ mem'[a] = m /\ pos'[a] = pos[a] + 1 /\ numChanges'[a] = numChanges[a] + 1
      /\ \A b \in Agents \ {a} : mem'[b] = mem[b] /\ numChanges'[b] = numChanges[b]
  <2> HIDE DEF m
  <2> QED
    BY <1>1, <1>2 DEF TypeOK, MemoryOK, ControlOK
<1>7. \A b \in Agents \ {a} : needRewrite'[b] = needRewrite[b]
  BY <1>1 DEF SyncApply, MemoryOK
<1>8. StepOf(a)
  BY <1>2, <1>6, <1>7 DEF StepOf, locks, bounds
<1>9. Session(a)'
  <2>1. ~Compacting(a)' /\ pc'[a] \notin Reading /\ pc'[a] # "r_index"
    BY <1>2 DEF Compacting, Reading
  <2> QED
    BY <1>1, <1>2, <1>4, <2>1 DEF Session, locks, bounds, history
<1>10. pc[a] \in Calm /\ pc'[a] \in Calm
  BY <1>2 DEF Calm, PCs, Inserting, Syncing
<1>11. Extends /\ DiskInv(pc[a], a)'
  BY <1>2, <1>3, <1>10, SameDisk DEF history
<1>12. /\ Len(mem[a]) \in Nat /\ stale[a] \in Nat /\ mem[a] \in Seq(Entry)
       /\ info \in Nat /\ index \in Seq(Entry) /\ Len(index) \in Nat
       /\ pos[a] \in Nat /\ Len(changes) \in Nat
  BY <1>1, Natural
<1>13. /\ index' = index /\ info' = info /\ changes' = changes /\ files' = files
       /\ inserted' = inserted /\ stale' = stale /\ changeSize' = changeSize
       /\ pc' = pc
  BY <1>2 DEF disk, history
<1>14. Adds(changes, pos[a] + 1)
         = Adds(changes, pos[a]) + (IF r.op = "a" THEN 1 ELSE 0)
  BY <1>12, AddsNext
<1>15. Len(mem[a]) - stale[a] = info + Adds(changes, pos[a])
       /\ numChanges[a] = pos[a] /\ changeSize[a] = Len(changes)
  BY <1>2, <1>4 DEF Replayed, Where
<1>16. Adds(changes, pos[a]) \in Nat
  BY <1>12, AddsFinite
<1>17. ~Compacting(a)' /\ Where(a)' = pos[a] + 1
  BY <1>2, <1>6, <1>13 DEF Compacting, Where
<1>18. Meant(a)'
  <2> DEFINE n == Len(mem[a])
  <2> SUFFICES ASSUME stale[a] = 0 PROVE AtLog(a)' /\ (~needRewrite'[a] => AtIndex(a)')
    BY <1>2, <1>13 DEF Meant
  <2>1. AtLog(a) /\ (~needRewrite[a] => AtIndex(a))
    BY <1>2, <1>4 DEF Meant
  <2>2. AtLog(a)'
    <3> DEFINE v == View(pos[a])
    <3>1. SameButKeys(mem[a], v)
      BY <1>2, <2>1 DEF AtLog, Where
    <3>2. v \in Seq(Entry)
      <4>1. info <= Len(index)
        <5>1. Len(index) = info + Adds(changes, Len(changes))
          BY <1>2, <1>3 DEF DiskInv, Counts, Counted, Inserting
        <5>2. Adds(changes, Len(changes)) \in Nat
          BY <1>12, AddsFinite
        <5> QED
          BY <1>12, <5>1, <5>2
      <4>2. changes \in Seq(Record) /\ pos[a] <= Len(changes)
        BY <1>1, <1>2, <1>12, Natural
      <4> QED
        BY <1>12, <4>1, <4>2, ReplayType DEF View
    <3>3. View(pos[a] + 1) = Applied(index, v, r)
      BY <1>12, ReplayNext DEF View
    <3>4. View(Where(a))' = View(pos[a] + 1)
      BY <1>13, <1>17 DEF View
    <3> HIDE DEF v, r
    <3>5. SameButKeys(AfterRecord(a, r), Applied(index, v, r))
      BY <1>5, <1>12, <3>1, <3>2, SameApplied
    <3> QED
      BY <1>6, <3>3, <3>4, <3>5 DEF AtLog
  <2>3. ASSUME ~needRewrite'[a] PROVE AtIndex(a)'
    <3>1. needRewrite'[a] = (needRewrite[a] \/ (r.op \in {"d", "s"} /\ InRange(a, r)))
      BY <1>1 DEF SyncApply, MemoryOK
    <3>2. SameButKeys(mem[a], SubSeq(index, 1, n)) /\ ~(r.op \in {"d", "s"} /\ InRange(a, r))
      BY <2>1, <2>3, <3>1 DEF AtIndex
    <3> HIDE DEF r
    <3>3. CASE r.op = "a"
      <4> DEFINE e == index[n + 1]
      <4>1. r.at = n + 1 /\ n + 1 \in 1..Len(index)
        BY <1>5, <1>12, <3>3
      <4>2. m = Append(mem[a], e) /\ e \in Entry
        BY <1>12, <3>3, <4>1 DEF AfterRecord
      <4>3. /\ Len(SubSeq(index, 1, n + 1)) = n + 1 /\ Len(SubSeq(index, 1, n)) = n
            /\ SubSeq(index, 1, n + 1)[n + 1] = e
            /\ \A i \in 1..n : SubSeq(index, 1, n + 1)[i] = SubSeq(index, 1, n)[i]
        BY <1>12, <4>1
      <4>4. /\ Len(m) = n + 1 /\ m[n + 1] = e /\ \A i \in 1..n : m[i] = mem[a][i]
        BY <1>12, <4>2
      <4>5. n \in Nat /\ \A i \in 1..n + 1 : i \in 1..n \/ i = n + 1
        BY <1>12
      <4> DEFINE x == SubSeq(index, 1, n + 1)
                 y == SubSeq(index, 1, n)
      <4>6. SameButKeys(m, x)
        <5>1. /\ Len(x) = n + 1 /\ x[n + 1] = e /\ \A i \in 1..n : x[i] = y[i]
              /\ SameButKeys(mem[a], y)
          BY <3>2, <4>3
        <5> HIDE DEF x, y, e, m
        <5> QED
          BY <4>4, <4>5, <5>1 DEF SameButKeys
      <4> QED
        BY <1>6, <1>13, <4>4, <4>6 DEF AtIndex
    <3>4. CASE r.op = "k"
      <4>1. /\ Len(m) = n
            /\ \A i \in 1..n : m[i].msg = mem[a][i].msg /\ m[i].del = mem[a][i].del
                               /\ m[i].gone = mem[a][i].gone
        <5>1. m = [i \in 1..n |-> IF i \in r.at THEN [mem[a][i] EXCEPT !.kw = r.kw]
                                                 ELSE mem[a][i]]
          BY <3>4 DEF AfterRecord
        <5>2. \A i \in 1..n : mem[a][i] \in Entry
          BY <1>12
        <5> HIDE DEF m
        <5> QED
          BY <1>12, <5>1, <5>2 DEF Entry
      <4> HIDE DEF m
      <4>2. SameButKeys(m, SubSeq(index, 1, n))
        BY <3>2, <4>1 DEF SameButKeys
      <4> QED
        BY <1>6, <1>13, <4>1, <4>2 DEF AtIndex
    <3>5. CASE r.op \in {"d", "s"}
      <4>1. m = mem[a]
        BY <3>2, <3>5 DEF AfterRecord
      <4> QED
        BY <1>6, <1>13, <3>2, <4>1 DEF AtIndex
    <3>6. r.op \in {"a", "d", "s", "k"}
      BY <1>5 DEF Record
    <3> QED
      BY <3>3, <3>4, <3>5, <3>6
  <2> QED
    BY <2>2, <2>3
<1>19. CASE r.op = "a"
  <2> HIDE DEF r
  <2>1. m = Append(mem[a], index[r.at])
    BY <1>19 DEF AfterRecord
  <2>11. index[r.at] \in Entry
    BY <1>5, <1>12, <1>19
  <2> HIDE DEF m
  <2> DEFINE e == index[r.at]
             n == Len(mem[a])
  <2>2. /\ Len(m) = n + 1 /\ m[n + 1] = e
        /\ \A i \in 1..n : m[i] = mem[a][i]
    BY <1>12, <2>1, <2>11
  <2>3. r.at = n - stale[a] + 1 /\ r.at \in 1..Len(index)
    BY <1>5, <1>19
  <2>4. e.msg \in inserted /\ e.msg \in files
    BY <1>2, <1>3, <2>3 DEF DiskInv, Entries, Inserting
  <2>5. \A k \in 1..Len(index) : k > n + 1 - stale[a] => index[k].msg # e.msg
    <3> SUFFICES ASSUME NEW k \in 1..Len(index), k > n + 1 - stale[a]
                 PROVE  index[k].msg # e.msg
      OBVIOUS
    <3>1. k # r.at
      BY <1>12, <2>3
    <3> QED
      BY <1>3, <2>3, <3>1 DEF DiskInv, Entries
  <2>6. \A i \in 1..n : mem[a][i].msg # e.msg
    <3>1. r.at > n - stale[a]
      BY <1>12, <2>3
    <3> QED
      BY <1>4, <2>3, <3>1 DEF Remembers
  <2>7. Replayed(a)'
    <3>1. Len(m) - stale[a] = info + Adds(changes, pos[a] + 1)
      <4>1. Adds(changes, pos[a] + 1) = Adds(changes, pos[a]) + 1
        BY <1>14, <1>19
      <4>2. Len(m) = Len(mem[a]) + 1
        BY <2>2
      <4> DEFINE A == Adds(changes, pos[a])
                 B == Adds(changes, pos[a] + 1)
                 l == Len(m)
                 s == stale[a]
      <4>3. /\ A \in Nat /\ n \in Nat /\ s \in Nat /\ info \in Nat
            /\ n - s = info + A /\ B = A + 1 /\ l = n + 1
        BY <1>12, <1>15, <1>16, <4>1, <4>2
      <4>4. l - s = info + B
        <5> HIDE DEF A, B, n, l, s
        <5> QED
          BY <4>3
      <4> QED
        BY <4>4
    <3> QED
      BY <1>2, <1>5, <1>6, <1>12, <1>13, <1>15, <1>17, <3>1 DEF Replayed
  <2> HIDE DEF e
  <2>8. ASSUME NEW i \in 1..n + 1, NEW j \in 1..n + 1, m[i].msg = m[j].msg
        PROVE  i = j
    <3>1. CASE i \in 1..n /\ j \in 1..n
      <4>1. mem[a][i].msg = mem[a][j].msg
        BY <2>2, <2>8, <3>1
      <4> QED
        BY <1>4, <3>1, <4>1 DEF Remembers
    <3>2. CASE i = n + 1 \/ j = n + 1
      <4>1. n \in Nat /\ \A k \in 1..n + 1 : k \in 1..n \/ k = n + 1
        BY <1>12
      <4>2. m[n + 1].msg = e.msg /\ \A k \in 1..n : m[k].msg # e.msg
        BY <2>2, <2>6
      <4> QED
        BY <2>8, <3>2, <4>1, <4>2
    <3> QED
      BY <1>12, <3>1, <3>2 DEF n
  <2>9. ASSUME NEW i \in 1..n + 1
        PROVE  /\ m[i].msg \in inserted
               /\ m[i].gone \/ m[i].msg \in files
               /\ \A k \in 1..Len(index) :
                    k > n + 1 - stale[a] => m[i].msg # index[k].msg
    <3>1. CASE i = n + 1
      BY <2>2, <2>4, <2>5, <3>1
    <3>2. CASE i # n + 1
      <4>1. i \in 1..n /\ m[i] = mem[a][i]
        BY <1>12, <2>2, <3>2 DEF n
      <4>2. \A k \in 1..Len(index) : k > n + 1 - stale[a] => k > n - stale[a]
        BY <1>12 DEF n
      <4> QED
        BY <1>4, <4>1, <4>2 DEF Remembers, n
    <3> QED
      BY <3>1, <3>2
  <2>10. Remembers(a)'
    <3>1. mem'[a] = m /\ Len(m) = n + 1 /\ stale'[a] = stale[a]
      BY <1>6, <1>13, <2>2
    <3>2. \A i, j \in 1..Len(mem'[a]) : mem'[a][i].msg = mem'[a][j].msg => i = j
      BY <2>8, <3>1
    <3>3. \A i \in 1..Len(mem'[a]) :
            /\ mem'[a][i].msg \in inserted'
            /\ mem'[a][i].gone \/ mem'[a][i].msg \in files'
      BY <1>13, <2>9, <3>1
    <3>4. \A i \in 1..Len(mem'[a]) : \A k \in 1..Len(index') :
            k > Len(mem'[a]) - stale'[a] => mem'[a][i].msg # index'[k].msg
      <4> SUFFICES ASSUME NEW i \in 1..Len(m), NEW k \in 1..Len(index),
                          k > Len(m) - stale[a]
                   PROVE  m[i].msg # index[k].msg
        BY <1>13, <3>1
      <4>1. i \in 1..n + 1 /\ k > n + 1 - stale[a]
        <5> DEFINE l == Len(m)
        <5>1. l = n + 1 /\ i \in 1..l /\ k > l - stale[a]
          BY <3>1
        <5>2. n \in Nat /\ stale[a] \in Nat /\ k \in Nat /\ i \in Nat
          BY <1>12
        <5> HIDE DEF l, n
        <5> QED
          BY <5>1, <5>2
      <4> QED
        BY <2>9, <4>1
    <3> QED
      BY <3>2, <3>3, <3>4 DEF Remembers
  <2> QED
    BY <1>3, <1>8, <1>9, <1>11, <1>18, <2>7, <2>10, StepKeeps
<1>20. CASE r.op # "a"
  <2>1. /\ Len(m) = Len(mem[a])
        /\ \A i \in 1..Len(mem[a]) :
             m[i].msg = mem[a][i].msg /\ (mem[a][i].gone => m[i].gone)
    BY <1>1, <1>5, <1>20, AfterOther
  <2> HIDE DEF m, r
  <2>2. Replayed(a)'
    <3>1. Len(m) - stale[a] = info + Adds(changes, pos[a] + 1)
      BY <1>12, <1>14, <1>15, <1>16, <1>20, <2>1
    <3> QED
      BY <1>2, <1>5, <1>6, <1>12, <1>13, <1>15, <1>17, <3>1 DEF Replayed
  <2>3. Remembers(a)'
    BY <1>4, <1>6, <1>13, <2>1 DEF Remembers
  <2> QED
    BY <1>3, <1>8, <1>9, <1>11, <1>18, <2>2, <2>3, StepKeeps
<1> QED
  BY <1>19, <1>20

\* No record is blank, and each 'a' record has its entry.
LEMMA SyncErrorLog ==
  ASSUME LInv, NEW a \in Agents
  PROVE  ~SyncSwallow(a) /\ ~SyncBlankEnd(a) /\ ~SyncError(a)
<1>1. ~SyncSwallow(a) /\ ~SyncBlankEnd(a)
  BY DEF LInv, Orderly, SyncSwallow, SyncBlankEnd, Blank
<1>2. ~SyncError(a)
  <2> SUFFICES ASSUME SyncError(a) PROVE FALSE
    OBVIOUS
  <2> QED
    BY AtRecord DEF SyncError
<1> QED
  BY <1>1, <1>2

\* No rlock is old in an orderly run, and an open database has one.
LEMMA NoOldRlocks ==
  ASSUME LInv, NEW a \in Agents
  PROVE  OldRlocks(a) = {} /\ FreshRlocks(a) = rlock \ {a}
<1>1. ASSUME NEW b \in rlock PROVE ~(age[b] >= RlockTimeout)
  <2>1. b \in Agents /\ clock \in 0..MaxTime /\ MaxTime \in Nat
    BY ConstantsAssumption DEF LInv, IInv, TypeOK, LocksOK, BoundsOK
  <2>2. age[b] <= clock /\ MaxTime < RlockTimeout
    BY <2>1 DEF LInv, Session, Orderly
  <2>3. age[b] \in Nat
    BY <2>1, Natural DEF LInv, IInv
  <2> QED
    BY <2>1, <2>2, <2>3 DEF RlockTimeout
<1> QED
  BY <1>1 DEF OldRlocks, FreshRlocks

LEMMA SyncEndLog ==
  ASSUME LInv, IInv', NEW a \in Agents, SyncEnd(a)
  PROVE  LInv'
<1>1. TypeOK /\ Session(a) /\ SessionOK
  BY DEF LInv, IInv
<1>2. /\ pc[a] = "apply" /\ pos[a] >= Len(changes)
      /\ UNCHANGED <<disk, age, ret, arg, memory, clock, inserted, pos>>
  BY DEF SyncEnd, locals, history, bounds
<1>3. Alone(a) /\ DiskInv(pc[a], a)
  BY <1>2, ActiveAlone DEF Quiescent
<1>4. isRead[a] /\ Replayed(a) /\ Remembers(a) /\ Meant(a) /\ pc[a] \in Syncing
  BY <1>1, <1>2 DEF SessionOK, Syncing, LInv
<1>5. OldRlocks(a) = {} /\ FreshRlocks(a) = rlock \ {a}
  BY NoOldRlocks
<1>6. rlock' = rlock
  BY <1>5 DEF SyncEnd
<1>7. pos[a] = Len(changes) /\ changeSize[a] = Len(changes)
  <2>1. pos[a] <= Len(changes) /\ changeSize[a] = Len(changes)
    BY <1>2, <1>4 DEF Replayed, Where
  <2> QED
    BY <1>1, <1>2, <2>1, Natural
<1>8. a \in rlock'
  BY <1>1, <1>4, <1>6 DEF Session
<1>9. "apply" \in Calm /\ "apply" \notin Inserting
  BY DEF Calm, PCs, Syncing, Inserting
<1>10. CASE Return(a)
  <2>1. Goto(a, "unlock")
    BY <1>4, <1>10, Returns
  <2>2. StepOf(a) /\ pc'[a] = "unlock"
    BY <1>1, <1>2, <1>6, <2>1, Moves
  <2>3. /\ "unlock" \in Calm /\ "unlock" \in PCs
        /\ "unlock" \notin Verifying \cup {"restart", "dead", "r_index", "r_info"}
        /\ "unlock" \notin Syncing \cup Inserting
    BY DEF Calm, PCs, Inserting, Exclusive, Verifying, Syncing
  <2>4. ~Compacting(a)' /\ Where(a)' = Where(a)
    BY <1>2, <1>7, <2>2 DEF Compacting, Where, memory
  <2>5. Session(a)'
    BY <1>2, <1>8, <1>9, <2>2, <2>3, <2>4, MovedSession
  <2> QED
    BY <1>2, <1>3, <1>9, <2>2, <2>3, <2>4, <2>5, QuietStep
<1>11. CASE ~Return(a)
  <2> DEFINE l == IF needRewrite[a] THEN "c_files" ELSE "c_info"
  <2>1. ~(numChanges[a] < Threshold) /\ rlock \ {a} = {} /\ Goto(a, l)
    BY <1>5, <1>11 DEF SyncEnd
  <2>2. l \in {"c_files", "c_info"} /\ (l = "c_info" => ~needRewrite[a])
    BY <1>1 DEF TypeOK, MemoryOK
  <2> HIDE DEF l
  <2>3. StepOf(a) /\ pc'[a] = l
    BY <1>1, <1>2, <1>6, <2>1, Moves
  <2>4. numChanges[a] >= Threshold
    BY <1>1, <2>1, Natural, ConstantsAssumption
  <2>5. \A b \in Agents : isRead[b] => a = b
    BY <2>1 DEF LInv, Session
  <2>6. /\ l \in PCs /\ l \in Syncing /\ Compacting(a)'
        /\ l \notin Verifying \cup {"restart", "dead", "r_index", "r_info"}
    BY <2>2, <2>3 DEF PCs, Verifying, Syncing, Compacting
  <2>7. ret'[a] = "unlock"
    BY <1>1, <1>2, <1>4 DEF Session
  <2>8. Session(a)'
    BY <1>2, <1>8, <1>9, <2>3, <2>5, <2>6, <2>7, MovedSession
  <2>9. CASE l = "c_files"
    <3>1. "c_files" \in Calm /\ Where(a)' = Where(a)
      BY <1>2, <1>7, <2>3, <2>9 DEF Calm, PCs, Syncing, Inserting, Where, memory
    <3> QED
      BY <1>2, <1>3, <1>9, <2>3, <2>4, <2>8, <2>9, <3>1, QuietStep
  <2>10. CASE l = "c_info"
    <3>1. /\ index' = index /\ info' = info /\ changes' = changes /\ files' = files
          /\ inserted' = inserted /\ mem' = mem /\ stale' = stale /\ isRead' = isRead
          /\ changeSize' = changeSize /\ numChanges' = numChanges
      BY <1>2 DEF disk, memory
    <3>2. Len(changes) \in Nat
      BY <1>1, Natural
    <3>3. Extends
      <4>1. Numbered(changes, info) /\ Len(index) = Counted /\ Len(index) \in Nat
        BY <1>1, <1>2, <1>3, Natural DEF DiskInv, Counts, Inserting
      <4> QED
        BY <3>1, <3>2, <4>1 DEF Extends
    <3>4. Len(index) = Len(mem[a]) - stale[a]
      <4>1. Len(mem[a]) - stale[a] = info + Adds(changes, Len(changes))
        BY <1>2, <1>4, <1>7 DEF Replayed, Where
      <4>2. Len(index) = info + Adds(changes, Len(changes))
        BY <1>2, <1>3 DEF DiskInv, Counts, Counted, Inserting
      <4> QED
        BY <4>1, <4>2
    <3>5. Counts(pc[a], a)'
      <4>1. Numbered(changes, info)'
        BY <1>2, <1>3, <3>1 DEF DiskInv, Counts, Numbered
      <4> QED
        BY <2>3, <2>10, <3>1, <3>4, <4>1 DEF Counts, Inserting
    <3>6. Entries(pc[a], a)'
      BY <1>2, <1>3, <2>3, <2>10, <3>1 DEF DiskInv, Entries, Inserting
    <3>7. Replayed(a)'
      <4>1. Where(a)' = Where(a)
        BY <1>2, <1>7, <2>3, <2>10, <3>1 DEF Where
      <4> QED
        BY <1>4, <1>7, <2>3, <2>4, <2>10, <3>1, <4>1 DEF Replayed
    <3>8. Remembers(a)'
      BY <1>4, <3>1 DEF Remembers
    <3>9. Meant(a)'
      <4>1. ~needRewrite[a] /\ (stale[a] = 0 => AtIndex(a))
        BY <1>4, <2>2, <2>10 DEF Meant
      <4> QED
        BY <2>3, <2>10, <3>1, <4>1 DEF Meant, AtIndex
    <3> QED
      BY <1>3, <2>3, <2>8, <3>3, <3>5, <3>6, <3>7, <3>8, <3>9, StepKeeps DEF DiskInv
  <2> QED
    BY <2>2, <2>9, <2>10
<1> QED
  BY <1>10, <1>11

-----------------------------------------------------------------------------
(* A compaction: nobody else has the database open.                        *)

LEMMA CompactFilesLog ==
  ASSUME LInv, IInv', NEW a \in Agents, CompactFiles(a)
  PROVE  LInv'
<1>1. TypeOK /\ Session(a) /\ SessionOK
  BY DEF LInv, IInv
<1>2. /\ pc[a] = "c_files" /\ Goto(a, "c_index")
      /\ files' = files \ {mem[a][i].msg : i \in 1..Len(mem[a]) \ LiveAt(mem[a])}
      /\ UNCHANGED <<index, info, changes, rlock, age, ret, arg, memory, clock, inserted>>
  BY DEF CompactFiles, locals, history, bounds, locks
<1>3. Alone(a) /\ DiskInv(pc[a], a) /\ Compacting(a)
  BY <1>2, ActiveAlone DEF Quiescent, Compacting
<1>4. isRead[a] /\ Replayed(a) /\ Remembers(a) /\ Meant(a) /\ pc[a] \in Syncing
  BY <1>1, <1>2 DEF SessionOK, Syncing, LInv
<1>5. StepOf(a) /\ pc'[a] = "c_index"
  BY <1>1, <1>2, Moves
<1>6. /\ "c_index" \in PCs /\ "c_files" \notin Inserting
      /\ "c_index" \notin Verifying \cup {"restart", "dead", "r_index", "r_info"}
  BY DEF PCs, Verifying, Syncing, Inserting
<1>7. Session(a)'
  BY <1>1, <1>2, <1>3, <1>4, <1>5, <1>6, MovedSession DEF Session
<1>8. /\ mem' = mem /\ stale' = stale /\ changeSize' = changeSize
      /\ numChanges' = numChanges
  BY <1>2 DEF memory
<1>9. DiskInv(pc[a], a)'
  <2>1. Counts(pc[a], a)'
    BY <1>2, <1>3, <1>5, <1>8 DEF DiskInv, Counts, Counted, Numbered, Inserting
  <2>2. Entries(pc[a], a)'
    BY <1>2, <1>3, <1>5 DEF DiskInv, Entries, Inserting
  <2> QED
    BY <2>1, <2>2 DEF DiskInv
<1>10. Replayed(a)'
  <2>1. Where(a)' = Where(a) /\ Compacting(a)'
    BY <1>2, <1>5, <1>8 DEF Where, Compacting
  <2> QED
    BY <1>2, <1>3, <1>4, <1>5, <1>8, <2>1 DEF Replayed
<1>11. Remembers(a)'
  <2>1. ASSUME NEW i \in 1..Len(mem[a])
        PROVE  mem[a][i].gone \/ mem[a][i].msg \in files'
    <3> SUFFICES ASSUME ~mem[a][i].gone PROVE mem[a][i].msg \in files'
      OBVIOUS
    <3>1. mem[a][i].msg \in files
      BY <1>4 DEF Remembers
    <3>2. \A j \in 1..Len(mem[a]) : mem[a][j].msg = mem[a][i].msg => j = i
      BY <1>4 DEF Remembers
    <3>3. \A j \in 1..Len(mem[a]) \ LiveAt(mem[a]) : mem[a][j].msg # mem[a][i].msg
      BY <3>2 DEF LiveAt
    <3> QED
      BY <1>2, <3>1, <3>3
  <2> QED
    BY <1>2, <1>4, <1>8, <2>1 DEF Remembers
<1>12. Meant(a)'
  <2>1. Where(a)' = Where(a) /\ needRewrite' = needRewrite
    BY <1>2, <1>5, <1>8 DEF Where, memory
  <2> QED
    BY <1>2, <1>4, <1>5, <1>8, <2>1 DEF Meant, AtLog, AtIndex, View
<1> QED
  BY <1>3, <1>5, <1>7, <1>9, <1>10, <1>11, <1>12, StepKeeps

LEMMA CompactIndexLog ==
  ASSUME LInv, IInv', NEW a \in Agents, CompactIndex(a)
  PROVE  LInv'
<1> DEFINE L == LiveAt(mem[a])
           n == Cardinality(L)
<1>1. TypeOK /\ Session(a) /\ SessionOK
  BY DEF LInv, IInv
<1>2. /\ pc[a] = "c_index" /\ Goto(a, "c_info")
      /\ \E f \in Ascending(L) : index' = [i \in 1..n |-> mem[a][f[i]]]
      /\ stale' = [stale EXCEPT ![a] = Len(mem[a]) - n]
      /\ UNCHANGED <<info, changes, files, rlock, age, ret, arg, isRead, mem, changeSize,
                     numChanges, needRewrite, clock, inserted>>
  BY DEF CompactIndex, locals, history, bounds, locks
<1>3. Alone(a) /\ DiskInv(pc[a], a) /\ Compacting(a)
  BY <1>2, ActiveAlone DEF Quiescent, Compacting
<1>4. isRead[a] /\ Replayed(a) /\ Remembers(a) /\ Meant(a) /\ pc[a] \in Syncing
  BY <1>1, <1>2 DEF SessionOK, Syncing, LInv
<1>5. pc'[a] = "c_info" /\ \A b \in Agents \ {a} : pc'[b] = pc[b]
  BY <1>1, <1>2, Gone
<1>6. stale'[a] = Len(mem[a]) - n /\ \A b \in Agents \ {a} : stale'[b] = stale[b]
  BY <1>1, <1>2 DEF TypeOK, MemoryOK
<1>7. StepOf(a)
  BY <1>2, <1>5, <1>6 DEF StepOf
<1>8. n \in Nat /\ n <= Len(mem[a]) /\ L \subseteq 1..Len(mem[a]) /\ Len(mem[a]) \in Nat
  BY <1>1, Natural, LiveIndices
<1> HIDE DEF n
<1>9. PICK f \in Ascending(L) : index' = [i \in 1..n |-> mem[a][f[i]]]
  BY <1>2
<1>10. \A i \in 1..n : f[i] \in L
  BY <1>9 DEF Ascending, n
<1>11. \A i, j \in 1..n : f[i] = f[j] => i = j
  <2>1. \A i, j \in 1..n : i < j => f[i] < f[j]
    BY <1>9 DEF Ascending, n
  <2>2. \A i \in 1..n : f[i] \in Nat
    BY <1>8, <1>10
  <2> QED
    BY <1>8, <2>1, <2>2
<1>12. Len(index') = n /\ \A i \in 1..n : index'[i] = mem[a][f[i]]
  <2>1. DOMAIN index' = 1..n
    BY <1>9
  <2>2. Len(index') \in Nat /\ DOMAIN index' = 1..Len(index')
    BY DEF IInv, TypeOK, DiskOK
  <2> QED
    BY <1>8, <1>9, <2>1, <2>2
<1>13. \A i \in 1..n : /\ ~index'[i].gone /\ index'[i].msg \in inserted
                       /\ index'[i].msg \in files
  <2> SUFFICES ASSUME NEW i \in 1..n
               PROVE  ~mem[a][f[i]].gone /\ mem[a][f[i]].msg \in inserted
                      /\ mem[a][f[i]].msg \in files
    BY <1>12
  <2>1. f[i] \in 1..Len(mem[a]) /\ ~mem[a][f[i]].gone
    BY <1>10 DEF LiveAt
  <2> QED
    BY <1>4, <2>1 DEF Remembers
<1>14. Session(a)'
  <2>1. pc'[a] \notin Verifying \cup {"restart"} \cup Reading /\ pc'[a] \notin Inserting
        /\ pc'[a] # "r_index"
    BY <1>5 DEF Verifying, Reading, Inserting
  <2>2. arg[a] = NoMsg /\ \A b \in Agents : isRead[b] => a = b
    BY <1>1, <1>2, <1>3 DEF Session, Inserting
  <2> QED
    BY <1>1, <1>2, <1>4, <2>1, <2>2 DEF Session
<1>15. Len(mem[a]) - stale'[a] = n
  BY <1>6, <1>8
<1>16. DiskInv(pc[a], a)'
  <2>1. Counts(pc[a], a)'
    <3>1. Numbered(changes, info)'
      BY <1>2, <1>3 DEF DiskInv, Counts, Numbered
    <3> QED
      BY <1>2, <1>5, <1>12, <1>15, <3>1 DEF Counts, Inserting
  <2>2. \A i, j \in 1..n : index'[i].msg = index'[j].msg => i = j
    <3> SUFFICES ASSUME NEW i \in 1..n, NEW j \in 1..n, index'[i].msg = index'[j].msg
                 PROVE  i = j
      OBVIOUS
    <3>1. f[i] \in 1..Len(mem[a]) /\ f[j] \in 1..Len(mem[a])
      BY <1>8, <1>10
    <3>2. f[i] = f[j]
      BY <1>4, <1>12, <3>1 DEF Remembers
    <3> QED
      BY <1>11, <3>2
  <2>3. Entries(pc[a], a)'
    BY <1>2, <1>5, <1>12, <1>13, <2>2 DEF Entries, Inserting
  <2> QED
    BY <2>1, <2>3 DEF DiskInv
<1>17. Replayed(a)'
  <2>1. Where(a)' = Where(a) /\ Compacting(a)'
    BY <1>2, <1>5 DEF Where, Compacting
  <2> QED
    BY <1>2, <1>3, <1>4, <1>5, <2>1 DEF Replayed
<1>18. Remembers(a)'
  <2>1. \A k \in 1..Len(index') : ~(k > Len(mem[a]) - stale'[a])
    BY <1>8, <1>12, <1>15
  <2> QED
    BY <1>2, <1>4, <2>1 DEF Remembers
<1>19. Meant(a)'
  <2> SUFFICES ASSUME stale'[a] = 0 PROVE AtIndex(a)'
    BY <1>5 DEF Meant
  <2>1. n = Len(mem[a])
    BY <1>8, <1>15
  <2>2. \A i \in 1..n : f[i] \in 1..n
    BY <1>8, <1>10, <2>1
  <2>3. \A i, j \in 1..n : i < j => f[i] < f[j]
    BY <1>9 DEF Ascending, n
  <2>4. \A i \in 1..n : f[i] = i
    BY <1>8, <2>2, <2>3, Increasing
  <2>5. Len(index') = n /\ \A i \in 1..n : index'[i] = mem[a][i]
    BY <1>12, <2>4
  <2>6. index' \in Seq(Entry)
    BY DEF IInv, TypeOK, DiskOK
  <2>7. /\ Len(SubSeq(index', 1, n)) = n
        /\ \A i \in 1..n : SubSeq(index', 1, n)[i] = mem[a][i]
    BY <1>8, <2>5, <2>6
  <2> QED
    BY <1>2, <2>1, <2>7 DEF AtIndex, SameButKeys
<1> QED
  BY <1>3, <1>7, <1>14, <1>16, <1>17, <1>18, <1>19, StepKeeps

LEMMA CompactInfoLog ==
  ASSUME LInv, IInv', NEW a \in Agents, CompactInfo(a)
  PROVE  LInv'
<1>1. TypeOK /\ Session(a) /\ SessionOK
  BY DEF LInv, IInv
<1>2. /\ pc[a] = "c_info" /\ Goto(a, "c_unlink") /\ info' = Len(mem[a]) - stale[a]
      /\ UNCHANGED <<index, changes, files, rlock, age, ret, arg, memory, clock, inserted>>
  BY DEF CompactInfo, locals, history, bounds, locks
<1>3. Alone(a) /\ DiskInv(pc[a], a) /\ Compacting(a)
  BY <1>2, ActiveAlone DEF Quiescent, Compacting
<1>4. isRead[a] /\ Replayed(a) /\ Remembers(a) /\ Meant(a) /\ pc[a] \in Syncing
  BY <1>1, <1>2 DEF SessionOK, Syncing, LInv
<1>5. StepOf(a) /\ pc'[a] = "c_unlink"
  BY <1>1, <1>2, Moves
<1>6. /\ "c_unlink" \in PCs /\ "c_info" \notin Inserting
      /\ "c_unlink" \notin Verifying \cup {"restart", "dead", "r_index", "r_info"}
  BY DEF PCs, Verifying, Syncing, Inserting
<1>7. Session(a)'
  BY <1>1, <1>2, <1>3, <1>4, <1>5, <1>6, MovedSession DEF Session
<1>8. /\ mem' = mem /\ stale' = stale /\ changeSize' = changeSize
      /\ numChanges' = numChanges
  BY <1>2 DEF memory
<1>9. DiskInv(pc[a], a)'
  <2>1. Counts(pc[a], a)'
    BY <1>2, <1>3, <1>5, <1>8 DEF DiskInv, Counts, Inserting
  <2>2. Entries(pc[a], a)'
    BY <1>2, <1>3, <1>5 DEF DiskInv, Entries, Inserting
  <2> QED
    BY <2>1, <2>2 DEF DiskInv
<1>10. Replayed(a)'
  <2>1. Where(a)' = Where(a) /\ Compacting(a)'
    BY <1>2, <1>5, <1>8 DEF Where, Compacting
  <2> QED
    BY <1>2, <1>3, <1>4, <1>5, <1>8, <2>1 DEF Replayed
<1>11. Remembers(a)'
  BY <1>2, <1>4, <1>8 DEF Remembers
<1>12. Meant(a)'
  BY <1>2, <1>4, <1>5, <1>8 DEF Meant, AtIndex
<1> QED
  BY <1>3, <1>5, <1>7, <1>9, <1>10, <1>11, <1>12, StepKeeps

LEMMA CompactUnlinkLog ==
  ASSUME LInv, IInv', NEW a \in Agents, CompactUnlink(a)
  PROVE  LInv'
<1>1. TypeOK /\ Session(a) /\ SessionOK
  BY DEF LInv, IInv
<1>2. /\ pc[a] = "c_unlink" /\ changes' = <<>>
      /\ UNCHANGED <<index, info, files, rlock, age, ret, arg, isRead, mem, stale,
                     clock, inserted>>
  BY DEF CompactUnlink, locals, history, bounds, locks
<1>3. Alone(a) /\ DiskInv(pc[a], a) /\ Compacting(a)
  BY <1>2, ActiveAlone DEF Quiescent, Compacting
<1>4. isRead[a] /\ Replayed(a) /\ Remembers(a) /\ Meant(a) /\ pc[a] \in Syncing
  BY <1>1, <1>2 DEF SessionOK, Syncing, LInv
<1>5. Goto(a, "unlock")
  BY <1>4, Returns DEF CompactUnlink
<1>6. pc'[a] = "unlock" /\ \A b \in Agents \ {a} : pc'[b] = pc[b]
  BY <1>1, <1>5, Gone
<1>7. changes # <<>>
  <2>1. numChanges[a] >= Threshold /\ numChanges[a] = Len(changes)
    BY <1>2, <1>3, <1>4 DEF Replayed, Where
  <2>2. Threshold \in Nat \ {0} /\ numChanges[a] \in Nat
    BY <1>1, ConstantsAssumption, Natural
  <2> QED
    BY <2>1, <2>2
<1>8. /\ changeSize' = [changeSize EXCEPT ![a] = 0]
      /\ numChanges' = [numChanges EXCEPT ![a] = 0]
      /\ needRewrite' = [needRewrite EXCEPT ![a] = FALSE]
  BY <1>7 DEF CompactUnlink
<1>9. /\ changeSize'[a] = 0 /\ numChanges'[a] = 0
      /\ \A b \in Agents \ {a} :
           /\ changeSize'[b] = changeSize[b] /\ numChanges'[b] = numChanges[b]
           /\ needRewrite'[b] = needRewrite[b]
  BY <1>1, <1>8 DEF TypeOK, MemoryOK
<1>10. StepOf(a)
  BY <1>2, <1>6, <1>9 DEF StepOf
<1>11. Session(a)'
  <2>1. pc'[a] \notin Verifying \cup {"restart"} \cup Reading /\ pc'[a] \notin Inserting
        /\ pc'[a] \notin Syncing /\ ~Compacting(a)' /\ pc'[a] # "r_index"
    BY <1>6 DEF Verifying, Reading, Inserting, Syncing, Compacting
  <2>2. arg[a] = NoMsg
    BY <1>1, <1>2 DEF Session, Inserting
  <2> QED
    BY <1>1, <1>2, <1>4, <2>1, <2>2 DEF Session
<1>12. Len(mem[a]) - stale[a] = info /\ Len(index) = info /\ info \in Nat
  BY <1>1, <1>2, <1>3, Natural DEF DiskInv, Counts
<1>13. Len(changes') = 0 /\ Adds(changes', 0) = 0
  BY <1>2, AddsZero
<1>14. DiskInv(pc[a], a)'
  <2>1. Counts(pc[a], a)'
    <3>1. Numbered(changes, info)'
      BY <1>13 DEF Numbered
    <3>2. Counted' = info
      BY <1>2, <1>12, <1>13 DEF Counted
    <3> QED
      BY <1>2, <1>6, <1>12, <3>1, <3>2 DEF Counts, Inserting
  <2>2. Entries(pc[a], a)'
    BY <1>2, <1>3, <1>6 DEF DiskInv, Entries, Inserting
  <2> QED
    BY <2>1, <2>2 DEF DiskInv
<1>15. Replayed(a)'
  <2>1. Where(a)' = 0 /\ ~Compacting(a)'
    BY <1>6, <1>9 DEF Where, Compacting
  <2>2. Len(mem'[a]) - stale'[a] = info' + Adds(changes', 0)
    BY <1>2, <1>12, <1>13
  <2> QED
    BY <1>6, <1>9, <1>13, <2>1, <2>2 DEF Replayed
<1>16. Remembers(a)'
  BY <1>2, <1>4 DEF Remembers
<1>17. Meant(a)'
  <2> SUFFICES ASSUME stale[a] = 0 PROVE AtLog(a)' /\ AtIndex(a)'
    BY <1>2 DEF Meant
  <2>1. AtIndex(a)'
    BY <1>2, <1>4 DEF Meant, AtIndex
  <2>2. Len(mem[a]) = info
    BY <1>1, <1>12, Natural
  <2>3. View(Where(a))' = SubSeq(index, 1, Len(mem[a]))
    <3>1. Where(a)' = 0
      BY <1>6, <1>9 DEF Where
    <3> QED
      BY <1>2, <2>2, <3>1, ReplayZero DEF View
  <2>4. AtLog(a)'
    BY <1>2, <2>1, <2>3 DEF AtLog, AtIndex
  <2> QED
    BY <2>1, <2>4
<1> QED
  BY <1>3, <1>10, <1>11, <1>14, <1>15, <1>16, <1>17, StepKeeps

LEMMA CompactFailLog ==
  ASSUME LInv, IInv', NEW a \in Agents, CompactFail(a)
  PROVE  LInv'
<1>1. TypeOK /\ Session(a) /\ SessionOK
  BY DEF LInv, IInv
<1>2. /\ pc[a] = "c_files" /\ Return(a)
      /\ UNCHANGED <<disk, rlock, age, ret, arg, memory, clock, inserted>>
  BY DEF CompactFail, locals, history, bounds, locks
<1>3. Alone(a) /\ DiskInv(pc[a], a)
  BY <1>2, ActiveAlone DEF Quiescent
<1>4. isRead[a] /\ pc[a] \in Syncing
  BY <1>1, <1>2 DEF SessionOK, Syncing
<1>5. Goto(a, "unlock")
  BY <1>2, <1>4, Returns
<1>6. StepOf(a) /\ pc'[a] = "unlock"
  BY <1>1, <1>2, <1>5, Moves
<1>7. /\ "unlock" \in Calm /\ "c_files" \in Calm /\ "unlock" \in PCs
      /\ "unlock" \notin Verifying \cup {"restart", "dead", "r_index", "r_info"}
      /\ "unlock" \notin Syncing \cup Inserting /\ "c_files" \notin Inserting
  BY DEF Calm, PCs, Inserting, Exclusive, Verifying, Syncing
<1>8. ~Compacting(a)' /\ Where(a)' = Where(a)
  BY <1>2, <1>6 DEF Compacting, Where, memory
<1>9. Session(a)'
  BY <1>1, <1>2, <1>6, <1>7, <1>8, MovedSession DEF Session
<1> QED
  BY <1>2, <1>3, <1>6, <1>7, <1>8, <1>9, QuietStep

-----------------------------------------------------------------------------
(* An insertion.                                                           *)

\* Agent a, alone, has written to the files: the insertion's step to label l.
LEMMA WriteStep ==
  ASSUME LInv, IInv', NEW a \in Agents, Alone(a), isRead[a],
         pc[a] \notin Syncing \ {"sync"}, NEW l \in {"i_file", "i_log", "sync", "unlock"},
         Goto(a, l), UNCHANGED <<rlock, age, memory, clock>>,
         \A b \in Agents \ {a} : arg'[b] = arg[b],
         Extends, DiskInv(l, a)', ret'[a] = "unlock",
         arg'[a] # NoMsg => arg'[a] \notin inserted' /\ l \in Inserting
  PROVE  LInv'
<1>1. TypeOK /\ Session(a)
  BY DEF LInv, IInv
<1>2. pc'[a] = l /\ \A b \in Agents \ {a} : pc'[b] = pc[b]
  BY <1>1, Gone
<1>3. StepOf(a)
  BY <1>2 DEF StepOf, memory
<1>4. Session(a)'
  <2>1. l \notin Verifying \cup {"restart"} \cup Reading \cup {"r_index"}
    BY DEF Verifying, Reading
  <2>2. ~Compacting(a)'
    BY <1>2 DEF Compacting
  <2>3. a \in rlock /\ age[a] <= clock
    BY <1>1 DEF Session
  <2> QED
    BY <1>2, <2>1, <2>2, <2>3 DEF Session, memory
<1>5. (Replayed(a) /\ Remembers(a) /\ Meant(a))'
  <2>1. l \notin Syncing \ {"sync"}
    BY DEF Syncing
  <2> QED
    BY <1>2, <2>1, MemoryKept DEF memory
<1>6. DiskInv(pc[a], a)'
  BY <1>2 DEF DiskInv, Counts, Entries
<1> QED
  BY <1>3, <1>4, <1>5, <1>6, StepKeeps

LEMMA InsertIndexLog ==
  ASSUME LInv, IInv', NEW a \in Agents, NEW m \in Msgs, InsertIndex(a, m)
  PROVE  LInv' /\ Extends
<1> DEFINE e == [msg |-> m, del |-> FALSE, kw |-> NoKeywords, gone |-> FALSE]
           n == Len(index)
<1>1. TypeOK /\ m \in Msgs
  BY DEF LInv, IInv
<1>2. /\ pc[a] = "idle" /\ isRead[a] /\ m \notin inserted /\ lock = None
      /\ Goto(a, "i_file") /\ ret' = [ret EXCEPT ![a] = "unlock"]
      /\ pos' = [pos EXCEPT ![a] = n] /\ arg' = [arg EXCEPT ![a] = m]
      /\ index' = Append(index, e)
      /\ UNCHANGED <<info, changes, files, rlock, age, memory, inserted, clock>>
  BY DEF InsertIndex, Operation, Idle, Enter, Lock, history
<1>3. Alone(a) /\ DiskInv(pc[a], a)
  BY <1>2, LockAlone DEF Alone
<1>4. ret'[a] = "unlock" /\ pos'[a] = n /\ arg'[a] = m
      /\ \A b \in Agents \ {a} : arg'[b] = arg[b]
  BY <1>1, <1>2 DEF TypeOK, ControlOK
<1>5. n \in Nat /\ index \in Seq(Entry) /\ Len(changes) \in Nat
  BY <1>1, Natural
<1>6. e \in Entry /\ e.msg = m /\ ~e.gone
  BY ConstantsAssumption DEF Entry
<1> HIDE DEF e
<1>7. /\ Len(index') = n + 1 /\ index'[n + 1] = e
      /\ \A i \in 1..n : index'[i] = index[i]
  BY <1>2, <1>5, <1>6
<1>8. n = Counted /\ Numbered(changes, info)
  BY <1>2, <1>3 DEF DiskInv, Counts, Inserting
<1>9. \A i \in 1..n : ~index[i].gone /\ index[i].msg \in inserted /\ index[i].msg \in files
  BY <1>2, <1>3 DEF DiskInv, Entries, Inserting
<1>10. \A i \in 1..n + 1 : i \in 1..n \/ i = n + 1
  BY <1>5
<1>11. Extends
  <2>1. \A k \in 1..Len(index') : (k \in 1..n /\ index'[k] = index[k])
                                  \/ index'[k].msg \notin inserted
    BY <1>2, <1>6, <1>7, <1>10
  <2> QED
    BY <1>2, <1>5, <1>7, <1>8, <2>1 DEF Extends
<1>12. DiskInv("i_file", a)'
  <2>1. Counts("i_file", a)'
    <3>1. Counted' = Counted /\ Numbered(changes, info)'
      BY <1>2, <1>8 DEF Counted, Numbered
    <3> QED
      BY <1>4, <1>6, <1>7, <1>8, <3>1 DEF Counts, Inserting
  <2>2. Entries("i_file", a)'
    <3>1. \A i \in 1..n : index'[i].msg # m
      BY <1>2, <1>7, <1>9
    <3>2. ASSUME NEW i \in 1..n + 1, NEW j \in 1..n + 1, index'[i].msg = index'[j].msg
          PROVE  i = j
      <4>1. CASE i \in 1..n /\ j \in 1..n
        <5>1. index[i].msg = index[j].msg
          BY <1>7, <3>2, <4>1
        <5> QED
          BY <1>3, <4>1, <5>1 DEF DiskInv, Entries
      <4>2. CASE i = n + 1 \/ j = n + 1
        BY <1>6, <1>7, <1>10, <3>1, <3>2, <4>2
      <4> QED
        BY <1>10, <4>1, <4>2
    <3>3. \A i \in 1..n + 1 :
            /\ ~index'[i].gone
            /\ (index'[i].msg \in inserted /\ index'[i].msg \in files) \/ i = n + 1
      BY <1>6, <1>7, <1>9, <1>10
    <3> HIDE DEF n
    <3> QED
      BY <1>2, <1>7, <3>2, <3>3 DEF Entries, Inserting
  <2> QED
    BY <2>1, <2>2 DEF DiskInv
<1>13. "i_file" \in Inserting /\ pc[a] \notin Syncing \ {"sync"}
  BY <1>2 DEF Inserting, Syncing
<1> QED
  BY <1>2, <1>3, <1>4, <1>11, <1>12, <1>13, WriteStep

LEMMA InsertFileLog ==
  ASSUME LInv, IInv', NEW a \in Agents, InsertFile(a)
  PROVE  LInv' /\ Extends
<1>1. TypeOK /\ Session(a) /\ SessionOK
  BY DEF LInv, IInv
<1>2. /\ pc[a] = "i_file" /\ Goto(a, "i_log") /\ files' = files \cup {arg[a]}
      /\ UNCHANGED <<index, info, changes, rlock, age, ret, pos, arg, memory, inserted, clock>>
  BY DEF InsertFile, locals, history, bounds, locks
<1>3. Alone(a) /\ DiskInv(pc[a], a)
  BY <1>2, ActiveAlone DEF Quiescent
<1>4. isRead[a] /\ ret'[a] = "unlock" /\ (arg'[a] # NoMsg => arg'[a] \notin inserted')
  BY <1>1, <1>2 DEF SessionOK, Session, Inserting
<1>5. Extends
  <2>1. /\ Numbered(changes, info) /\ pos[a] = Counted /\ Len(index) = pos[a] + 1
        /\ pos[a] \in Nat /\ Len(changes) \in Nat
    BY <1>1, <1>2, <1>3, Natural DEF DiskInv, Counts, Inserting
  <2> QED
    BY <1>2, <2>1 DEF Extends
<1>6. DiskInv("i_log", a)'
  <2>1. Counts("i_log", a)'
    BY <1>2, <1>3 DEF DiskInv, Counts, Counted, Numbered, Inserting
  <2>2. Entries("i_log", a)'
    BY <1>2, <1>3 DEF DiskInv, Entries, Inserting
  <2> QED
    BY <2>1, <2>2 DEF DiskInv
<1>7. "i_log" \in Inserting /\ pc[a] \notin Syncing \ {"sync"}
  BY <1>2 DEF Inserting, Syncing
<1> QED
  BY <1>2, <1>3, <1>4, <1>5, <1>6, <1>7, WriteStep

LEMMA InsertChangesLog ==
  ASSUME LInv, IInv', NEW a \in Agents, InsertChanges(a)
  PROVE  LInv' /\ Extends
<1> DEFINE r == [op |-> "a", at |-> pos[a] + 1]
           n == Len(changes)
<1>1. TypeOK /\ Session(a) /\ SessionOK
  BY DEF LInv, IInv
<1>2. /\ pc[a] = "i_log" /\ Goto(a, "sync") /\ changes' = Append(changes, r)
      /\ inserted' = inserted \cup {arg[a]} /\ arg' = [arg EXCEPT ![a] = NoMsg]
      /\ UNCHANGED <<index, info, files, rlock, age, ret, memory, clock>>
  BY DEF InsertChanges, locals, history, bounds, locks
<1>3. Alone(a) /\ DiskInv(pc[a], a)
  BY <1>2, ActiveAlone DEF Quiescent
<1>4. isRead[a] /\ ret'[a] = "unlock"
  BY <1>1, <1>2 DEF SessionOK, Session, Inserting
<1>5. arg'[a] = NoMsg /\ \A b \in Agents \ {a} : arg'[b] = arg[b]
  BY <1>1, <1>2 DEF TypeOK, ControlOK
<1>6. n \in Nat /\ changes \in Seq(Record) /\ pos[a] \in Nat /\ info \in Nat
      /\ Len(index) \in Nat
  BY <1>1, Natural
<1>7. r \in Record /\ r.op = "a" /\ r.at = pos[a] + 1
  BY <1>6 DEF Record
<1> HIDE DEF r
<1>8. /\ Len(changes') = n + 1 /\ changes'[n + 1] = r
      /\ \A i \in 1..n : changes'[i] = changes[i]
  BY <1>2, <1>6, <1>7
<1>10. pos[a] = Counted /\ Len(index) = pos[a] + 1 /\ Numbered(changes, info)
       /\ index[pos[a] + 1].msg = arg[a]
  BY <1>2, <1>3 DEF DiskInv, Counts, Inserting
<1>9. Extends
  BY <1>2, <1>6, <1>8, <1>10 DEF Extends
<1>11. \A k \in 0..n : Adds(changes', k) = Adds(changes, k)
  <2> SUFFICES ASSUME NEW k \in 0..n PROVE Adds(changes', k) = Adds(changes, k)
    OBVIOUS
  <2>1. k \in Nat /\ \A i \in 1..k : changes'[i] = changes[i]
    BY <1>6, <1>8
  <2> QED
    BY <2>1, AddsSame
<1>12. Adds(changes', n + 1) = Adds(changes, n) + 1
  <2>1. Adds(changes', n + 1) = Adds(changes', n)
                               + (IF changes'[n + 1].op = "a" THEN 1 ELSE 0)
    BY <1>6, AddsNext
  <2>2. changes'[n + 1].op = "a"
    BY <1>7, <1>8
  <2>3. Adds(changes', n) = Adds(changes, n)
    BY <1>6, <1>11
  <2> QED
    BY <2>1, <2>2, <2>3
<1>13. Adds(changes, n) \in Nat
  BY <1>6, AddsFinite
<1>14. info + Adds(changes', n + 1) = pos[a] + 1
  <2> DEFINE A == Adds(changes, n)
             B == Adds(changes', n + 1)
             p == pos[a]
  <2>1. A \in Nat /\ B = A + 1 /\ p = info + A /\ info \in Nat
    BY <1>6, <1>10, <1>12, <1>13 DEF Counted
  <2> HIDE DEF A, B, p
  <2>2. info + B = p + 1
    BY <2>1
  <2> QED
    BY <2>2 DEF A, B, p
<1>15. DiskInv("sync", a)'
  <2>1. Counts("sync", a)'
    <3>1. Numbered(changes, info)'
      <4> SUFFICES ASSUME NEW k \in 1..n + 1, changes'[k].op = "a"
                   PROVE  changes'[k].at = info + Adds(changes', k)
        BY <1>2, <1>8 DEF Numbered
      <4>1. CASE k = n + 1
        BY <1>7, <1>8, <1>14, <4>1
      <4>2. CASE k # n + 1
        <5>1. k \in 1..n /\ k \in 0..n
          BY <1>6, <4>2
        <5> QED
          BY <1>8, <1>10, <1>11, <5>1 DEF Numbered
      <4> QED
        BY <4>1, <4>2
    <3>2. Counted' = pos[a] + 1
      BY <1>2, <1>8, <1>14 DEF Counted
    <3> QED
      BY <1>2, <1>10, <3>1, <3>2 DEF Counts, Inserting
  <2>2. Entries("sync", a)'
    <3>1. arg[a] \in files
      BY <1>2, <1>3 DEF DiskInv, Entries
    <3>2. \A i \in 1..Len(index) :
            /\ ~index[i].gone
            /\ (index[i].msg \in inserted /\ index[i].msg \in files) \/ i = Len(index)
      BY <1>2, <1>3 DEF DiskInv, Entries, Inserting
    <3>3. index[Len(index)].msg = arg[a]
      BY <1>10
    <3>4. \A i, j \in 1..Len(index) : index[i].msg = index[j].msg => i = j
      BY <1>3 DEF DiskInv, Entries
    <3> QED
      BY <1>2, <3>1, <3>2, <3>3, <3>4 DEF Entries, Inserting
  <2> QED
    BY <2>1, <2>2 DEF DiskInv
<1>16. pc[a] \notin Syncing \ {"sync"}
  BY <1>2 DEF Syncing
<1> QED
  BY <1>2, <1>3, <1>4, <1>5, <1>9, <1>15, <1>16, WriteStep

LEMMA InsertFailLog ==
  ASSUME LInv, IInv', NEW a \in Agents, InsertFail(a)
  PROVE  LInv' /\ Extends
<1> DEFINE n == pos[a]
<1>1. TypeOK /\ Session(a) /\ SessionOK
  BY DEF LInv, IInv
<1>2. /\ pc[a] \in Inserting /\ Goto(a, "unlock")
      /\ index' = SubSeq(index, 1, IF n < Len(index) THEN n ELSE Len(index))
      /\ files' = files \ {arg[a]} /\ arg' = [arg EXCEPT ![a] = NoMsg]
      /\ UNCHANGED <<info, changes, rlock, age, ret, memory, clock, inserted>>
  BY DEF InsertFail, locals, history, bounds, locks, Inserting
<1>3. Alone(a) /\ DiskInv(pc[a], a)
  BY <1>2, ActiveAlone DEF Quiescent, Inserting
<1>4. isRead[a] /\ ret'[a] = "unlock" /\ arg[a] \in Msgs
  BY <1>1, <1>2 DEF SessionOK, Session, Inserting
<1>5. arg'[a] = NoMsg /\ \A b \in Agents \ {a} : arg'[b] = arg[b]
  BY <1>1, <1>2 DEF TypeOK, ControlOK
<1>6. arg[a] \notin inserted
  BY <1>1, <1>4, ConstantsAssumption DEF Session
<1>7. n \in Nat /\ index \in Seq(Entry) /\ Len(index) = n + 1
      /\ n = Counted /\ Numbered(changes, info) /\ index[n + 1].msg = arg[a]
  BY <1>1, <1>2, <1>3, Natural DEF DiskInv, Counts, Inserting
<1>8. Len(index') = n /\ \A i \in 1..n : i \in 1..Len(index) /\ index'[i] = index[i]
  BY <1>2, <1>7
<1>9. Extends
  <2>1. Len(changes) \in Nat
    BY <1>1, Natural
  <2> QED
    BY <1>2, <1>6, <1>7, <1>8, <2>1 DEF Extends
<1>10. DiskInv("unlock", a)'
  <2>1. Counts("unlock", a)'
    <3>1. Counted' = Counted /\ Numbered(changes, info)'
      BY <1>2, <1>7 DEF Counted, Numbered
    <3> QED
      BY <1>7, <1>8, <3>1 DEF Counts, Inserting
  <2>2. ASSUME NEW i \in 1..n
        PROVE  ~index[i].gone /\ index[i].msg \in inserted /\ index[i].msg \in files
    <3>1. i \in 1..Len(index) /\ i # Len(index)
      BY <1>7
    <3> QED
      BY <1>2, <1>3, <3>1 DEF DiskInv, Entries, Inserting
  <2>3. \A i, j \in 1..n : index[i].msg = index[j].msg => i = j
    BY <1>3, <1>8 DEF DiskInv, Entries
  <2>4. Entries("unlock", a)'
    <3>1. \A i \in 1..n : index[i].msg \in files'
      BY <1>2, <1>6, <2>2
    <3> HIDE DEF n
    <3> QED
      BY <1>2, <1>8, <2>2, <2>3, <3>1 DEF Entries, Inserting
  <2> QED
    BY <2>1, <2>4 DEF DiskInv
<1>11. pc[a] \notin Syncing \ {"sync"}
  BY <1>2 DEF Syncing, Inserting
<1> QED
  BY <1>2, <1>3, <1>4, <1>5, <1>9, <1>10, <1>11, WriteStep

-----------------------------------------------------------------------------
(* Operations that append to the log.                                      *)

LEMMA AppendLogLog ==
  ASSUME LInv, IInv', NEW a \in Agents, NEW rs \in Seq(Record),
         \A i \in 1..Len(rs) : rs[i].op # "a",
         Idle(a), isRead[a], AppendLog(a, rs)
  PROVE  LInv' /\ Extends
<1> DEFINE n == Len(changes)
           k == Len(rs)
<1>1. TypeOK /\ Session(a)
  BY DEF LInv, IInv
<1>2. /\ pc[a] = "idle" /\ lock = None /\ Goto(a, "sync")
      /\ ret' = [ret EXCEPT ![a] = "unlock"] /\ changes' = changes \o rs
      /\ UNCHANGED <<index, info, files, rlock, age, arg, memory, inserted, clock>>
  BY DEF AppendLog, Idle, Enter, Lock, locals
<1>3. Alone(a) /\ DiskInv(pc[a], a)
  BY <1>2, LockAlone DEF Alone
<1>4. ret'[a] = "unlock" /\ arg'[a] = NoMsg
  BY <1>1, <1>2 DEF TypeOK, ControlOK, Session, Inserting
<1>5. n \in Nat /\ changes \in Seq(Record) /\ k \in Nat
  BY <1>1, Natural
<1>6. Len(changes') = n + k /\ (\A i \in 1..n : changes'[i] = changes[i])
      /\ \A i \in n + 1..n + k : changes'[i] = rs[i - n]
  BY <1>2, <1>5
<1>7. \A i \in n + 1..n + k : changes'[i].op # "a"
  <2>1. \A i \in n + 1..n + k : i - n \in 1..k
    BY <1>5
  <2> QED
    BY <1>6, <2>1
<1>8. Extends
  <2>1. Numbered(changes, info) /\ Len(index) = Counted /\ Len(index) \in Nat
    BY <1>1, <1>2, <1>3, Natural DEF DiskInv, Counts, Inserting
  <2> QED
    BY <1>2, <1>5, <1>6, <2>1 DEF Extends
<1>9. \A j \in 0..n : Adds(changes', j) = Adds(changes, j)
  <2> SUFFICES ASSUME NEW j \in 0..n PROVE Adds(changes', j) = Adds(changes, j)
    OBVIOUS
  <2>1. j \in Nat /\ \A i \in 1..j : changes'[i] = changes[i]
    BY <1>5, <1>6
  <2> QED
    BY <2>1, AddsSame
<1>10. Adds(changes', n + k) = Adds(changes', n)
  <2>1. n + k \in Nat /\ n <= n + k
    BY <1>5
  <2> QED
    BY <1>5, <1>7, <2>1, AddsNone
<1>11. Len(index) = Counted /\ Numbered(changes, info)
  BY <1>2, <1>3 DEF DiskInv, Counts, Inserting
<1>12. DiskInv("sync", a)'
  <2>1. Counts("sync", a)'
    <3>1. Numbered(changes, info)'
      <4> SUFFICES ASSUME NEW j \in 1..n + k, changes'[j].op = "a"
                   PROVE  changes'[j].at = info + Adds(changes', j)
        BY <1>2, <1>6 DEF Numbered
      <4>1. j \in 1..n /\ j \in 0..n
        BY <1>5, <1>7
      <4> QED
        BY <1>6, <1>9, <1>11, <4>1 DEF Numbered
    <3>2. n \in 0..n
      BY <1>5
    <3>3. Counted' = Counted
      BY <1>2, <1>6, <1>9, <1>10, <3>2 DEF Counted
    <3> QED
      BY <1>2, <1>11, <3>1, <3>3 DEF Counts, Inserting
  <2>2. Entries("sync", a)'
    BY <1>2, <1>3 DEF DiskInv, Entries, Inserting
  <2> QED
    BY <2>1, <2>2 DEF DiskInv
<1>13. pc[a] \notin Syncing \ {"sync"}
  BY <1>2 DEF Syncing
<1> QED
  BY <1>2, <1>3, <1>4, <1>8, <1>12, <1>13, WriteStep

LEMMA SetStatusLog ==
  ASSUME LInv, IInv', NEW a \in Agents, NEW i \in 1..Len(mem[a]), NEW del \in BOOLEAN,
         SetStatus(a, i, del)
  PROVE  LInv'
<1> DEFINE r == [op |-> "s", at |-> i, del |-> del]
<1>1. r \in Record /\ r.op = "s"
  <2>1. Len(mem[a]) \in Nat
    BY Natural DEF LInv, IInv
  <2> QED
    BY <2>1 DEF Record
<1>2. Idle(a) /\ isRead[a] /\ AppendLog(a, <<r>>)
  BY DEF SetStatus, Operation
<1> HIDE DEF r
<1>3. <<r>> \in Seq(Record) /\ \A j \in 1..Len(<<r>>) : <<r>>[j].op # "a"
  BY <1>1
<1> QED
  BY <1>2, <1>3, AppendLogLog

LEMMA SetInfoLog ==
  ASSUME LInv, IInv', NEW a \in Agents, NEW S \in SUBSET (1..Len(mem[a])),
         NEW kw \in Keywords, SetInfo(a, S, kw)
  PROVE  LInv'
<1> DEFINE r == [op |-> "k", at |-> S, kw |-> kw]
<1>1. r \in Record /\ r.op = "k"
  <2>1. Len(mem[a]) \in Nat
    BY Natural DEF LInv, IInv
  <2> QED
    BY <2>1 DEF Record
<1>2. Idle(a) /\ isRead[a] /\ AppendLog(a, <<r>>)
  BY DEF SetInfo, Operation
<1> HIDE DEF r
<1>3. <<r>> \in Seq(Record) /\ \A j \in 1..Len(<<r>>) : <<r>>[j].op # "a"
  BY <1>1
<1> QED
  BY <1>2, <1>3, AppendLogLog

\* What the 'd' records of Delete() are.
LEMMA DeleteRecords ==
  ASSUME TypeOK, NEW a \in Agents, NEW S \in SUBSET (1..Len(mem[a])), NEW f \in Ascending(S)
  PROVE  LET rs == [i \in 1..Cardinality(S) |-> [op |-> "d", at |-> f[i]]] IN
         /\ rs \in Seq(Record)
         /\ \A i \in 1..Len(rs) : rs[i].op = "d"
<1> DEFINE rs == [i \in 1..Cardinality(S) |-> [op |-> "d", at |-> f[i]]]
<1>1. mem[a] \in Seq(Entry) /\ Len(mem[a]) \in Nat
  BY Natural
<1>2. Cardinality(S) \in Nat
  BY <1>1, IndexSetCardinality
<1>3. \A i \in 1..Cardinality(S) : [op |-> "d", at |-> f[i]] \in Record
  <2>1. f \in [1..Cardinality(S) -> S]
    BY DEF Ascending
  <2>2. \A i \in S : i \in Nat
    BY <1>1
  <2>3. \A i \in 1..Cardinality(S) : f[i] \in Nat
    BY <2>1, <2>2
  <2> QED
    BY <2>3 DEF Record
<1>4. rs \in Seq(Record) /\ Len(rs) = Cardinality(S)
  BY <1>2, <1>3
<1>5. \A i \in 1..Len(rs) : rs[i].op = "d"
  BY <1>4
<1> QED
  BY <1>4, <1>5

LEMMA DeleteLog ==
  ASSUME LInv, IInv', NEW a \in Agents, NEW S \in SUBSET (1..Len(mem[a])),
         Idle(a), isRead[a], Delete(a, S)
  PROVE  LInv'
<1>1. PICK f \in Ascending(S) :
        AppendLog(a, [i \in 1..Cardinality(S) |-> [op |-> "d", at |-> f[i]]])
  BY DEF Delete
<1> DEFINE rs == [i \in 1..Cardinality(S) |-> [op |-> "d", at |-> f[i]]]
<1>2. AppendLog(a, rs)
  BY <1>1
<1>3. rs \in Seq(Record) /\ \A i \in 1..Len(rs) : rs[i].op = "d"
  BY DeleteRecords DEF LInv, IInv
<1> HIDE DEF rs
<1> QED
  BY <1>2, <1>3, AppendLogLog

LEMMA ExpungeLog ==
  ASSUME LInv, IInv', NEW a \in Agents, Expunge(a)
  PROVE  LInv'
<1>1. Marked(a) \in SUBSET (1..Len(mem[a]))
  BY DEF Marked
<1> QED
  BY <1>1, DeleteLog DEF Expunge, Operation

LEMMA ExpireLog ==
  ASSUME LInv, IInv', NEW a \in Agents, NEW S \in SUBSET (1..Len(mem[a])), Expire(a, S)
  PROVE  LInv'
BY DeleteLog DEF Expire, Operation

-----------------------------------------------------------------------------
(* The other operations, and the steps an orderly run does not take.       *)

LEMMA GetMessageLog ==
  ASSUME LInv, IInv', NEW a \in Agents, GetMessage(a)
  PROVE  LInv'
<1>1. TypeOK /\ Session(a)
  BY DEF LInv, IInv
<1>2. /\ pc[a] = "idle" /\ lock = None /\ isRead[a] /\ Goto(a, "unlock")
      /\ UNCHANGED <<disk, rlock, age, arg, memory, inserted, clock>>
  BY DEF GetMessage, Idle, Enter, Lock, locals, history, bounds
<1>3. Alone(a) /\ DiskInv(pc[a], a)
  BY <1>2, LockAlone DEF Alone
<1>4. StepOf(a) /\ pc'[a] = "unlock"
  BY <1>1, <1>2, Moves
<1>5. /\ "unlock" \in Calm /\ "idle" \in Calm /\ "unlock" \in PCs
      /\ "unlock" \notin Verifying \cup {"restart", "dead", "r_index", "r_info"}
      /\ "unlock" \notin Syncing \cup Inserting /\ "idle" \notin Inserting
  BY DEF Calm, PCs, Inserting, Exclusive, Verifying, Syncing
<1>6. ~Compacting(a)' /\ Where(a)' = Where(a)
  BY <1>2, <1>4 DEF Compacting, Where, memory
<1>7. Session(a)'
  BY <1>1, <1>2, <1>4, <1>5, <1>6, MovedSession DEF Session
<1> QED
  BY <1>2, <1>3, <1>4, <1>5, <1>6, <1>7, QuietStep

\* Nothing moves; the rlocks get older with the clock.
LEMMA OnlyAges ==
  ASSUME LInv, IInv', UNCHANGED <<disk, rlock, control, memory, inserted>>,
         \A a \in Agents : age'[a] <= clock'
  PROVE  LInv'
<1>1. UNCHANGED <<index, info, changes, files, pc, ret, pos, arg, isRead, mem, changeSize,
                  numChanges, needRewrite, stale>>
  BY DEF disk, control, memory, locals
<1>2. \A a \in Agents : Session(a)'
  BY <1>1 DEF LInv, Session, Compacting
<1>3. \A a \in Agents : (Alone(a) => DiskInv(pc[a], a))'
  BY <1>1 DEF LInv, Alone, DiskInv, Counts, Entries, Numbered, Counted
<1>4. \A a \in Agents : (isRead[a] => Replayed(a) /\ Remembers(a) /\ Meant(a))'
  BY <1>1 DEF LInv, Replayed, Remembers, Where, Compacting, Meant, AtLog, AtIndex, View
<1>5. (Agents = {} => Len(index) = Counted)'
  BY <1>1 DEF LInv, Counted
<1> QED
  BY <1>2, <1>3, <1>4, <1>5 DEF LInv, Orderly

LEMMA NoStepLog ==
  ASSUME LInv, IInv', UNCHANGED <<disk, rlock, age, control, memory, inserted, clock>>
  PROVE  LInv'
<1>1. \A a \in Agents : age'[a] <= clock'
  BY DEF LInv, Session
<1> QED
  BY <1>1, OnlyAges

LEMMA TimePassesLog ==
  ASSUME LInv, IInv', TimePasses
  PROVE  LInv'
<1>1. ASSUME NEW a \in Agents PROVE age'[a] <= clock'
  <2>1. age[a] <= clock /\ age[a] \in Nat /\ clock \in Nat
    BY Natural DEF LInv, IInv, Session
  <2>2. age'[a] \in {0, age[a] + 1, age[a]} /\ clock' = clock + 1
    BY DEF TimePasses
  <2> QED
    BY <2>1, <2>2
<1> QED
  BY <1>1, OnlyAges DEF TimePasses, history

\* The agent that exits need not be the one with the lock.
LEMMA CloseLog ==
  ASSUME LInv, IInv', NEW a \in Agents, Close(a)
  PROVE  LInv'
<1>1. TypeOK
  BY DEF LInv, IInv
<1>2. /\ pc[a] = "idle" /\ Goto(a, "dead") /\ rlock' = rlock \ {a}
      /\ isRead' = [isRead EXCEPT ![a] = FALSE]
      /\ UNCHANGED <<disk, age, ret, pos, arg, mem, changeSize, numChanges, needRewrite,
                     stale, inserted, clock>>
  BY DEF Close, Idle, locals, history, bounds
<1>3. pc'[a] = "dead" /\ \A b \in Agents \ {a} : pc'[b] = pc[b]
  BY <1>1, <1>2, Gone
<1>4. ~isRead'[a] /\ \A b \in Agents \ {a} : isRead'[b] = isRead[b]
  BY <1>1, <1>2 DEF TypeOK, MemoryOK
<1>5. \A b \in Agents : Session(b)'
  <2>1. Session(a)'
    <3>1. pc'[a] \notin Verifying \cup {"restart"} \cup Syncing \cup Reading \cup Inserting
          /\ pc'[a] # "r_index" /\ ~Compacting(a)'
      BY <1>3 DEF Verifying, Syncing, Reading, Inserting, Compacting
    <3>2. arg'[a] = NoMsg /\ age'[a] <= clock'
      BY <1>2 DEF LInv, Session, Inserting
    <3> QED
      BY <1>3, <1>4, <3>1, <3>2 DEF Session
  <2>2. ASSUME NEW b \in Agents \ {a} PROVE Session(b)'
    <3>1. Session(b) /\ (Compacting(b)' <=> Compacting(b))
      BY <1>3 DEF LInv, Compacting
    <3>2. \A c \in Agents : isRead'[c] => isRead[c]
      BY <1>4
    <3> QED
      BY <1>2, <1>3, <1>4, <3>1, <3>2 DEF Session, disk
  <2> QED
    BY <2>1, <2>2
<1>6. \A b \in Agents : (Alone(b) => DiskInv(pc[b], b))'
  <2> SUFFICES ASSUME NEW b \in Agents, Alone(b)' PROVE DiskInv(pc[b], b)'
    OBVIOUS
  <2>1. Alone(b)
    BY <1>2, <1>3 DEF Alone, Quiescent
  <2>2. DiskInv(pc[b], b)
    BY <2>1 DEF LInv
  <2>3. pc'[b] = pc[b] \/ (pc[b] = "idle" /\ pc'[b] = "dead")
    BY <1>2, <1>3
  <2>4. Counts(pc[b], b)'
    BY <1>2, <2>2, <2>3 DEF DiskInv, Counts, Counted, Numbered, Inserting, disk
  <2>5. Entries(pc[b], b)'
    BY <1>2, <2>2, <2>3 DEF DiskInv, Entries, Inserting, disk
  <2> QED
    BY <2>4, <2>5 DEF DiskInv
<1>7. \A b \in Agents : (isRead[b] => Replayed(b) /\ Remembers(b) /\ Meant(b))'
  <2> SUFFICES ASSUME NEW b \in Agents, isRead'[b] PROVE (Replayed(b) /\ Remembers(b) /\ Meant(b))'
    OBVIOUS
  <2>1. b # a /\ isRead[b] /\ pc'[b] = pc[b]
    BY <1>3, <1>4
  <2> QED
    BY <1>2, <2>1 DEF LInv, Replayed, Remembers, Where, Compacting, Meant, AtLog, AtIndex, View, disk
<1> QED
  BY <1>5, <1>6, <1>7 DEF LInv, Orderly

LEMMA NoCrash ==
  ASSUME LInv
  PROVE  ~(crashes < MaxCrashes)
<1>1. crashes \in 0..0
  BY DEF LInv, Orderly, IInv, TypeOK, BoundsOK
<1> QED
  BY <1>1 DEF LInv, Orderly

LEMMA NotOrderly ==
  ASSUME LInv, NEW a \in Agents
  PROVE  /\ ~Search(a) /\ ~Crash(a) /\ ~CompactBreaks(a) /\ ~Restart(a)
         /\ \A fix \in BOOLEAN : ~CheckLock(a, fix)
         /\ ~CheckInfo(a) /\ ~CheckError(a) /\ ~CheckFiles(a) /\ ~CheckChanges(a)
         /\ ~CheckClean(a) /\ ~CheckOpen(a) /\ ~CheckWrite(a) /\ ~CheckWriteInfo(a)
         /\ ~CheckUnlink(a)
<1>1. pc[a] \notin Verifying \cup {"restart"}
  BY DEF LInv, Session
<1>2. ~Search(a) /\ \A fix \in BOOLEAN : ~CheckLock(a, fix)
  BY DEF LInv, Orderly, Search, CheckLock
<1>3. ~Crash(a) /\ ~CompactBreaks(a)
  BY NoCrash DEF Crash, CompactBreaks
<1>4. ~Restart(a) /\ ~CheckInfo(a) /\ ~CheckError(a) /\ ~CheckFiles(a) /\ ~CheckChanges(a)
  BY <1>1 DEF Restart, CheckInfo, CheckError, CheckFiles, CheckChanges, Look, Verifying
<1>5. ~CheckClean(a) /\ ~CheckOpen(a) /\ ~CheckWrite(a) /\ ~CheckWriteInfo(a)
      /\ ~CheckUnlink(a)
  BY <1>1 DEF CheckClean, CheckOpen, CheckWrite, CheckWriteInfo, CheckUnlink, Look, Verifying
<1> QED
  BY <1>2, <1>3, <1>4, <1>5

-----------------------------------------------------------------------------

LEMMA InitLInv == Init /\ Orderly => LInv
<1> SUFFICES ASSUME Init, Orderly PROVE LInv
  OBVIOUS
<1>1. IInv
  BY InitIInv
<1>2. \A a \in Agents : Session(a)
  BY DEF Init, Session, Verifying, Syncing, Reading, Inserting, Compacting
<1>3. Len(changes) = 0 /\ Adds(changes, 0) = 0 /\ Len(index) = 0 /\ info = 0
  BY AddsZero DEF Init
<1>4. \A a \in Agents : DiskInv(pc[a], a)
  <2>1. \A a \in Agents : Counts(pc[a], a)
    BY <1>3 DEF Init, Counts, Numbered, Counted, Inserting
  <2>2. \A a \in Agents : Entries(pc[a], a)
    BY <1>3 DEF Init, Entries, Inserting
  <2> QED
    BY <2>1, <2>2 DEF DiskInv
<1>5. \A a \in Agents : ~isRead[a]
  BY DEF Init
<1>6. Len(index) = Counted
  BY <1>3 DEF Init, Counted
<1> QED
  BY <1>1, <1>2, <1>4, <1>5, <1>6 DEF LInv

LEMMA NextLInv == LInv /\ [Next]_vars => LInv'
<1> SUFFICES ASSUME LInv, [Next]_vars PROVE LInv'
  OBVIOUS
<1>1. IInv'
  BY NextIInv DEF LInv
<1>2. CASE TimePasses
  BY <1>1, <1>2, TimePassesLog
<1>3. CASE RemoveLock
  BY <1>1, <1>3, NoStepLog DEF RemoveLock, history, bounds
<1>4. ASSUME NEW a \in Agents, Start(a) PROVE LInv'
  <2>1. CASE GetMessageReadError(a)
    BY <1>1, <2>1, NoStepLog DEF GetMessageReadError, history, bounds
  <2> QED
    BY <1>1, <1>4, <2>1, ReadLockLog, InsertIndexLog, SetStatusLog, ExpungeLog, ExpireLog,
       SetInfoLog, GetMessageLog, CloseLog, NotOrderly DEF Start
<1>5. ASSUME NEW a \in Agents, Continue(a) PROVE LInv'
  BY <1>1, <1>5, ReadInfoLog, ReadIndexLog, ReadErrorLog, InsertFileLog, InsertChangesLog,
     InsertFailLog, SyncStatLog, SyncApplyLog, SyncErrorLog, SyncEndLog, CompactFilesLog,
     CompactIndexLog, CompactInfoLog, CompactUnlinkLog, CompactFailLog, NotOrderly, UnlockLog
     DEF Continue
<1>6. CASE UNCHANGED vars
  BY <1>1, <1>6, NoStepLog DEF vars, locks, history, bounds
<1> QED
  BY <1>2, <1>3, <1>4, <1>5, <1>6 DEF Next

\* In an orderly run the agents take turns at the files, what is half done
\* when another agent could look is only what its own lock covers, and every
\* agent's counters and entries mean what the log of ratDbase.c says: what
\* Sync(), RatDbInsert() and the compaction keep true between them.
THEOREM LogInvariance == Spec /\ Orderly => []LInv
<1>1. Orderly /\ [Next]_vars => Orderly'
  BY DEF Orderly
<1> QED
  BY InitLInv, NextLInv, PTL DEF Spec

\* Whoever is where, when nothing is half done the counts are right.
LEMMA CountedIndex ==
  ASSUME LInv, Settled
  PROVE  Len(index) = Counted
<1>1. CASE Agents = {}
  BY <1>1 DEF LInv
<1>2. ASSUME NEW a \in Agents, pc[a] \notin Quiescent PROVE Len(index) = Counted
  <2>1. DiskInv(pc[a], a)
    BY <1>2, ActiveAlone
  <2> QED
    BY <2>1 DEF DiskInv, Counts, Settled, Compacting, Inserting
<1>3. ASSUME NEW a \in Agents, \A b \in Agents : pc[b] \in Quiescent
      PROVE  Len(index) = Counted
  <2>1. DiskInv(pc[a], a)
    BY <1>3 DEF LInv, Alone
  <2> QED
    BY <1>3, <2>1 DEF DiskInv, Counts, Quiescent, Inserting
<1> QED
  BY <1>1, <1>2, <1>3

\* In an orderly run the count in index.info and the 'a' records of the log
\* add up to the entries of the index, whatever insertions failed half way
\* (the "losing" label of RatDbInsert()) and whatever compactions ran.
THEOREM Counting == Spec /\ Orderly => []CountsAgree
<1>1. LInv => CountsAgree
  <2> SUFFICES ASSUME LInv, Settled PROVE info + Cardinality(Records("a")) = Len(index)
    BY DEF CountsAgree
  <2>1. TypeOK
    BY DEF LInv, IInv
  <2>2. Records("a") = {i \in 1..Len(changes) : changes[i].op = "a"}
    BY <2>1, Natural DEF Records
  <2>3. Cardinality(Records("a")) = Adds(changes, Len(changes))
    BY <2>2 DEF Adds
  <2>4. Len(index) = Counted
    BY CountedIndex
  <2> QED
    BY <2>3, <2>4 DEF Counted
<1> QED
  BY <1>1, LogInvariance, PTL

\* In an orderly run no agent takes a message for live whose file another
\* agent's compaction (the unlink() loop of Sync()) has removed.
THEOREM Backing == Spec /\ Orderly => []FilesBacked
<1>1. LInv => FilesBacked
  BY DEF LInv, Remembers, FilesBacked, Messages, LiveAt
<1> QED
  BY <1>1, LogInvariance, PTL

\* In an orderly run the entries of an agent that has the database open are,
\* index for index and but for keywords, the index with the records it has read
\* so far: what Sync() is to see to (ratDbase.c:457).
THEOREM Matching == Spec /\ Orderly => []MemoryMatchesDisk
<1>1. LInv => MemoryMatchesDisk
  <2> SUFFICES ASSUME LInv, NEW a \in Agents, Settled, Quiet(a), stale[a] = 0
               PROVE  Unkeyed(mem[a]) = Unkeyed(View(changeSize[a]))
    BY DEF MemoryMatchesDisk
  <2>1. TypeOK /\ pc[a] = "idle" /\ isRead[a] /\ Replayed(a) /\ Meant(a)
    BY DEF LInv, IInv, Quiet, Idle
  <2>2. SameButKeys(mem[a], View(changeSize[a]))
    BY <2>1 DEF Meant, AtLog, Where
  <2>3. Len(index) = Counted
    BY CountedIndex
  <2>4. View(changeSize[a]) \in Seq(Entry)
    <3>1. Adds(changes, Len(changes)) \in Nat /\ info \in Nat
      BY <2>1, AddsFinite, Natural
    <3>2. info <= Len(index)
      BY <2>3, <3>1 DEF Counted
    <3>3. changeSize[a] \in Nat /\ changeSize[a] <= Len(changes)
      BY <2>1, Natural DEF Replayed
    <3>4. index \in Seq(Entry) /\ changes \in Seq(Record)
      BY <2>1 DEF TypeOK, DiskOK
    <3> QED
      BY <3>1, <3>2, <3>3, <3>4, ReplayType DEF View
  <2>5. mem[a] \in Seq(Entry)
    BY <2>1, Natural
  <2> QED
    BY <2>2, <2>4, <2>5, SameUnkeyed
<1> QED
  BY <1>1, LogInvariance, PTL
-----------------------------------------------------------------------------
(* What the log leaves of the index, and what it takes away.               *)

\* No two entries name one message.
Apart(v) == \A i, j \in 1..Len(v) : v[i].msg = v[j].msg => i = j

\* The log, and the entries it is about.
Sound(idx, n, log) ==
  /\ idx \in Seq(Entry) /\ n \in Nat /\ log \in Seq(Record)
  /\ Numbered(log, n) /\ n + Adds(log, Len(log)) <= Len(idx)
  /\ Apart(idx)

\* The entries of v are the first ones of the index idx.
Names(v, idx) == \A i \in 1..Len(v) : v[i].msg = idx[i].msg

\* A record that is not an insertion changes neither how many entries there
\* are nor which messages they name.
LEMMA AppliedOther ==
  ASSUME NEW idx, NEW v \in Seq(Entry), NEW r \in Record, r.op # "a"
  PROVE  /\ Len(Applied(idx, v, r)) = Len(v)
         /\ \A i \in 1..Len(v) : Applied(idx, v, r)[i].msg = v[i].msg
<1>0. \A i \in 1..Len(v) : v[i] \in Entry
  OBVIOUS
<1>1. CASE r.op = "d" /\ r.at \in 1..Len(v)
  <2> DEFINE w == [v EXCEPT ![r.at].gone = TRUE]
  <2>1. Len(w) = Len(v) /\ \A i \in 1..Len(v) : w[i].msg = v[i].msg
    BY <1>0 DEF Entry
  <2>2. Applied(idx, v, r) = w
    BY <1>1 DEF Applied
  <2> HIDE DEF w
  <2> QED
    BY <2>1, <2>2
<1>2. CASE r.op = "s" /\ r.at \in 1..Len(v)
  <2> DEFINE w == [v EXCEPT ![r.at].del = r.del]
  <2>1. Len(w) = Len(v) /\ \A i \in 1..Len(v) : w[i].msg = v[i].msg
    BY <1>0 DEF Entry
  <2>2. Applied(idx, v, r) = w
    BY <1>2 DEF Applied
  <2> HIDE DEF w
  <2> QED
    BY <2>1, <2>2
<1>3. CASE r.op = "k"
  <2> DEFINE w == [i \in 1..Len(v) |-> IF i \in r.at THEN [v[i] EXCEPT !.kw = r.kw]
                                                      ELSE v[i]]
  <2>1. Len(w) = Len(v) /\ \A i \in 1..Len(v) : w[i].msg = v[i].msg
    BY <1>0 DEF Entry
  <2>2. Applied(idx, v, r) = w
    BY <1>3 DEF Applied
  <2> HIDE DEF w
  <2> QED
    BY <2>1, <2>2
<1>4. CASE r.op \in {"d", "s"} /\ r.at \notin 1..Len(v)
  BY <1>4 DEF Applied
<1> QED
  BY <1>1, <1>2, <1>3, <1>4 DEF Record

\* After k records there are the entries of the index that the count and the
\* 'a' records among the k stand for.
LEMMA ReplayNames ==
  ASSUME NEW idx, NEW n, NEW log, Sound(idx, n, log), NEW k \in Nat, k <= Len(log)
  PROVE  /\ Replay(idx, n, log, k) \in Seq(Entry)
         /\ Len(Replay(idx, n, log, k)) = n + Adds(log, k)
         /\ n + Adds(log, k) <= Len(idx)
         /\ Names(Replay(idx, n, log, k), idx)
<1>1. /\ idx \in Seq(Entry) /\ n \in Nat /\ log \in Seq(Record) /\ Len(log) \in Nat
      /\ Len(idx) \in Nat /\ n + Adds(log, Len(log)) <= Len(idx) /\ Numbered(log, n)
  BY DEF Sound
<1>2. \A j \in Nat : Adds(log, j) \in Nat
  BY AddsFinite
<1>3. \A j \in Nat : j <= Len(log) => n + Adds(log, j) <= Len(idx)
  <2> SUFFICES ASSUME NEW j \in Nat, j <= Len(log) PROVE n + Adds(log, j) <= Len(idx)
    OBVIOUS
  <2> DEFINE A == Adds(log, j)
             B == Adds(log, Len(log))
  <2>1. A <= B /\ A \in Nat /\ B \in Nat /\ n + B <= Len(idx)
    BY <1>1, <1>2, AddsGrow
  <2> HIDE DEF A, B
  <2>2. n + A <= Len(idx)
    BY <1>1, <2>1
  <2> QED
    BY <2>2 DEF A
<1>4. n <= Len(idx)
  BY <1>1, <1>2, <1>3, AddsZero
<1> DEFINE R(j) == Replay(idx, n, log, j)
           T == {j \in Nat : j <= Len(log) =>
                   Len(R(j)) = n + Adds(log, j) /\ Names(R(j), idx)}
<1>5. \A j \in Nat : j <= Len(log) => R(j) \in Seq(Entry)
  BY <1>1, <1>4, ReplayType
<1>6. 0 \in T
  <2> DEFINE v == SubSeq(idx, 1, n)
  <2>1. Len(v) = n /\ \A i \in 1..n : v[i] = idx[i]
    BY <1>1, <1>4
  <2>2. R(0) = v /\ Adds(log, 0) = 0
    BY ReplayZero, AddsZero
  <2> HIDE DEF v, R
  <2>3. Len(R(0)) = n + Adds(log, 0) /\ Names(R(0), idx)
    BY <1>1, <2>1, <2>2 DEF Names
  <2> QED
    BY <2>3
<1>7. ASSUME NEW j \in Nat, j \in T PROVE j + 1 \in T
  <2> SUFFICES ASSUME j + 1 <= Len(log)
               PROVE  Len(R(j + 1)) = n + Adds(log, j + 1) /\ Names(R(j + 1), idx)
    OBVIOUS
  <2> DEFINE v == R(j)
             r == log[j + 1]
             A == Adds(log, j)
             B == Adds(log, j + 1)
  <2>1. j \in Nat /\ j <= Len(log) /\ j + 1 \in 1..Len(log) /\ r \in Record
    BY <1>1
  <2>2. v \in Seq(Entry) /\ Len(v) = n + A /\ Names(v, idx)
    BY <1>5, <1>7, <2>1
  <2>3. R(j + 1) = Applied(idx, v, r)
    BY ReplayNext
  <2>4. A \in Nat /\ B = A + (IF r.op = "a" THEN 1 ELSE 0) /\ n + B <= Len(idx)
    BY <1>2, <1>3, <2>1, AddsNext
  <2>5. r.op = "a" => r.at = n + B
    BY <1>1, <2>1 DEF Numbered
  <2> HIDE DEF v, r, A, B, R
  <2>6. CASE r.op = "a"
    <3>1. r.at = n + A + 1 /\ B = A + 1 /\ r.at \in 1..Len(idx)
      BY <1>1, <2>4, <2>5, <2>6
    <3>2. Applied(idx, v, r) = Append(v, idx[r.at])
      BY <2>6, <3>1 DEF Applied
    <3>3. idx[r.at] \in Entry
      BY <1>1, <3>1
    <3> DEFINE w == Append(v, idx[r.at])
    <3>4. Len(w) = n + A + 1 /\ w[n + A + 1] = idx[r.at]
          /\ \A i \in 1..n + A : w[i] = v[i]
      BY <2>2, <3>3
    <3>5. \A i \in 1..n + A + 1 : i \in 1..n + A \/ i = n + A + 1
      BY <1>1, <2>4
    <3> HIDE DEF w
    <3>6. Names(w, idx)
      BY <2>2, <3>1, <3>4, <3>5 DEF Names
    <3>7. R(j + 1) = w
      BY <2>3, <3>2 DEF w
    <3>8. Len(R(j + 1)) = n + B
      BY <1>1, <2>4, <3>1, <3>4, <3>7
    <3> QED
      BY <3>6, <3>7, <3>8 DEF B
  <2>7. CASE r.op # "a"
    <3>1. B = A
      BY <2>4, <2>7
    <3>2. Len(R(j + 1)) = n + B /\ Names(R(j + 1), idx)
      BY <2>1, <2>2, <2>3, <2>7, <3>1, AppliedOther DEF Names
    <3> QED
      BY <3>2 DEF B
  <2> QED
    BY <2>6, <2>7
<1> HIDE DEF T, R
<1>8. k \in T
  BY <1>6, <1>7, NatSetInduction
<1>9. Len(R(k)) = n + Adds(log, k) /\ Names(R(k), idx) /\ R(k) \in Seq(Entry)
  BY <1>5, <1>8 DEF T
<1> QED
  BY <1>3, <1>9 DEF R

\* The first of entries that name different messages.
LEMMA NamesApart ==
  ASSUME NEW idx \in Seq(Entry), NEW v \in Seq(Entry), Len(v) <= Len(idx), Names(v, idx),
         Apart(idx)
  PROVE  Apart(v)
<1>1. 1..Len(v) \subseteq 1..Len(idx)
  OBVIOUS
<1> QED
  BY <1>1 DEF Names, Apart

\* The same store.
Alike(w, v) == Messages(w) = Messages(v) /\ MarkedIn(w) = MarkedIn(v)

\* Keywords do not show in the store.
LEMMA SameMeaning ==
  ASSUME NEW m \in Seq(Entry), NEW v \in Seq(Entry), SameButKeys(m, v)
  PROVE  Alike(m, v)
<1>1. /\ Len(m) = Len(v)
      /\ \A i \in 1..Len(m) : m[i].msg = v[i].msg /\ m[i].del = v[i].del /\ m[i].gone = v[i].gone
  BY DEF SameButKeys
<1>2. LiveAt(m) = LiveAt(v) /\ \A i \in LiveAt(m) : m[i].msg = v[i].msg /\ m[i].del = v[i].del
  BY <1>1 DEF LiveAt
<1>3. Messages(m) = Messages(v)
  BY <1>2 DEF Messages
<1>4. {j \in LiveAt(m) : m[j].del} = {j \in LiveAt(v) : v[j].del}
  BY <1>2
<1> QED
  BY <1>2, <1>3, <1>4 DEF MarkedIn, Alike

\* The store with a mark set or taken, or the same.
Remarked(w, v) ==
  /\ Messages(w) = Messages(v)
  /\ \/ MarkedIn(w) = MarkedIn(v)
     \/ \E m \in Messages(v) : \/ MarkedIn(w) = MarkedIn(v) \cup {m}
                               \/ MarkedIn(w) = MarkedIn(v) \ {m}

\* A status record marks a message, takes its mark, or changes nothing.
LEMMA StatusApplied ==
  ASSUME NEW idx, NEW v \in Seq(Entry), NEW r \in Record, r.op = "s", Apart(v)
  PROVE  Remarked(Applied(idx, v, r), v)
<1> DEFINE w == Applied(idx, v, r)
           p == r.at
<1>0. \A i \in 1..Len(v) : v[i] \in Entry
  OBVIOUS
<1>1. CASE p \notin 1..Len(v)
  <2>1. w = v
    BY <1>1 DEF Applied
  <2> QED
    BY <2>1 DEF Remarked
<1>2. CASE p \in 1..Len(v)
  <2> DEFINE u == [v EXCEPT ![p].del = r.del]
  <2>1. /\ Len(u) = Len(v) /\ u[p].del = r.del
        /\ \A i \in 1..Len(v) : u[i].msg = v[i].msg /\ u[i].gone = v[i].gone
        /\ \A i \in 1..Len(v) : i # p => u[i].del = v[i].del
    BY <1>0, <1>2 DEF Entry
  <2>2. w = u
    BY <1>2 DEF Applied
  <2> HIDE DEF u, w
  <2>3. LiveAt(w) = LiveAt(v) /\ LiveAt(v) \subseteq 1..Len(v)
    BY <2>1, <2>2 DEF LiveAt
  <2>4. Messages(w) = Messages(v)
    BY <2>1, <2>2, <2>3 DEF Messages
  <2>5. CASE p \notin LiveAt(v)
    <3>1. {j \in LiveAt(w) : w[j].del} = {j \in LiveAt(v) : v[j].del}
      BY <2>1, <2>2, <2>3, <2>5
    <3>2. \A j \in LiveAt(v) : w[j].msg = v[j].msg
      BY <2>1, <2>2, <2>3
    <3>3. MarkedIn(w) = MarkedIn(v)
      BY <3>1, <3>2 DEF MarkedIn
    <3> QED
      BY <2>4, <3>3 DEF w, Remarked
  <2>6. CASE p \in LiveAt(v) /\ r.del
    <3>1. {j \in LiveAt(w) : w[j].del} = {j \in LiveAt(v) : v[j].del} \cup {p}
      BY <2>1, <2>2, <2>3, <2>6
    <3>2. \A j \in LiveAt(v) : w[j].msg = v[j].msg
      BY <2>1, <2>2, <2>3
    <3>3. MarkedIn(w) = MarkedIn(v) \cup {v[p].msg}
      BY <2>6, <3>1, <3>2 DEF MarkedIn
    <3>4. v[p].msg \in Messages(v)
      BY <2>6 DEF Messages
    <3> QED
      BY <2>4, <3>3, <3>4 DEF w, Remarked
  <2>7. CASE p \in LiveAt(v) /\ ~r.del
    <3>1. {j \in LiveAt(w) : w[j].del} = {j \in LiveAt(v) : v[j].del} \ {p}
      BY <2>1, <2>2, <2>3, <2>7
    <3>2. \A j \in LiveAt(v) : w[j].msg = v[j].msg
      BY <2>1, <2>2, <2>3
    <3>3. \A j \in LiveAt(v) : v[j].msg = v[p].msg => j = p
      BY <1>2, <2>3 DEF Apart
    <3>4. MarkedIn(w) = MarkedIn(v) \ {v[p].msg}
      BY <2>7, <3>1, <3>2, <3>3 DEF MarkedIn
    <3>5. v[p].msg \in Messages(v)
      BY <2>7 DEF Messages
    <3> QED
      BY <2>4, <3>4, <3>5 DEF w, Remarked
  <2> QED
    BY <2>5, <2>6, <2>7
<1> QED
  BY <1>1, <1>2

\* A keyword record changes nothing of the kind.
LEMMA KeywordsApplied ==
  ASSUME NEW idx, NEW v \in Seq(Entry), NEW r \in Record, r.op = "k"
  PROVE  Alike(Applied(idx, v, r), v)
<1> DEFINE w == Applied(idx, v, r)
           u == [i \in 1..Len(v) |-> IF i \in r.at THEN [v[i] EXCEPT !.kw = r.kw] ELSE v[i]]
<1>0. \A i \in 1..Len(v) : v[i] \in Entry
  OBVIOUS
<1>1. /\ Len(u) = Len(v)
      /\ \A i \in 1..Len(v) : u[i].msg = v[i].msg /\ u[i].gone = v[i].gone /\ u[i].del = v[i].del
  BY <1>0 DEF Entry
<1>2. w = u
  BY DEF Applied
<1> HIDE DEF u, w
<1>3. LiveAt(w) = LiveAt(v) /\ LiveAt(v) \subseteq 1..Len(v)
  BY <1>1, <1>2 DEF LiveAt
<1>4. Messages(w) = Messages(v)
  BY <1>1, <1>2, <1>3 DEF Messages
<1>5. {j \in LiveAt(w) : w[j].del} = {j \in LiveAt(v) : v[j].del}
  BY <1>1, <1>2, <1>3
<1>6. MarkedIn(w) = MarkedIn(v)
  BY <1>1, <1>2, <1>3, <1>5 DEF MarkedIn
<1> QED
  BY <1>4, <1>6 DEF w, Alike

\* A record of an insertion adds the message of its entry, unmarked.
LEMMA InsertApplied ==
  ASSUME NEW v \in Seq(Entry), NEW e \in Entry, ~e.gone, ~e.del
  PROVE  Messages(Append(v, e)) = Messages(v) \cup {e.msg} /\ MarkedIn(Append(v, e)) = MarkedIn(v)
<1> DEFINE w == Append(v, e)
           n == Len(v)
<1>1. n \in Nat /\ Len(w) = n + 1 /\ w[n + 1] = e /\ \A i \in 1..n : w[i] = v[i]
  OBVIOUS
<1>2. 1..n + 1 = 1..n \cup {n + 1} /\ n + 1 \notin 1..n
  BY <1>1
<1> HIDE DEF w
<1>3. LiveAt(w) = LiveAt(v) \cup {n + 1} /\ LiveAt(v) \subseteq 1..n
  BY <1>1, <1>2 DEF LiveAt, n
<1>4. Messages(w) = Messages(v) \cup {e.msg}
  BY <1>1, <1>3 DEF Messages
<1>5. {j \in LiveAt(w) : w[j].del} = {j \in LiveAt(v) : v[j].del}
  BY <1>1, <1>2, <1>3
<1>6. MarkedIn(w) = MarkedIn(v)
  BY <1>1, <1>3, <1>5 DEF MarkedIn
<1> QED
  BY <1>4, <1>6 DEF w

\* The store without the messages in D.
Without(w, v, D) == Messages(w) = Messages(v) \ D /\ MarkedIn(w) = MarkedIn(v) \ D

\* A deletion takes the message of its entry.
LEMMA DeleteApplied ==
  ASSUME NEW idx, NEW v \in Seq(Entry), NEW r \in Record, r.op = "d", r.at \in 1..Len(v),
         Apart(v)
  PROVE  Without(Applied(idx, v, r), v, {v[r.at].msg})
<1> DEFINE w == Applied(idx, v, r)
           p == r.at
           u == [v EXCEPT ![p].gone = TRUE]
<1>0. \A i \in 1..Len(v) : v[i] \in Entry
  OBVIOUS
<1>1. /\ Len(u) = Len(v) /\ u[p].gone
      /\ \A i \in 1..Len(v) : u[i].msg = v[i].msg /\ u[i].del = v[i].del
      /\ \A i \in 1..Len(v) : i # p => u[i].gone = v[i].gone
  BY <1>0 DEF Entry
<1>2. w = u
  BY DEF Applied
<1> HIDE DEF u, w
<1>3. LiveAt(w) = LiveAt(v) \ {p} /\ LiveAt(v) \subseteq 1..Len(v)
  BY <1>1, <1>2 DEF LiveAt
<1>4. \A j \in LiveAt(v) : v[j].msg = v[p].msg => j = p
  BY <1>3 DEF Apart
<1>5. Messages(w) = Messages(v) \ {v[p].msg}
  BY <1>1, <1>2, <1>3, <1>4 DEF Messages
<1>6. {j \in LiveAt(w) : w[j].del} = {j \in LiveAt(v) : v[j].del} \ {p}
  BY <1>1, <1>2, <1>3
<1>7. MarkedIn(w) = MarkedIn(v) \ {v[p].msg}
  BY <1>1, <1>2, <1>3, <1>4, <1>6 DEF MarkedIn
<1> QED
  BY <1>5, <1>7 DEF w, Without

\* Many deletions at the end of a log.
Named(idx, log, b, k) == {idx[log[j].at].msg : j \in b + 1..b + k}

LEMMA ReplayDeletes ==
  ASSUME NEW idx, NEW n, NEW log, Sound(idx, n, log), NEW b \in Nat, NEW k \in Nat,
         Len(log) = b + k,
         \A j \in b + 1..b + k : log[j].op = "d" /\ log[j].at \in 1..n + Adds(log, b)
  PROVE  Without(Replay(idx, n, log, b + k), Replay(idx, n, log, b), Named(idx, log, b, k))
<1> DEFINE R(j) == Replay(idx, n, log, j)
           D(j) == {idx[log[i].at].msg : i \in b + 1..b + j}
           T == {j \in Nat : j <= k => /\ Messages(R(b + j)) = Messages(R(b)) \ D(j)
                                       /\ MarkedIn(R(b + j)) = MarkedIn(R(b)) \ D(j)}
<1>0. /\ idx \in Seq(Entry) /\ n \in Nat /\ log \in Seq(Record) /\ Len(idx) \in Nat
      /\ Apart(idx)
  BY DEF Sound
<1>1. \A j \in Nat : b <= j /\ j <= b + k => Adds(log, j) = Adds(log, b)
  <2> SUFFICES ASSUME NEW j \in Nat, b <= j, j <= b + k PROVE Adds(log, j) = Adds(log, b)
    OBVIOUS
  <2>1. \A i \in b + 1..j : i \in b + 1..b + k
    OBVIOUS
  <2>2. \A i \in b + 1..j : log[i].op # "a"
    BY <2>1
  <2> QED
    BY <2>2, AddsNone
<1>2. 0 \in T
  <2>1. b + 0 = b /\ D(0) = {}
    OBVIOUS
  <2> HIDE DEF R, D
  <2>2. Messages(R(b + 0)) = Messages(R(b)) \ D(0) /\ MarkedIn(R(b + 0)) = MarkedIn(R(b)) \ D(0)
    BY <2>1
  <2> QED
    BY <2>2
<1>3. ASSUME NEW j \in Nat, j \in T PROVE j + 1 \in T
  <2> SUFFICES ASSUME j + 1 <= k
               PROVE  /\ Messages(R(b + (j + 1))) = Messages(R(b)) \ D(j + 1)
                      /\ MarkedIn(R(b + (j + 1))) = MarkedIn(R(b)) \ D(j + 1)
    OBVIOUS
  <2> DEFINE v == R(b + j)
             r == log[b + j + 1]
             m == idx[r.at].msg
  <2>1. /\ b + j \in Nat /\ b + j <= Len(log) /\ b + (j + 1) = b + j + 1
        /\ b + j + 1 \in 1..Len(log) /\ b + j + 1 \in b + 1..b + k
        /\ b <= b + j /\ b + j <= b + k
    <3>1. PICK w \in Nat : w = Len(log)
      OBVIOUS
    <3> HIDE DEF v, r, m, R, D, T
    <3>2. w = b + k
      BY <3>1
    <3>3. /\ b + j \in Nat /\ b + j <= w /\ b + (j + 1) = b + j + 1
          /\ b + j + 1 \in 1..w /\ b + j + 1 \in b + 1..b + k
          /\ b <= b + j /\ b + j <= b + k
      BY <3>2
    <3> QED
      BY <3>1, <3>3
  <2>2. r \in Record /\ r.op = "d" /\ r.at \in 1..n + Adds(log, b)
    BY <1>0, <2>1
  <2>3. v \in Seq(Entry) /\ Len(v) = n + Adds(log, b) /\ Len(v) <= Len(idx) /\ Names(v, idx)
    BY <1>1, <2>1, ReplayNames
  <2>4. r.at \in 1..Len(v) /\ v[r.at].msg = m
    BY <2>2, <2>3 DEF Names
  <2>5. Apart(v)
    BY <1>0, <2>3, NamesApart
  <2>6. R(b + j + 1) = Applied(idx, v, r)
    BY <2>1, ReplayNext
  <2>7. Messages(v) = Messages(R(b)) \ D(j) /\ MarkedIn(v) = MarkedIn(R(b)) \ D(j)
    BY <1>3
  <2>8. D(j + 1) = D(j) \cup {m}
    <3>1. \A i \in b + 1..b + (j + 1) : i \in b + 1..b + j \/ i = b + j + 1
      OBVIOUS
    <3>2. b + 1..b + j \subseteq b + 1..b + (j + 1) /\ b + j + 1 \in b + 1..b + (j + 1)
      OBVIOUS
    <3> QED
      BY <3>1, <3>2
  <2> HIDE DEF R, D, v, r, m
  <2>9. /\ Messages(R(b + j + 1)) = Messages(v) \ {v[r.at].msg}
        /\ MarkedIn(R(b + j + 1)) = MarkedIn(v) \ {v[r.at].msg}
    <3>1. Without(Applied(idx, v, r), v, {v[r.at].msg})
      BY <2>2, <2>3, <2>4, <2>5, DeleteApplied
    <3> QED
      BY <2>6, <3>1 DEF Without
  <2>10. /\ Messages(R(b + j + 1)) = Messages(R(b)) \ D(j + 1)
         /\ MarkedIn(R(b + j + 1)) = MarkedIn(R(b)) \ D(j + 1)
    BY <2>4, <2>7, <2>8, <2>9
  <2> QED
    BY <2>1, <2>10
<1> HIDE DEF T, R, D
<1>4. k \in T
  BY <1>2, <1>3, NatSetInduction
<1>5. Messages(R(b + k)) = Messages(R(b)) \ D(k) /\ MarkedIn(R(b + k)) = MarkedIn(R(b)) \ D(k)
  BY <1>4 DEF T
<1> QED
  BY <1>5 DEF R, D, Without, Named

\* An increasing list of the elements of a set has all of them.
Lists(f, S) ==
  /\ Cardinality(S) \in Nat
  /\ \A k \in 1..Cardinality(S) : f[k] \in S
  /\ \A i \in S : \E k \in 1..Cardinality(S) : f[k] = i

LEMMA AscendingOnto ==
  ASSUME NEW n \in Nat, NEW S \in SUBSET (1..n), NEW f \in Ascending(S)
  PROVE  Lists(f, S)
<1> DEFINE c == Cardinality(S)
<1>1. IsFiniteSet(S) /\ c \in Nat
  <2>1. IsFiniteSet(1..n)
    BY FS_Interval
  <2> QED
    BY <2>1, FS_Subset, FS_CardinalityType
<1>2. f \in [1..c -> S] /\ \A i, j \in 1..c : i < j => f[i] < f[j]
  BY DEF Ascending
<1>3. IsFiniteSet(1..c) /\ Cardinality(1..c) = c
  <2>1. 1 \in Int /\ c \in Int
    BY <1>1
  <2> HIDE DEF c
  <2>2. IsFiniteSet(1..c) /\ Cardinality(1..c) = IF 1 > c THEN 0 ELSE c - 1 + 1
    BY <2>1, FS_Interval
  <2> QED
    BY <1>1, <2>2
<1> HIDE DEF c
<1>4. f \in Injection(1..c, S)
  <2>0. \A i \in S : i \in Nat
    OBVIOUS
  <2>1. \A i \in 1..c : f[i] \in Nat
    BY <1>2, <2>0
  <2>2. \A i, j \in 1..c : f[i] = f[j] => i = j
    BY <1>1, <1>2, <2>1
  <2> QED
    BY <1>2, <2>2 DEF Injection, IsInjective
<1>5. f \in Surjection(1..c, S)
  BY <1>1, <1>3, <1>4, FS_Injection DEF c
<1>6. \A i \in S : \E k \in 1..c : f[k] = i
  BY <1>5 DEF Surjection
<1> QED
  BY <1>1, <1>2, <1>6 DEF c, Lists

-----------------------------------------------------------------------------
(* The store.                                                              *)

\* An agent that still holds entries it has dropped from the index is at the
\* end of the operation that dropped them, or past it.
Untouched(a) == stale[a] > 0 => pc[a] \in Quiescent \cup {"c_info", "c_unlink", "unlock"}

\* The entry that is being inserted is not marked.
Unmarked(a) == pc[a] \in Inserting => ~index[pos[a] + 1].del

\* The new index holds what the agent that has written it holds.
Written(a) == pc[a] \in {"c_info", "c_unlink"} => Alike(index, mem[a])

StoreInv == LInv /\ \A a \in Agents : Untouched(a) /\ Unmarked(a) /\ Written(a)

\* What a step may do to the store.
Keeps     == Alike(Contents', Contents) /\ UNCHANGED <<inserted, condemned>>
Marks     == /\ Remarked(Contents', Contents) /\ Messages(Contents) \subseteq Msgs
             /\ UNCHANGED <<inserted, condemned>>
Accepts(m) ==
  /\ m \notin inserted /\ inserted' = inserted \cup {m} /\ condemned' = condemned
  /\ Messages(Contents)' = Messages(Contents) \cup {m}
  /\ MarkedIn(Contents)' = MarkedIn(Contents)
Drops(S) ==
  /\ S \subseteq inserted /\ inserted' = inserted /\ condemned' = condemned \cup S
  /\ Without(Contents', Contents, S)

StoreStep == Keeps \/ Marks \/ (\E m \in Msgs : Accepts(m)) \/ (\E S \in SUBSET Msgs : Drops(S))

\* MessageStore allows that.
LEMMA StoreSteps ==
  ASSUME StoreStep
  PROVE  [Store!Next]_(Store!vars)
<1>1. CASE Keeps
  BY <1>1 DEF Keeps, Alike, Store!vars
<1>2. CASE Marks
  <2>1. /\ Messages(Contents)' = Messages(Contents) /\ UNCHANGED <<inserted, condemned>>
        /\ Messages(Contents) \subseteq Msgs
    BY <1>2 DEF Marks, Remarked
  <2>2. CASE MarkedIn(Contents)' = MarkedIn(Contents)
    BY <2>1, <2>2 DEF Store!vars
  <2>3. ASSUME NEW m \in Messages(Contents), MarkedIn(Contents)' = MarkedIn(Contents) \cup {m}
        PROVE  [Store!Next]_(Store!vars)
    <3>1. m \in Msgs /\ Store!Mark(m)
      BY <2>1, <2>3 DEF Store!Mark
    <3> QED
      BY <3>1 DEF Store!Next
  <2>4. ASSUME NEW m \in Messages(Contents), MarkedIn(Contents)' = MarkedIn(Contents) \ {m}
        PROVE  [Store!Next]_(Store!vars)
    <3>1. m \in Msgs /\ Store!Unmark(m)
      BY <2>1, <2>4 DEF Store!Unmark
    <3> QED
      BY <3>1 DEF Store!Next
  <2> QED
    BY <1>2, <2>2, <2>3, <2>4 DEF Marks, Remarked
<1>3. ASSUME NEW m \in Msgs, Accepts(m) PROVE [Store!Next]_(Store!vars)
  BY <1>3 DEF Accepts, Store!Next, Store!Add
<1>4. ASSUME NEW S \in SUBSET Msgs, Drops(S) PROVE [Store!Next]_(Store!vars)
  BY <1>4 DEF Drops, Without, Store!Next, Store!Drop
<1> QED
  BY <1>1, <1>2, <1>3, <1>4 DEF StoreStep

\* Which entries the store is made of.
LEMMA NobodyCompacts ==
  ASSUME \A b \in Agents : ~Compacting(b)
  PROVE  Contents = FreshView
BY DEF Contents

LEMMA NobodyCompactsNext ==
  ASSUME \A b \in Agents : ~Compacting(b)'
  PROVE  Contents' = FreshView'
BY DEF Contents

LEMMA OneCompacts ==
  ASSUME NEW a \in Agents, Compacting(a), \A b \in Agents : Compacting(b) => b = a
  PROVE  Contents = mem[a]
<1>1. (CHOOSE b \in Agents : Compacting(b)) = a
  OBVIOUS
<1> QED
  BY <1>1 DEF Contents

LEMMA OneCompactsNext ==
  ASSUME NEW a \in Agents, Compacting(a)', \A b \in Agents : Compacting(b)' => b = a
  PROVE  Contents' = mem'[a]
<1>1. (CHOOSE b \in Agents : Compacting(b)') = a
  OBVIOUS
<1> QED
  BY <1>1 DEF Contents

\* Before and after a step of agent a, alone.
LEMMA AloneContents ==
  ASSUME NEW a \in Agents, Alone(a), \A b \in Agents \ {a} : pc'[b] = pc[b]
  PROVE  /\ Compacting(a) => Contents = mem[a]
         /\ ~Compacting(a) => Contents = FreshView
         /\ Compacting(a)' => Contents' = mem'[a]
         /\ ~Compacting(a)' => Contents' = FreshView'
<1>1. \A b \in Agents : (Compacting(b) => b = a) /\ (Compacting(b)' => b = a)
  BY DEF Alone, Quiescent, Compacting
<1> QED
  BY <1>1, NobodyCompacts, NobodyCompactsNext, OneCompacts, OneCompactsNext

\* What the next agent to open the database gets to see.
LEMMA SoundNow ==
  ASSUME LInv, NEW a \in Agents, Alone(a), pc[a] \notin {"c_info", "c_unlink"}
  PROVE  Sound(index, info, changes)
<1>1. TypeOK /\ DiskInv(pc[a], a)
  BY DEF LInv, IInv
<1>2. /\ index \in Seq(Entry) /\ info \in Nat /\ changes \in Seq(Record)
      /\ Len(index) \in Nat /\ pos[a] \in Nat
  BY <1>1, Natural
<1>3. Numbered(changes, info) /\ Apart(index)
  BY <1>1 DEF DiskInv, Counts, Entries, Apart
<1>4. Counted <= Len(index)
  BY <1>1, <1>2 DEF DiskInv, Counts
<1> QED
  BY <1>2, <1>3, <1>4 DEF Sound, Counted

LEMMA FreshNow ==
  ASSUME LInv, NEW a \in Agents, Alone(a), pc[a] \notin {"c_info", "c_unlink"}
  PROVE  /\ FreshView \in Seq(Entry) /\ Names(FreshView, index) /\ Apart(FreshView)
         /\ Messages(FreshView) \subseteq Msgs
<1>1. Sound(index, info, changes)
  BY SoundNow
<1>2. Len(changes) \in Nat /\ index \in Seq(Entry) /\ Apart(index)
  BY <1>1 DEF Sound
<1>3. /\ FreshView \in Seq(Entry) /\ Names(FreshView, index)
      /\ Len(FreshView) <= Len(index)
  BY <1>1, <1>2, ReplayNames DEF FreshView, View
<1>4. Apart(FreshView)
  BY <1>2, <1>3, NamesApart
<1>5. \A i \in 1..Len(FreshView) : FreshView[i].msg \in Msgs
  <2> DEFINE v == FreshView
  <2>1. v \in Seq(Entry)
    BY <1>3
  <2> HIDE DEF v
  <2>2. \A i \in 1..Len(v) : v[i] \in Entry
    BY <2>1
  <2>3. \A e \in Entry : e.msg \in Msgs
    BY DEF Entry
  <2> QED
    BY <2>2, <2>3 DEF v
<1> QED
  BY <1>3, <1>4, <1>5 DEF Messages, LiveAt

\* The log has got no longer.
LEMMA FreshKept ==
  ASSUME TypeOK, TypeOK', Extends, changes' = changes
  PROVE  FreshView' = FreshView
<1>1. PICK w \in Nat : w = Len(changes)
  BY DEF TypeOK, DiskOK
<1>2. View(w)' = View(w)
  BY <1>1, ViewKept
<1> QED
  BY <1>1, <1>2 DEF FreshView

LEMMA DiskKept ==
  ASSUME UNCHANGED <<index, info, changes>>
  PROVE  FreshView' = FreshView
BY DEF FreshView, View

\* Agent a, alone, has taken a step.
LEMMA StoreInvStep ==
  ASSUME StoreInv, LInv', NEW a \in Agents, Alone(a), \A b \in Agents \ {a} : pc'[b] = pc[b],
         Untouched(a)', Unmarked(a)', Written(a)'
  PROVE  StoreInv'
<1>1. ASSUME NEW b \in Agents \ {a} PROVE (Untouched(b) /\ Unmarked(b) /\ Written(b))'
  <2>1. pc'[b] \in Quiescent
    BY DEF Alone
  <2> QED
    BY <2>1 DEF Untouched, Unmarked, Written, Quiescent, Inserting
<1> QED
  BY <1>1 DEF StoreInv

\* And it has nothing to do with a compaction, nor shows in the log.
LEMMA Quietly ==
  ASSUME StoreInv, LInv', NEW a \in Agents, Alone(a), ~Compacting(a), ~Compacting(a)',
         \A b \in Agents \ {a} : pc'[b] = pc[b],
         FreshView' = FreshView, UNCHANGED <<inserted, condemned, stale>>,
         stale[a] = 0 \/ pc'[a] \in Quiescent \cup {"unlock"}, Unmarked(a)'
  PROVE  StoreInv' /\ StoreStep
<1>1. Contents' = Contents
  BY AloneContents
<1>2. Keeps
  BY <1>1 DEF Keeps, Alike
<1>3. stale[a] \in Nat
  BY Natural DEF StoreInv, LInv, IInv
<1>4. Untouched(a)' /\ Written(a)'
  BY <1>3 DEF Untouched, Written, Compacting
<1> QED
  BY <1>2, <1>4, StoreInvStep DEF StoreStep

\* A step that leaves the files and the entries alone, and nobody's place
\* within an operation.
LEMMA Aside ==
  ASSUME StoreInv, LInv', UNCHANGED <<disk, pos, mem, stale, history>>,
         \A b \in Agents : pc'[b] = pc[b] \/ (pc[b] \in Quiescent /\ pc'[b] \in Quiescent)
  PROVE  StoreInv' /\ StoreStep
<1>1. \A b \in Agents : Compacting(b)' <=> Compacting(b)
  BY DEF Compacting, Quiescent
<1>2. FreshView' = FreshView
  BY DiskKept DEF disk
<1>3. Contents' = Contents
  <2>1. CASE \A b \in Agents : ~Compacting(b)
    BY <1>1, <1>2, <2>1, NobodyCompacts, NobodyCompactsNext
  <2>2. ASSUME NEW a \in Agents, Compacting(a) PROVE Contents' = Contents
    <3>1. Alone(a)
      BY <2>2, ActiveAlone DEF StoreInv, Compacting, Quiescent
    <3>2. \A b \in Agents : Compacting(b) => b = a
      BY <3>1 DEF Alone, Compacting, Quiescent
    <3>3. Contents = mem[a] /\ Contents' = mem'[a]
      BY <1>1, <2>2, <3>2, OneCompacts, OneCompactsNext
    <3> QED
      BY <3>3
  <2> QED
    BY <2>1, <2>2
<1>4. Keeps
  BY <1>3 DEF Keeps, Alike, history
<1>5. \A b \in Agents : (Untouched(b) /\ Unmarked(b) /\ Written(b))'
  <2> SUFFICES ASSUME NEW b \in Agents PROVE (Untouched(b) /\ Unmarked(b) /\ Written(b))'
    OBVIOUS
  <2>1. Untouched(b) /\ Unmarked(b) /\ Written(b)
    BY DEF StoreInv
  <2> QED
    BY <2>1 DEF Untouched, Unmarked, Written, Quiescent, Inserting, Alike, disk
<1> QED
  BY <1>4, <1>5 DEF StoreInv, StoreStep

-----------------------------------------------------------------------------
(* Steps that do not show in the store.                                    *)

\* Agent a, alone, goes to label l and leaves the files and the entries alone.
LEMMA QuietlyTo ==
  ASSUME StoreInv, LInv', NEW a \in Agents, Alone(a), ~Compacting(a), NEW l, Goto(a, l),
         l \notin Inserting \cup {"c_files", "c_index", "c_info", "c_unlink"},
         UNCHANGED <<index, info, changes, stale, inserted, condemned>>,
         stale[a] = 0 \/ l \in Quiescent \cup {"unlock"}
  PROVE  StoreInv' /\ StoreStep
<1>1. TypeOK
  BY DEF StoreInv, LInv, IInv
<1>2. pc'[a] = l /\ \A b \in Agents \ {a} : pc'[b] = pc[b]
  BY <1>1, Gone
<1>3. ~Compacting(a)' /\ Unmarked(a)' /\ FreshView' = FreshView
  BY <1>2, DiskKept DEF Compacting, Unmarked
<1> QED
  BY <1>2, <1>3, Quietly

LEMMA ReadLockStore ==
  ASSUME StoreInv, LInv', NEW a \in Agents, ReadLock(a)
  PROVE  StoreInv' /\ StoreStep
<1>1. /\ pc[a] = "idle" /\ ~isRead[a] /\ lock = None /\ Goto(a, "r_info")
      /\ UNCHANGED <<index, info, changes, stale, inserted, condemned>>
  BY DEF ReadLock, Idle, Enter, Lock, disk, memory, history
<1>2. Alone(a) /\ stale[a] = 0
  BY <1>1, LockAlone DEF StoreInv, LInv, Session, Alone
<1> QED
  BY <1>1, <1>2, QuietlyTo DEF Compacting, Inserting

\* An agent in the middle of an operation that has not dropped entries.
LEMMA Midway ==
  ASSUME StoreInv, NEW a \in Agents, pc[a] \notin Quiescent,
         pc[a] \notin {"c_info", "c_unlink", "unlock"}
  PROVE  Alone(a) /\ stale[a] = 0
<1>1. Alone(a)
  BY ActiveAlone DEF StoreInv
<1>2. stale[a] \in Nat
  BY Natural DEF StoreInv, LInv, IInv
<1> QED
  BY <1>1, <1>2 DEF StoreInv, Untouched

LEMMA ReadInfoStore ==
  ASSUME StoreInv, LInv', NEW a \in Agents, ReadInfo(a)
  PROVE  StoreInv' /\ StoreStep
<1>1. /\ pc[a] = "r_info" /\ Goto(a, "r_index")
      /\ UNCHANGED <<index, info, changes, stale, inserted, condemned>>
  BY DEF ReadInfo, disk, memory, history
<1>2. Alone(a) /\ stale[a] = 0
  BY <1>1, Midway DEF Quiescent
<1> QED
  BY <1>1, <1>2, QuietlyTo DEF Compacting, Inserting

LEMMA ReadIndexStore ==
  ASSUME StoreInv, LInv', NEW a \in Agents, ReadIndex(a)
  PROVE  StoreInv' /\ StoreStep
<1>1. /\ pc[a] = "r_index" /\ Goto(a, "sync")
      /\ UNCHANGED <<index, info, changes, stale, inserted, condemned>>
  BY DEF ReadIndex, disk, history
<1>2. Alone(a) /\ stale[a] = 0
  BY <1>1, Midway DEF Quiescent
<1> QED
  BY <1>1, <1>2, QuietlyTo DEF Compacting, Inserting

LEMMA SyncStatStore ==
  ASSUME StoreInv, LInv', NEW a \in Agents, SyncStat(a)
  PROVE  StoreInv' /\ StoreStep
<1>1. /\ pc[a] = "sync" /\ UNCHANGED <<index, info, changes, stale, inserted, condemned>>
  BY DEF SyncStat, disk, history
<1>2. Alone(a) /\ stale[a] = 0
  BY <1>1, Midway DEF Quiescent
<1>3. Goto(a, "unlock") \/ Goto(a, "apply")
  BY <1>1, Returns DEF SyncStat, StoreInv, Syncing
<1> QED
  BY <1>1, <1>2, <1>3, QuietlyTo DEF Compacting, Inserting

LEMMA SyncApplyStore ==
  ASSUME StoreInv, LInv', NEW a \in Agents, SyncApply(a)
  PROVE  StoreInv' /\ StoreStep
<1>1. /\ pc[a] = "apply" /\ pc' = pc
      /\ UNCHANGED <<index, info, changes, stale, inserted, condemned>>
  BY DEF SyncApply, disk, history
<1>2. Alone(a) /\ stale[a] = 0
  BY <1>1, Midway DEF Quiescent
<1>3. ~Compacting(a) /\ ~Compacting(a)' /\ Unmarked(a)' /\ FreshView' = FreshView
  BY <1>1, DiskKept DEF Compacting, Unmarked, Inserting
<1> QED
  BY <1>1, <1>2, <1>3, Quietly

LEMMA GetMessageStore ==
  ASSUME StoreInv, LInv', NEW a \in Agents, GetMessage(a)
  PROVE  StoreInv' /\ StoreStep
<1>1. /\ pc[a] = "idle" /\ lock = None /\ Goto(a, "unlock")
      /\ UNCHANGED <<index, info, changes, stale, inserted, condemned>>
  BY DEF GetMessage, Idle, Enter, Lock, disk, memory, history
<1>2. Alone(a)
  BY <1>1, LockAlone DEF StoreInv, Alone
<1> QED
  BY <1>1, <1>2, QuietlyTo DEF Compacting, Inserting

LEMMA UnlockStore ==
  ASSUME StoreInv, LInv', NEW a \in Agents, Unlock(a)
  PROVE  StoreInv' /\ StoreStep
<1>1. /\ pc[a] = "unlock" /\ Goto(a, "idle")
      /\ UNCHANGED <<index, info, changes, stale, inserted, condemned>>
  BY DEF Unlock, disk, memory, history
<1>2. Alone(a)
  BY <1>1, ActiveAlone DEF StoreInv, Quiescent
<1> QED
  BY <1>1, <1>2, QuietlyTo DEF Compacting, Inserting, Quiescent

LEMMA CloseStore ==
  ASSUME StoreInv, LInv', NEW a \in Agents, Close(a)
  PROVE  StoreInv' /\ StoreStep
<1>1. TypeOK
  BY DEF StoreInv, LInv, IInv
<1>2. pc[a] = "idle" /\ Goto(a, "dead") /\ UNCHANGED <<disk, pos, mem, stale, history>>
  BY DEF Close, Idle, locals
<1>3. pc'[a] = "dead" /\ \A b \in Agents \ {a} : pc'[b] = pc[b]
  BY <1>1, <1>2, Gone
<1> QED
  BY <1>2, <1>3, Aside DEF Quiescent

LEMMA NoStepStore ==
  ASSUME StoreInv, LInv', UNCHANGED <<disk, control, memory, history>>
  PROVE  StoreInv' /\ StoreStep
BY Aside DEF control, locals, memory

-----------------------------------------------------------------------------
(* An insertion.                                                           *)

LEMMA InsertIndexStore ==
  ASSUME StoreInv, LInv', Extends, NEW a \in Agents, NEW m \in Msgs, InsertIndex(a, m), Restarts
  PROVE  StoreInv' /\ StoreStep
<1> DEFINE e == [msg |-> m, del |-> FALSE, kw |-> NoKeywords, gone |-> FALSE]
<1>1. TypeOK /\ TypeOK'
  BY DEF StoreInv, LInv, IInv
<1>2. /\ pc[a] = "idle" /\ lock = None /\ Goto(a, "i_file")
      /\ pos' = [pos EXCEPT ![a] = Len(index)] /\ index' = Append(index, e)
      /\ changes' = changes /\ UNCHANGED <<stale, inserted, condemned>>
  BY DEF InsertIndex, Operation, Idle, Enter, Lock, memory, history
<1>3. Alone(a)
  BY <1>2, LockAlone DEF StoreInv, Alone
<1>4. pc'[a] = "i_file" /\ \A b \in Agents \ {a} : pc'[b] = pc[b]
  BY <1>1, <1>2, Gone
<1>5. stale[a] = 0
  BY <1>1, <1>2, <1>4, Natural DEF Restarts, Idle
<1>6. index'[pos'[a] + 1] = e
  <2>1. pos'[a] = Len(index) /\ Len(index) \in Nat /\ index \in Seq(Entry)
    BY <1>1, <1>2, Natural DEF TypeOK, ControlOK
  <2>2. e \in Entry
    BY ConstantsAssumption DEF Entry
  <2> HIDE DEF e
  <2> QED
    BY <1>2, <2>1, <2>2
<1>7. Unmarked(a)'
  BY <1>6 DEF Unmarked
<1>8. FreshView' = FreshView
  BY <1>1, <1>2, FreshKept
<1> QED
  BY <1>2, <1>3, <1>4, <1>5, <1>7, <1>8, Quietly DEF Compacting

LEMMA InsertFileStore ==
  ASSUME StoreInv, LInv', Extends, NEW a \in Agents, InsertFile(a)
  PROVE  StoreInv' /\ StoreStep
<1>1. TypeOK /\ TypeOK'
  BY DEF StoreInv, LInv, IInv
<1>2. /\ pc[a] = "i_file" /\ Goto(a, "i_log")
      /\ UNCHANGED <<index, info, changes, pos, stale, inserted, condemned>>
  BY DEF InsertFile, locals, memory, history
<1>3. Alone(a) /\ stale[a] = 0
  BY <1>2, Midway DEF Quiescent
<1>4. pc'[a] = "i_log" /\ \A b \in Agents \ {a} : pc'[b] = pc[b]
  BY <1>1, <1>2, Gone
<1>5. Unmarked(a)'
  BY <1>2 DEF StoreInv, Unmarked, Inserting
<1> QED
  BY <1>2, <1>3, <1>4, <1>5, DiskKept, Quietly DEF Compacting

LEMMA InsertFailStore ==
  ASSUME StoreInv, LInv', Extends, NEW a \in Agents, InsertFail(a)
  PROVE  StoreInv' /\ StoreStep
<1>1. TypeOK /\ TypeOK'
  BY DEF StoreInv, LInv, IInv
<1>2. /\ pc[a] \in {"i_file", "i_log"} /\ Goto(a, "unlock") /\ changes' = changes
      /\ UNCHANGED <<stale, inserted, condemned>>
  BY DEF InsertFail, memory, history
<1>3. Alone(a) /\ stale[a] = 0
  BY <1>2, Midway DEF Quiescent
<1>4. pc'[a] = "unlock" /\ \A b \in Agents \ {a} : pc'[b] = pc[b]
  BY <1>1, <1>2, Gone
<1>5. FreshView' = FreshView
  BY <1>1, <1>2, FreshKept
<1>6. ~Compacting(a) /\ ~Compacting(a)' /\ Unmarked(a)'
  BY <1>2, <1>4 DEF Compacting, Unmarked, Inserting
<1> QED
  BY <1>2, <1>3, <1>4, <1>5, <1>6, Quietly

\* The record makes the message one of the store's.
LEMMA InsertChangesStore ==
  ASSUME StoreInv, LInv', Extends, NEW a \in Agents, InsertChanges(a)
  PROVE  StoreInv' /\ StoreStep
<1> DEFINE r == [op |-> "a", at |-> pos[a] + 1]
           e == index[pos[a] + 1]
<1>1. TypeOK /\ TypeOK' /\ SessionOK /\ Session(a) /\ Unmarked(a)
  BY DEF StoreInv, LInv, IInv
<1>2. /\ pc[a] = "i_log" /\ Goto(a, "sync") /\ changes' = Append(changes, r)
      /\ inserted' = inserted \cup {arg[a]} /\ condemned' = condemned
      /\ UNCHANGED <<index, info, stale>>
  BY DEF InsertChanges, memory
<1>3. Alone(a) /\ stale[a] = 0 /\ DiskInv(pc[a], a)
  BY <1>2, Midway, ActiveAlone DEF Quiescent, StoreInv
<1>4. pc'[a] = "sync" /\ \A b \in Agents \ {a} : pc'[b] = pc[b]
  BY <1>1, <1>2, Gone
<1>5. /\ index \in Seq(Entry) /\ pos[a] \in Nat /\ Len(index) = pos[a] + 1
      /\ index[pos[a] + 1].msg = arg[a] /\ changes \in Seq(Record)
  BY <1>1, <1>2, <1>3, Natural DEF DiskInv, Counts, Inserting
<1>6. pos[a] + 1 \in 1..Len(index)
  BY <1>5
<1>7. e \in Entry /\ e.msg = arg[a] /\ ~e.gone /\ ~e.del
  BY <1>1, <1>2, <1>3, <1>5, <1>6 DEF DiskInv, Entries, Unmarked, Inserting
<1>8. arg[a] \in Msgs /\ arg[a] \notin inserted
  BY <1>1, <1>2, ConstantsAssumption DEF SessionOK, Session
<1>9. FreshView' = Append(FreshView, e)
  <2>1. PICK w \in Nat : w = Len(changes)
    BY <1>5
  <2>2. View(w)' = View(w)
    BY <1>1, <2>1, ViewKept
  <2>3. Replay(index, info, changes', w) = FreshView
    BY <1>2, <2>1, <2>2 DEF View, FreshView
  <2>4. r \in Record /\ r.op = "a" /\ r.at = pos[a] + 1
    BY <1>5 DEF Record
  <2> HIDE DEF r
  <2>5. Len(changes') = w + 1 /\ changes'[w + 1] = r
    BY <1>2, <1>5, <2>1, <2>4
  <2>6. FreshView' = Replay(index, info, changes', w + 1)
    BY <1>2, <2>5 DEF FreshView, View
  <2>7. FreshView' = Applied(index, FreshView, r)
    BY <2>3, <2>5, <2>6, ReplayNext
  <2>8. Applied(index, FreshView, r) = Append(FreshView, e)
    BY <1>6, <2>4 DEF Applied
  <2> QED
    BY <2>7, <2>8
<1>10. FreshView \in Seq(Entry)
  BY <1>2, <1>3, FreshNow DEF StoreInv
<1>11. Contents = FreshView /\ Contents' = FreshView'
  BY <1>2, <1>3, <1>4, AloneContents DEF Compacting
<1> HIDE DEF e
<1>12. Messages(Contents') = Messages(Contents) \cup {arg[a]} /\ MarkedIn(Contents') = MarkedIn(Contents)
  BY <1>7, <1>9, <1>10, <1>11, InsertApplied
<1>13. Messages(Contents)' = Messages(Contents') /\ MarkedIn(Contents)' = MarkedIn(Contents')
  OBVIOUS
<1>14. Accepts(arg[a])
  BY <1>2, <1>8, <1>12, <1>13 DEF Accepts
<1>15. (Untouched(a) /\ Unmarked(a) /\ Written(a))'
  BY <1>2, <1>3, <1>4 DEF Untouched, Unmarked, Written, Inserting
<1> QED
  BY <1>3, <1>4, <1>8, <1>14, <1>15, StoreInvStep DEF StoreStep

-----------------------------------------------------------------------------
(* A compaction.                                                           *)

\* An agent that has read the whole log holds what it says.
LEMMA AtEnd ==
  ASSUME StoreInv, NEW a \in Agents, isRead[a], stale[a] = 0, Where(a) = Len(changes),
         pc[a] \in {"apply", "c_files", "c_index"}
  PROVE  Alike(mem[a], FreshView) /\ Alike(FreshView, mem[a])
<1>1. Alone(a) /\ mem[a] \in Seq(Entry)
  BY ActiveAlone, Natural DEF StoreInv, LInv, IInv, Quiescent
<1>2. FreshView \in Seq(Entry)
  BY <1>1, FreshNow DEF StoreInv
<1>3. SameButKeys(mem[a], FreshView)
  BY DEF StoreInv, LInv, Meant, AtLog, FreshView
<1>4. Alike(mem[a], FreshView)
  BY <1>1, <1>2, <1>3, SameMeaning
<1> QED
  BY <1>4 DEF Alike

LEMMA SyncEndStore ==
  ASSUME StoreInv, LInv', NEW a \in Agents, SyncEnd(a)
  PROVE  StoreInv' /\ StoreStep
<1>1. /\ pc[a] = "apply" /\ pos[a] >= Len(changes)
      /\ UNCHANGED <<index, info, changes, mem, stale, inserted, condemned>>
  BY DEF SyncEnd, disk, memory, history
<1>2. Alone(a) /\ stale[a] = 0 /\ TypeOK /\ SessionOK
  BY <1>1, Midway DEF Quiescent, StoreInv, LInv, IInv
<1>3. \/ Goto(a, "unlock") \/ Goto(a, "c_files")
      \/ Goto(a, "c_info") /\ ~needRewrite[a]
  BY <1>1, Returns DEF SyncEnd, StoreInv, Syncing
<1>4. isRead[a] /\ Replayed(a) /\ Meant(a) /\ DiskInv(pc[a], a)
  BY <1>1, <1>2 DEF SessionOK, Syncing, StoreInv, LInv
<1>5. CASE Goto(a, "unlock")
  BY <1>1, <1>2, <1>5, QuietlyTo DEF Compacting, Inserting
<1>6. ASSUME NEW l \in {"c_files", "c_info"}, Goto(a, l), l = "c_info" => ~needRewrite[a]
      PROVE  StoreInv' /\ StoreStep
  <2>1. pc'[a] = l /\ \A b \in Agents \ {a} : pc'[b] = pc[b]
    BY <1>2, <1>6, Gone
  <2>2. /\ pos[a] \in Nat /\ Len(changes) \in Nat /\ info \in Nat /\ Len(mem[a]) \in Nat
        /\ mem[a] \in Seq(Entry) /\ index \in Seq(Entry) /\ Len(index) \in Nat
    BY <1>2, Natural
  <2>3. Where(a) = Len(changes)
    BY <1>1, <1>4, <2>2 DEF Replayed, Where
  <2>4. Contents = FreshView /\ Contents' = mem[a]
    BY <1>1, <1>2, <2>1, AloneContents DEF Compacting
  <2>5. Alike(mem[a], FreshView)
    BY <1>1, <1>2, <1>4, <2>3, AtEnd
  <2>6. Keeps
    BY <1>1, <2>4, <2>5 DEF Keeps
  <2>7. Untouched(a)' /\ Unmarked(a)'
    BY <1>1, <1>2, <2>1 DEF Untouched, Unmarked, Inserting
  <2>8. Written(a)'
    <3> SUFFICES ASSUME l = "c_info" PROVE Alike(index, mem[a])
      BY <1>1, <2>1 DEF Written
    <3>1. AtIndex(a)
      BY <1>2, <1>4, <1>6 DEF Meant
    <3>2. Len(mem[a]) = Len(index)
      <4> DEFINE A == Adds(changes, Len(changes))
      <4>1. A \in Nat
        BY <2>2, AddsFinite
      <4>2. Len(mem[a]) - 0 = info + A /\ Len(index) = info + A
        BY <1>1, <1>2, <1>4, <2>3 DEF Replayed, DiskInv, Counts, Counted, Inserting
      <4> HIDE DEF A
      <4> QED
        BY <2>2, <4>1, <4>2
    <3>3. SubSeq(index, 1, Len(mem[a])) = index
      BY <2>2, <3>2
    <3>4. Alike(mem[a], index)
      BY <2>2, <3>1, <3>3, SameMeaning DEF AtIndex
    <3> QED
      BY <3>4 DEF Alike
  <2> QED
    BY <1>2, <2>1, <2>6, <2>7, <2>8, StoreInvStep DEF StoreStep
<1> QED
  BY <1>3, <1>5, <1>6

\* From one step of the compaction to the next.
LEMMA CompactsOn ==
  ASSUME StoreInv, LInv', NEW a \in Agents, Compacting(a), NEW l, Goto(a, l),
         l \in {"c_index", "c_info", "c_unlink"}, UNCHANGED <<mem, inserted, condemned>>,
         stale'[a] = 0 \/ l # "c_index", Written(a)'
  PROVE  StoreInv' /\ StoreStep
<1>1. TypeOK /\ Alone(a)
  BY ActiveAlone DEF StoreInv, LInv, IInv, Compacting, Quiescent
<1>2. pc'[a] = l /\ \A b \in Agents \ {a} : pc'[b] = pc[b]
  BY <1>1, Gone
<1>3. Contents = mem[a] /\ Contents' = mem[a]
  BY <1>1, <1>2, AloneContents DEF Compacting
<1>4. Keeps
  BY <1>3 DEF Keeps, Alike
<1>5. (Untouched(a) /\ Unmarked(a))'
  BY <1>2 DEF Untouched, Unmarked, Inserting
<1> QED
  BY <1>1, <1>2, <1>4, <1>5, StoreInvStep DEF StoreStep

LEMMA CompactFilesStore ==
  ASSUME StoreInv, LInv', NEW a \in Agents, CompactFiles(a)
  PROVE  StoreInv' /\ StoreStep
<1>1. /\ pc[a] = "c_files" /\ Goto(a, "c_index")
      /\ UNCHANGED <<mem, stale, inserted, condemned>>
  BY DEF CompactFiles, memory, history
<1>2. stale[a] = 0 /\ TypeOK
  BY <1>1, Midway DEF Quiescent, StoreInv, LInv, IInv
<1>3. pc'[a] = "c_index"
  BY <1>1, <1>2, Gone
<1> QED
  BY <1>1, <1>2, <1>3, CompactsOn DEF Compacting, Written

LEMMA CompactIndexStore ==
  ASSUME StoreInv, LInv', NEW a \in Agents, CompactIndex(a)
  PROVE  StoreInv' /\ StoreStep
<1> DEFINE m == mem[a]
           L == LiveAt(m)
           n == Cardinality(L)
<1>1. /\ pc[a] = "c_index" /\ Goto(a, "c_info")
      /\ \E f \in Ascending(L) : index' = [i \in 1..n |-> m[f[i]]]
      /\ UNCHANGED <<mem, inserted, condemned>>
  BY DEF CompactIndex, history
<1>2. TypeOK /\ m \in Seq(Entry) /\ Len(m) \in Nat
  BY Natural DEF StoreInv, LInv, IInv
<1>3. L \in SUBSET (1..Len(m)) /\ \A i \in L : ~m[i].gone
  BY DEF LiveAt
<1> HIDE DEF m, L
<1>4. PICK f \in Ascending(L) : index' = [i \in 1..n |-> m[f[i]]]
  BY <1>1
<1>5. /\ n \in Nat /\ \A k \in 1..n : f[k] \in L
      /\ \A i \in L : \E k \in 1..n : f[k] = i
  <2>1. PICK l \in Nat : l = Len(m)
    BY <1>2
  <2>2. L \in SUBSET (1..l)
    BY <1>3, <2>1
  <2> QED
    BY <1>4, <2>2, AscendingOnto DEF Lists
<1> HIDE DEF n
<1>6. Len(index') = n /\ \A k \in 1..n : index'[k] = m[f[k]]
  <2>1. DOMAIN index' = 1..n
    BY <1>4
  <2>2. Len(index') \in Nat /\ DOMAIN index' = 1..Len(index')
    BY DEF LInv, IInv, TypeOK, DiskOK
  <2> QED
    BY <1>4, <1>5, <2>1, <2>2
<1>7. LiveAt(index') = 1..n
  <2>1. \A k \in 1..n : ~index'[k].gone
    BY <1>3, <1>5, <1>6
  <2> QED
    BY <1>6, <2>1 DEF LiveAt
<1>8. \A k \in 1..n : index'[k].msg = m[f[k]].msg /\ (index'[k].del <=> m[f[k]].del)
  BY <1>6
<1>9. Messages(index') = Messages(m)
  BY <1>5, <1>7, <1>8 DEF Messages, L
<1>10. MarkedIn(index') = MarkedIn(m)
  <2>1. \A k \in {j \in 1..n : index'[j].del} : f[k] \in {j \in L : m[j].del}
    BY <1>5, <1>8
  <2>2. \A i \in {j \in L : m[j].del} : \E k \in {j \in 1..n : index'[j].del} : f[k] = i
    BY <1>5, <1>8
  <2>3. {index'[i].msg : i \in {j \in 1..n : index'[j].del}}
          = {m[i].msg : i \in {j \in L : m[j].del}}
    BY <1>8, <2>1, <2>2
  <2> QED
    BY <1>7, <2>3 DEF MarkedIn, L
<1>11. pc'[a] = "c_info"
  BY <1>1, <1>2, Gone
<1>12. Written(a)'
  BY <1>1, <1>9, <1>10 DEF Written, Alike, m
<1> QED
  BY <1>1, <1>12, CompactsOn DEF Compacting

LEMMA CompactInfoStore ==
  ASSUME StoreInv, LInv', NEW a \in Agents, CompactInfo(a)
  PROVE  StoreInv' /\ StoreStep
<1>1. /\ pc[a] = "c_info" /\ Goto(a, "c_unlink")
      /\ UNCHANGED <<index, mem, stale, inserted, condemned>>
  BY DEF CompactInfo, memory, history
<1>2. Written(a)
  BY DEF StoreInv
<1>3. Written(a)'
  BY <1>1, <1>2 DEF Written
<1> QED
  BY <1>1, <1>3, CompactsOn DEF Compacting

\* The log is gone and the index says the same.
LEMMA CompactUnlinkStore ==
  ASSUME StoreInv, LInv', NEW a \in Agents, CompactUnlink(a)
  PROVE  StoreInv' /\ StoreStep
<1>1. /\ pc[a] = "c_unlink" /\ changes' = <<>>
      /\ UNCHANGED <<index, info, mem, stale, inserted, condemned>>
  BY DEF CompactUnlink, history
<1>2. Alone(a) /\ TypeOK /\ DiskInv(pc[a], a) /\ Written(a)
  BY <1>1, ActiveAlone DEF Quiescent, StoreInv, LInv, IInv
<1>3. Goto(a, "unlock")
  BY <1>1, Returns DEF CompactUnlink, StoreInv, Syncing
<1>4. pc'[a] = "unlock" /\ \A b \in Agents \ {a} : pc'[b] = pc[b]
  BY <1>2, <1>3, Gone
<1>5. FreshView' = index
  <2>1. index \in Seq(Entry) /\ info = Len(index)
    BY <1>1, <1>2, Natural DEF DiskInv, Counts
  <2>2. Len(changes') = 0
    BY <1>1
  <2>3. FreshView' = Replay(index, info, changes', 0)
    BY <1>1, <2>2 DEF FreshView, View
  <2>4. SubSeq(index, 1, Len(index)) = index
    BY <2>1
  <2> QED
    BY <2>1, <2>3, <2>4, ReplayZero
<1>6. Contents = mem[a] /\ Contents' = index
  BY <1>1, <1>2, <1>4, <1>5, AloneContents DEF Compacting
<1>7. Keeps
  BY <1>1, <1>2, <1>6 DEF Keeps, Written
<1>8. (Untouched(a) /\ Unmarked(a) /\ Written(a))'
  BY <1>4 DEF Untouched, Unmarked, Written, Inserting
<1> QED
  BY <1>2, <1>4, <1>7, <1>8, StoreInvStep DEF StoreStep

LEMMA CompactFailStore ==
  ASSUME StoreInv, LInv', NEW a \in Agents, CompactFail(a)
  PROVE  StoreInv' /\ StoreStep
<1>1. /\ pc[a] = "c_files"
      /\ UNCHANGED <<index, info, changes, mem, stale, inserted, condemned>>
  BY DEF CompactFail, disk, memory, history
<1>2. Alone(a) /\ stale[a] = 0 /\ TypeOK /\ SessionOK
  BY <1>1, Midway DEF Quiescent, StoreInv, LInv, IInv
<1>3. Goto(a, "unlock")
  BY <1>1, Returns DEF CompactFail, StoreInv, Syncing
<1>4. pc'[a] = "unlock" /\ \A b \in Agents \ {a} : pc'[b] = pc[b]
  BY <1>2, <1>3, Gone
<1>5. isRead[a] /\ Where(a) = Len(changes)
  BY <1>1, <1>2 DEF SessionOK, Syncing, StoreInv, LInv, Replayed, Compacting, Where
<1>6. Alike(FreshView, mem[a])
  BY <1>1, <1>2, <1>5, AtEnd
<1>7. Contents = mem[a] /\ Contents' = FreshView
  BY <1>1, <1>2, <1>4, AloneContents, DiskKept DEF Compacting
<1>8. Keeps
  BY <1>1, <1>6, <1>7 DEF Keeps
<1>9. (Untouched(a) /\ Unmarked(a) /\ Written(a))'
  BY <1>4 DEF Untouched, Unmarked, Written, Inserting
<1> QED
  BY <1>2, <1>4, <1>8, <1>9, StoreInvStep DEF StoreStep

-----------------------------------------------------------------------------
(* Operations that append to the log.                                      *)

\* The records come after the log as it was.
LEMMA AppendStore ==
  ASSUME StoreInv, LInv', Extends, Restarts, NEW a \in Agents, NEW rs \in Seq(Record),
         Idle(a), AppendLog(a, rs)
  PROVE  /\ StoreInv' /\ Alone(a) /\ stale[a] = 0
         /\ Contents = FreshView /\ Contents' = FreshView'
         /\ FreshView = Replay(index, info, changes', Len(changes))
         /\ FreshView' = Replay(index, info, changes', Len(changes) + Len(rs))
<1>1. TypeOK /\ TypeOK'
  BY DEF StoreInv, LInv, IInv
<1>2. /\ pc[a] = "idle" /\ lock = None /\ Goto(a, "sync") /\ changes' = changes \o rs
      /\ UNCHANGED <<index, info, stale>>
  BY DEF AppendLog, Idle, Enter, Lock, memory
<1>3. Alone(a)
  BY <1>2, LockAlone DEF StoreInv, Alone
<1>4. pc'[a] = "sync" /\ \A b \in Agents \ {a} : pc'[b] = pc[b]
  BY <1>1, <1>2, Gone
<1>5. stale[a] = 0
  <2>1. ~ (stale[a] > 0)
    BY <1>2, <1>4 DEF Restarts, Idle
  <2>2. stale[a] \in Nat
    BY <1>1, Natural
  <2> QED
    BY <2>1, <2>2
<1>6. (Untouched(a) /\ Unmarked(a) /\ Written(a))'
  BY <1>2, <1>4, <1>5 DEF Untouched, Unmarked, Written, Inserting
<1>7. StoreInv'
  BY <1>3, <1>4, <1>6, StoreInvStep
<1>8. Contents = FreshView /\ Contents' = FreshView'
  BY <1>2, <1>3, <1>4, AloneContents DEF Compacting
<1>9. PICK w \in Nat : w = Len(changes)
  BY <1>1 DEF TypeOK, DiskOK
<1>10. FreshView = Replay(index, info, changes', w)
  <2>1. View(w)' = View(w)
    BY <1>1, <1>9, ViewKept
  <2> QED
    BY <1>2, <1>9, <2>1 DEF View, FreshView
<1>11. FreshView' = Replay(index, info, changes', w + Len(rs))
  <2>1. Len(changes') = w + Len(rs)
    BY <1>1, <1>2, <1>9 DEF TypeOK, DiskOK
  <2> QED
    BY <1>2, <2>1 DEF View, FreshView
<1> QED
  BY <1>3, <1>5, <1>7, <1>8, <1>9, <1>10, <1>11

\* One record does to what the next agent gets to see what it says.
LEMMA AppendOneStore ==
  ASSUME StoreInv, LInv', Restarts, NEW a \in Agents, NEW r \in Record, r.op # "a",
         Idle(a), isRead[a], AppendLog(a, <<r>>)
  PROVE  /\ StoreInv' /\ Alone(a)
         /\ Contents = FreshView /\ Contents' = Applied(index, FreshView, r)
<1>1. <<r>> \in Seq(Record) /\ Len(<<r>>) = 1
  OBVIOUS
<1>2. /\ StoreInv' /\ Alone(a) /\ Contents = FreshView /\ Contents' = FreshView'
      /\ FreshView = Replay(index, info, changes', Len(changes))
      /\ FreshView' = Replay(index, info, changes', Len(changes) + 1)
  <2> DEFINE rs == <<r>>
  <2>1. rs \in Seq(Record) /\ Len(rs) = 1 /\ \A i \in 1..Len(rs) : rs[i].op # "a"
    OBVIOUS
  <2>2. AppendLog(a, rs)
    OBVIOUS
  <2> HIDE DEF rs
  <2>3. LInv /\ IInv'
    BY DEF StoreInv, LInv
  <2>4. Extends
    BY <2>1, <2>2, <2>3, AppendLogLog
  <2> QED
    BY <2>1, <2>2, <2>4, AppendStore
<1>3. changes' = changes \o <<r>> /\ changes \in Seq(Record)
  BY DEF AppendLog, StoreInv, LInv, IInv, TypeOK, DiskOK
<1>4. Len(changes) \in Nat /\ changes'[Len(changes) + 1] = r
  BY <1>3
<1>5. FreshView' = Applied(index, FreshView, r)
  BY <1>2, <1>4, ReplayNext
<1> QED
  BY <1>2, <1>5

LEMMA SetStatusStore ==
  ASSUME StoreInv, LInv', Restarts, NEW a \in Agents, NEW i \in 1..Len(mem[a]),
         NEW del \in BOOLEAN, SetStatus(a, i, del)
  PROVE  StoreInv' /\ StoreStep
<1> DEFINE r == [op |-> "s", at |-> i, del |-> del]
<1>1. r \in Record /\ r.op = "s"
  <2>1. Len(mem[a]) \in Nat
    BY Natural DEF StoreInv, LInv, IInv
  <2> QED
    BY <2>1 DEF Record
<1>2. /\ Idle(a) /\ isRead[a] /\ AppendLog(a, <<r>>)
      /\ inserted' = inserted /\ condemned' = condemned
  BY DEF SetStatus, Operation, AppendLog
<1> HIDE DEF r
<1>3. StoreInv' /\ Alone(a) /\ Contents = FreshView /\ Contents' = Applied(index, FreshView, r)
  BY <1>1, <1>2, AppendOneStore
<1>4. FreshView \in Seq(Entry) /\ Apart(FreshView) /\ Messages(FreshView) \subseteq Msgs
  BY <1>2, <1>3, FreshNow DEF StoreInv, Idle
<1>5. Remarked(Contents', Contents)
  BY <1>1, <1>3, <1>4, StatusApplied
<1> QED
  BY <1>2, <1>3, <1>4, <1>5 DEF StoreStep, Marks

LEMMA SetInfoStore ==
  ASSUME StoreInv, LInv', Restarts, NEW a \in Agents,
         NEW S \in SUBSET (1..Len(mem[a])), NEW kw \in Keywords, SetInfo(a, S, kw)
  PROVE  StoreInv' /\ StoreStep
<1> DEFINE r == [op |-> "k", at |-> S, kw |-> kw]
<1>1. r \in Record /\ r.op = "k"
  <2>1. Len(mem[a]) \in Nat
    BY Natural DEF StoreInv, LInv, IInv
  <2> QED
    BY <2>1 DEF Record
<1>2. /\ Idle(a) /\ isRead[a] /\ AppendLog(a, <<r>>)
      /\ inserted' = inserted /\ condemned' = condemned
  BY DEF SetInfo, Operation, AppendLog
<1> HIDE DEF r
<1>3. StoreInv' /\ Alone(a) /\ Contents = FreshView /\ Contents' = Applied(index, FreshView, r)
  BY <1>1, <1>2, AppendOneStore
<1>4. FreshView \in Seq(Entry)
  BY <1>2, <1>3, FreshNow DEF StoreInv, Idle
<1>5. Alike(Contents', Contents)
  BY <1>1, <1>3, <1>4, KeywordsApplied
<1> QED
  BY <1>2, <1>3, <1>5 DEF StoreStep, Keeps

\* An index means the same message in memory and on disk.
LEMMA SameIndices ==
  ASSUME StoreInv, NEW a \in Agents, Idle(a), isRead[a], stale[a] = 0, Alone(a)
  PROVE  /\ Len(mem[a]) <= info + Adds(changes, Len(changes))
         /\ \A i \in 1..Len(mem[a]) : mem[a][i].msg = index[i].msg
<1>1. TypeOK /\ Replayed(a) /\ Meant(a) /\ pc[a] = "idle"
  BY DEF StoreInv, LInv, IInv, Idle
<1>2. Sound(index, info, changes)
  BY <1>1, SoundNow DEF StoreInv
<1> DEFINE k == changeSize[a]
           v == View(k)
           A == Adds(changes, k)
           B == Adds(changes, Len(changes))
<1>3. /\ k \in Nat /\ k <= Len(changes) /\ Len(changes) \in Nat /\ info \in Nat
      /\ Len(mem[a]) \in Nat
  BY <1>1, Natural DEF Replayed
<1>4. SameButKeys(mem[a], v)
  BY <1>1 DEF Meant, AtLog, Where
<1>5. Len(v) = info + A /\ Names(v, index)
  BY <1>2, <1>3, ReplayNames DEF View
<1>6. A <= B /\ A \in Nat /\ B \in Nat
  BY <1>3, AddsGrow, AddsFinite
<1> HIDE DEF k, v, A, B
<1>7. Len(mem[a]) <= info + B
  BY <1>3, <1>4, <1>5, <1>6 DEF SameButKeys
<1>8. \A i \in 1..Len(mem[a]) : mem[a][i].msg = index[i].msg
  BY <1>4, <1>5 DEF SameButKeys, Names
<1> QED
  BY <1>7, <1>8 DEF B

\* One list after another.
LEMMA Joined ==
  ASSUME NEW A, NEW s \in Seq(A), NEW t \in Seq(A), NEW b \in Nat, NEW c \in Nat,
         Len(s) = b, Len(t) = c
  PROVE  /\ Len(s \o t) = b + c
         /\ \A i \in 1..b : (s \o t)[i] = s[i]
         /\ \A j \in b + 1..b + c : j - b \in 1..c /\ (s \o t)[j] = t[j - b]
<1>1. Len(s \o t) = b + c
  OBVIOUS
<1>2. \A i \in 1..b : (s \o t)[i] = s[i]
  OBVIOUS
<1>3. \A j \in b + 1..b + c : j - b \in 1..c
  OBVIOUS
<1>4. \A j \in b + 1..b + c : (s \o t)[j] = t[j - b]
  OBVIOUS
<1> QED
  BY <1>1, <1>2, <1>3, <1>4

\* What is deleted by its indices is gone by its messages.
LEMMA DeleteStore ==
  ASSUME StoreInv, LInv', Restarts, NEW a \in Agents, NEW S \in SUBSET (1..Len(mem[a])),
         Idle(a), isRead[a], Delete(a, S)
  PROVE  StoreInv' /\ StoreStep
<1> DEFINE c == Cardinality(S)
           M == {mem[a][i].msg : i \in S}
<1>1. PICK f \in Ascending(S) :
        AppendLog(a, [i \in 1..c |-> [op |-> "d", at |-> f[i]]])
  BY DEF Delete
<1> DEFINE rs == [i \in 1..c |-> [op |-> "d", at |-> f[i]]]
<1>2. /\ AppendLog(a, rs) /\ condemned' = condemned \cup M /\ inserted' = inserted
      /\ changes' = changes \o rs /\ index' = index /\ info' = info
  BY <1>1 DEF Delete, AppendLog
<1>3. TypeOK /\ Len(mem[a]) \in Nat /\ changes \in Seq(Record) /\ Remembers(a)
      /\ Len(changes) \in Nat /\ info \in Nat
  BY Natural DEF StoreInv, LInv, IInv
<1>4. rs \in Seq(Record) /\ \A i \in 1..Len(rs) : rs[i].op = "d"
  BY <1>3, DeleteRecords
<1>5. /\ c \in Nat /\ (\A k \in 1..c : f[k] \in S)
      /\ \A i \in S : \E k \in 1..c : f[k] = i
  <2>1. PICK l \in Nat : l = Len(mem[a])
    BY <1>3
  <2>2. S \in SUBSET (1..l)
    BY <2>1
  <2>3. Lists(f, S)
    BY <2>2, AscendingOnto
  <2> QED
    BY <2>3 DEF Lists
<1> HIDE DEF c
<1>6. Len(rs) = c /\ \A i \in 1..c : rs[i].at = f[i] /\ rs[i].op = "d"
  BY <1>5
<1> HIDE DEF rs
<1>7. LInv' /\ Extends
  BY <1>2, <1>4, AppendLogLog DEF StoreInv, LInv
<1>8. /\ StoreInv' /\ Alone(a) /\ stale[a] = 0
      /\ Contents = FreshView /\ Contents' = FreshView'
      /\ FreshView = Replay(index, info, changes', Len(changes))
      /\ FreshView' = Replay(index, info, changes', Len(changes) + Len(rs))
  BY <1>2, <1>4, <1>7, AppendStore
<1>9. /\ Len(mem[a]) <= info + Adds(changes, Len(changes))
      /\ \A i \in 1..Len(mem[a]) : mem[a][i].msg = index[i].msg
  BY <1>8, SameIndices
<1>10. PICK b \in Nat : b = Len(changes)
  BY <1>3
<1>11. /\ Len(changes') = b + c /\ \A i \in 1..b : changes'[i] = changes[i]
       /\ \A j \in b + 1..b + c : j - b \in 1..c /\ changes'[j] = rs[j - b]
  <2>1. changes' = changes \o rs /\ changes \in Seq(Record) /\ rs \in Seq(Record)
    BY <1>2, <1>3, <1>4
  <2>2. b = Len(changes) /\ c = Len(rs) /\ b \in Nat /\ c \in Nat
    BY <1>5, <1>6, <1>10
  <2> QED
    BY <2>1, <2>2, Joined
<1>12. Adds(changes', b) = Adds(changes, b)
  BY <1>11, AddsSame
<1>13. \A j \in b + 1..b + c :
         /\ changes'[j].op = "d" /\ changes'[j].at = f[j - b]
         /\ changes'[j].at \in 1..info + Adds(changes', b)
  <2> SUFFICES ASSUME NEW j \in b + 1..b + c
               PROVE  /\ changes'[j].op = "d" /\ changes'[j].at = f[j - b]
                      /\ changes'[j].at \in 1..info + Adds(changes', b)
    OBVIOUS
  <2>1. changes'[j].op = "d" /\ changes'[j].at = f[j - b]
    BY <1>6, <1>11
  <2>2. f[j - b] \in 1..Len(mem[a])
    BY <1>5, <1>11
  <2> DEFINE l == Len(mem[a])
             B == info + Adds(changes', b)
             q == f[j - b]
  <2>3. l <= B /\ l \in Nat
    <3>1. Adds(changes', b) = Adds(changes, Len(changes))
      BY <1>10, <1>12
    <3>2. B = info + Adds(changes, Len(changes))
      BY <3>1
    <3>3. l <= info + Adds(changes, Len(changes))
      BY <1>9
    <3>4. l \in Nat
      BY <1>3
    <3> HIDE DEF B, l
    <3> QED
      BY <3>2, <3>3, <3>4
  <2>4. B \in Nat
    <3>1. Adds(changes', b) \in Nat
      BY AddsFinite
    <3> QED
      BY <1>3, <3>1
  <2> HIDE DEF l, B, q
  <2>5. q \in 1..B
    BY <2>2, <2>3, <2>4 DEF l, q
  <2> QED
    BY <2>1, <2>5 DEF B, q
<1>14. Sound(index, info, changes')
  <2>1. Sound(index, info, changes) /\ TypeOK'
    BY <1>7, <1>8, SoundNow DEF StoreInv, Idle, LInv, IInv
  <2>2. pc'[a] = "sync" /\ \A d \in Agents \ {a} : pc'[d] = pc[d]
    BY <1>2, <1>3, Gone DEF AppendLog, Enter
  <2>3. DiskInv(pc[a], a)'
    BY <1>8, <2>2 DEF LInv, Alone
  <2>4. Numbered(changes, info)' /\ Len(index') = Counted'
    BY <2>2, <2>3 DEF DiskInv, Counts, Inserting
  <2>5. changes' \in Seq(Record) /\ Len(index) \in Nat
    BY <1>3, <2>1, Natural DEF TypeOK, DiskOK
  <2>6. Numbered(changes', info)
    BY <1>2, <2>4 DEF Numbered
  <2>7. info + Adds(changes', Len(changes')) <= Len(index)
    BY <1>2, <2>4, <2>5 DEF Counted
  <2> QED
    BY <2>1, <2>5, <2>6, <2>7 DEF Sound
<1> DEFINE D == Named(index, changes', b, c)
<1>15. Without(FreshView', FreshView, D)
  <2>1. \A j \in b + 1..b + c :
          changes'[j].op = "d" /\ changes'[j].at \in 1..info + Adds(changes', b)
    BY <1>13
  <2>2. Without(Replay(index, info, changes', b + c), Replay(index, info, changes', b), D)
    BY <1>5, <1>11, <1>14, <2>1, ReplayDeletes
  <2> QED
    BY <1>6, <1>8, <1>10, <2>2
<1>16. D = M
  <2>1. ASSUME NEW j \in b + 1..b + c PROVE index[changes'[j].at].msg \in M
    <3>1. changes'[j].at \in S
      BY <1>5, <1>11, <1>13
    <3> QED
      BY <1>9, <3>1
  <2>2. ASSUME NEW i \in S PROVE mem[a][i].msg \in D
    <3>1. PICK k \in 1..c : f[k] = i
      BY <1>5
    <3>2. b + k \in b + 1..b + c /\ (b + k) - b = k
      BY <1>5
    <3>3. changes'[b + k].at = i
      BY <1>13, <3>1, <3>2
    <3>4. mem[a][i].msg = index[changes'[b + k].at].msg
      BY <1>9, <3>3
    <3> QED
      BY <3>2, <3>4 DEF Named
  <2> QED
    BY <2>1, <2>2 DEF Named
<1>17. M \subseteq inserted /\ inserted \subseteq Msgs
  BY <1>3 DEF Remembers, TypeOK, HistoryOK
<1> HIDE DEF D, M
<1>18. Drops(M)
  BY <1>2, <1>8, <1>15, <1>16, <1>17 DEF Drops
<1> QED
  BY <1>8, <1>17, <1>18 DEF StoreStep

LEMMA ExpungeStore ==
  ASSUME StoreInv, LInv', Restarts, NEW a \in Agents, Expunge(a)
  PROVE  StoreInv' /\ StoreStep
<1>1. Marked(a) \in SUBSET (1..Len(mem[a]))
  BY DEF Marked
<1> QED
  BY <1>1, DeleteStore DEF Expunge, Operation

LEMMA ExpireStore ==
  ASSUME StoreInv, LInv', Restarts, NEW a \in Agents, NEW S \in SUBSET (1..Len(mem[a])),
         Expire(a, S)
  PROVE  StoreInv' /\ StoreStep
BY DeleteStore DEF Expire, Operation

-----------------------------------------------------------------------------
(* Every step.                                                             *)

LEMMA InitStore == Init /\ Orderly => StoreInv /\ Store!Init
<1> SUFFICES ASSUME Init, Orderly PROVE StoreInv /\ Store!Init
  OBVIOUS
<1>1. StoreInv
  BY InitLInv DEF Init, StoreInv, Untouched, Unmarked, Written, Inserting
<1>2. \A a \in Agents : ~Compacting(a)
  BY DEF Init, Compacting
<1>3. /\ FreshView \in Seq(Entry) /\ Len(FreshView) = 0
  <2>1. Len(changes) = 0 /\ info = 0 /\ index = <<>> /\ Adds(changes, 0) = 0
    BY AddsZero DEF Init
  <2>2. FreshView = Replay(<<>>, 0, changes, 0)
    BY <2>1 DEF FreshView, View
  <2>3. Replay(<<>>, 0, changes, 0) = SubSeq(<<>>, 1, 0)
    BY ReplayZero
  <2> QED
    BY <2>2, <2>3
<1>4. Contents = FreshView
  BY <1>2, NobodyCompacts
<1>5. Messages(Contents) = {} /\ MarkedIn(Contents) = {}
  BY <1>3, <1>4 DEF Messages, MarkedIn, LiveAt
<1> QED
  BY <1>1, <1>5 DEF Init, Store!Init

LEMMA StartStore ==
  ASSUME StoreInv, LInv', Restarts, NEW a \in Agents, Start(a)
  PROVE  StoreInv' /\ StoreStep
<1>1. LInv /\ IInv'
  BY DEF StoreInv, LInv
<1>2. CASE ReadLock(a) \/ GetMessage(a) \/ Close(a)
  BY <1>2, ReadLockStore, GetMessageStore, CloseStore
<1>3. ASSUME NEW m \in Msgs, InsertIndex(a, m) PROVE StoreInv' /\ StoreStep
  <2>1. Extends
    BY <1>1, <1>3, InsertIndexLog
  <2> QED
    BY <1>3, <2>1, InsertIndexStore
<1>4. ASSUME NEW i \in 1..Len(mem[a]), NEW del \in BOOLEAN, SetStatus(a, i, del)
      PROVE  StoreInv' /\ StoreStep
  BY <1>4, SetStatusStore
<1>5. CASE Expunge(a)
  BY <1>5, ExpungeStore
<1>6. ASSUME NEW S \in SUBSET (1..Len(mem[a])), Expire(a, S) PROVE StoreInv' /\ StoreStep
  BY <1>6, ExpireStore
<1>7. ASSUME NEW S \in SUBSET (1..Len(mem[a])), NEW kw \in Keywords, SetInfo(a, S, kw)
      PROVE  StoreInv' /\ StoreStep
  BY <1>7, SetInfoStore
<1>8. CASE GetMessageReadError(a)
  BY <1>8, NoStepStore DEF GetMessageReadError
<1> QED
  BY <1>1, <1>2, <1>3, <1>4, <1>5, <1>6, <1>7, <1>8, NotOrderly DEF Start

LEMMA ContinueStore ==
  ASSUME StoreInv, LInv', NEW a \in Agents, Continue(a)
  PROVE  StoreInv' /\ StoreStep
<1>1. LInv /\ IInv'
  BY DEF StoreInv, LInv
<1>2. CASE InsertFile(a)
  <2>1. Extends
    BY <1>1, <1>2, InsertFileLog
  <2> QED
    BY <1>2, <2>1, InsertFileStore
<1>3. CASE InsertChanges(a)
  <2>1. Extends
    BY <1>1, <1>3, InsertChangesLog
  <2> QED
    BY <1>3, <2>1, InsertChangesStore
<1>4. CASE InsertFail(a)
  <2>1. Extends
    BY <1>1, <1>4, InsertFailLog
  <2> QED
    BY <1>4, <2>1, InsertFailStore
<1>5. CASE ReadInfo(a) \/ ReadIndex(a) \/ SyncStat(a) \/ SyncApply(a) \/ SyncEnd(a) \/ Unlock(a)
  BY <1>5, ReadInfoStore, ReadIndexStore, SyncStatStore, SyncApplyStore, SyncEndStore, UnlockStore
<1>6. CASE \/ CompactFiles(a) \/ CompactIndex(a) \/ CompactInfo(a) \/ CompactUnlink(a)
           \/ CompactFail(a)
  BY <1>6, CompactFilesStore, CompactIndexStore, CompactInfoStore, CompactUnlinkStore,
     CompactFailStore
<1> QED
  BY <1>1, <1>2, <1>3, <1>4, <1>5, <1>6, ReadErrorLog, SyncErrorLog, NotOrderly DEF Continue

LEMMA NextStore ==
  ASSUME StoreInv, LInv', [Next]_vars, [Restarts]_vars
  PROVE  StoreInv' /\ StoreStep
<1>1. CASE UNCHANGED vars
  BY <1>1, NoStepStore DEF vars
<1>2. CASE TimePasses
  BY <1>2, NoStepStore DEF TimePasses
<1>3. CASE RemoveLock
  BY <1>3, NoStepStore DEF RemoveLock
<1>4. ASSUME NEW a \in Agents, Start(a), Restarts PROVE StoreInv' /\ StoreStep
  BY <1>4, StartStore
<1>5. ASSUME NEW a \in Agents, Continue(a) PROVE StoreInv' /\ StoreStep
  BY <1>5, ContinueStore
<1> QED
  BY <1>1, <1>2, <1>3, <1>4, <1>5 DEF Next

\* In an orderly run in which an agent that has compacted away entries it still
\* holds neither reads nor writes the log any more, the database is a set of
\* messages that are added once, marked, unmarked and dropped, and to which
\* nothing else happens: the index, the log, their replay by Sync(), the
\* indices in the records and the compaction do not show.
THEOREM Promise == Spec /\ Orderly /\ [][Restarts]_vars => ImplementsStore
<1>1. Init /\ Orderly => StoreInv /\ Store!Init
  BY InitStore
<1>2. StoreInv /\ LInv' /\ [Next]_vars /\ [Restarts]_vars
        => StoreInv' /\ [Store!Next]_(Store!vars)
  BY NextStore, StoreSteps
<1> QED
  BY <1>1, <1>2, LogInvariance, PTL DEF Spec, ImplementsStore, Store!Spec
=============================================================================
