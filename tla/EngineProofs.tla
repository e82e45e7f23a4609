---------------------------- MODULE EngineProofs ----------------------------
(***************************************************************************)
(* The safety of the write path, for every number of writers, readers,     *)
(* snapshots, keys, sessions and faults: what is in memory is in the log   *)
(* behind it, and MemTables hold their writes in the order of their        *)
(* generations. Then the facts about steps and lists that the proofs       *)
(* about the tables share.                                                 *)
(***************************************************************************)
EXTENDS StoreInvariant, FiniteSetTheorems, WellFoundedInduction, TLAPS

(* Facts about the operators.                                              *)

\* A finite set of numbers has a greatest element.
LEMMA FiniteGreatest ==
  ASSUME NEW S \in SUBSET Nat, IsFiniteSet(S), S # {}
  PROVE  \E m \in S : \A y \in S : y <= m
<1> DEFINE Above(x) == {y \in S : y > x}
           T == {Above(x) : x \in S}
<1>1. T \subseteq FiniteSubsetsOf(S) /\ T # {}
  <2>1. \A x \in S : Above(x) \subseteq S
    OBVIOUS
  <2>2. \A x \in S : IsFiniteSet(Above(x))
    BY <2>1, FS_Subset
  <2> QED BY <2>1, <2>2, Zenon DEF FiniteSubsetsOf
<1>2. IsWellFoundedOn(StrictSubsetOrdering(S), FiniteSubsetsOf(S))
  BY FS_StrictSubsetOrderingWellFounded
<1>3. PICK m \in T : \A a \in T : ~ (<<a, m>> \in StrictSubsetOrdering(S))
  <2> HIDE DEF T
  <2> QED BY <1>1, <1>2, WFMin
<1>4. PICK x \in S : m = Above(x)
  BY <1>3
<1>5. \A y \in S : y <= x
  <2> SUFFICES ASSUME NEW y \in S, y > x PROVE FALSE
    OBVIOUS
  <2>1. Above(y) \in T /\ Above(y) \in FiniteSubsetsOf(S)
    BY <1>1
  <2>2. Above(y) \subseteq m /\ m \subseteq S
    <3>1. \A z \in S : z > y => z > x
      OBVIOUS
    <3> QED BY <1>4, <3>1, Zenon
  <2>3. y \in m /\ y \notin Above(y)
    BY <1>4
  <2>4. <<Above(y), m>> \in StrictSubsetOrdering(S)
    BY <2>2, <2>3 DEF StrictSubsetOrdering
  <2> QED BY <1>3, <2>1, <2>4, Zenon
<1> QED BY <1>5

\* A set of natural numbers has a least element.
LEMMA LeastExists ==
  ASSUME NEW S \in SUBSET Nat, S # {}
  PROVE  \E m \in S : \A y \in S : m <= y
<1> DEFINE R == {p \in Nat \X Nat : p[1] < p[2]}
<1>1. IsWellFoundedOn(R, Nat)
  BY NatLessThanWellFounded DEF OpToRel
<1>2. PICK m \in S : \A y \in S : <<y, m>> \notin R
  <2> HIDE DEF R
  <2> QED BY <1>1, WFMin, Zenon
<1>3. \A y \in S : ~(y < m)
  BY <1>2, Zenon
<1> QED BY <1>3

\* Max returns the greatest element of a finite set of numbers.
LEMMA FiniteMax ==
  ASSUME NEW S \in SUBSET Nat, IsFiniteSet(S), S # {}
  PROVE  Max(S) \in S /\ \A y \in S : y <= Max(S)
  BY FiniteGreatest, Zenon DEF Max

\* A record appended to a log is in it, after the others.
LEMMA RangeAppend ==
  ASSUME NEW T, NEW s \in Seq(T), NEW x \in T
  PROVE  /\ Append(s, x) \in Seq(T)
         /\ Range(Append(s, x)) = Range(s) \cup {x}
<1> DEFINE t == Append(s, x)
<1>1. /\ t \in Seq(T) /\ Len(s) \in Nat
      /\ DOMAIN t = 1..(Len(s) + 1) /\ DOMAIN s = 1..Len(s)
  OBVIOUS
<1>2. \A i \in DOMAIN t : t[i] = IF i \in DOMAIN s THEN s[i] ELSE x
  OBVIOUS
<1>3. DOMAIN t = DOMAIN s \cup {Len(s) + 1} /\ Len(s) + 1 \notin DOMAIN s
  BY <1>1
<1> HIDE DEF t
<1>4. Range(t) = Range(s) \cup {x}
  BY <1>2, <1>3 DEF Range
<1> QED BY <1>1, <1>4 DEF t

\* MemTable.Put and Delete leave the other keys alone.
LEMMA ApplyRecords ==
  ASSUME NEW mt \in MemTables, NEW rec \in Record
  PROVE  /\ Apply(mt, rec) \in MemTables
         /\ RecordsOf(Apply(mt, rec)) \subseteq RecordsOf(mt) \cup {rec}
<1>1. rec.key \in Keys /\ rec \in Entry
  BY Zenon DEF Record, Entry
<1>2. Apply(mt, rec) \in MemTables
  BY <1>1 DEF Apply, MemTables
<1>3. \A k \in Keys : Apply(mt, rec).data[k] \in {rec, mt.data[k]}
  BY <1>1 DEF Apply, MemTables
<1> QED BY <1>2, <1>3, Zenon DEF RecordsOf

\* A new MemTable is empty.
LEMMA EmptyMemRecords == EmptyMem \in MemTables /\ RecordsOf(EmptyMem) = {}
  BY DEF EmptyMem, MemTables, RecordsOf, Entry

\* The records of a MemTable are records.
LEMMA RecordsTyped ==
  ASSUME NEW mt \in MemTables PROVE RecordsOf(mt) \subseteq Record
  BY DEF MemTables, RecordsOf, Entry

-----------------------------------------------------------------------------
(* The initial states, and the steps that leave the write path alone.      *)

\* An empty data directory satisfies the invariant.
LEMMA InitInv == Init => IInv
<1> SUFFICES ASSUME Init PROVE IInv
  OBVIOUS
<1>1. Typed
  BY ConstantsAssumption
  DEF Init, Typed, IdleWriter, IdleFlush, IdleCompaction, CompactionFields, Entry,
      WriterPCs, FlushPCs
<1>2. Files
  BY FS_EmptySet DEF Init, Files
<1>3. Quiet /\ Locked /\ Queued
  BY Zenon DEF Init, Quiet, Locked, Queued, HoldsRLock, Running, IdleWriter
<1>4. Logging
  BY Zenon DEF Init, Logging, WALBacksMemory, IdleWriter
<1>5. Ordering
  BY DEF Init, Ordering, GenerationsOrdered, Running
<1> QED BY <1>1, <1>2, <1>3, <1>4, <1>5 DEF IInv

\* Steps of readers, snapshots and the compaction worker.
LEMMA FrameInv ==
  ASSUME IInv,
         UNCHANGED <<phase, memVars, flushCh, wals, wr, fl>>,
         genCounter' \in Nat, genCounter <= genCounter',
         DOMAIN cp' = CompactionFields, cp'.gen \in Nat,
         DOMAIN ssts' \in SUBSET Nat, IsFiniteSet(DOMAIN ssts')
  PROVE  IInv'
<1> USE DEF memVars
<1>1. Typed'
  BY Zenon DEF IInv, Typed
<1>2. Files'
  BY DEF IInv, Files
<1>3. Quiet' /\ Locked'
  BY Zenon DEF IInv, Quiet, Locked, HoldsRLock
<1>4. Queued'
  BY DEF IInv, Typed, Queued, Running
<1>5. Logging'
  BY Zenon DEF IInv, Logging, WALBacksMemory, LogOf
<1>6. Ordering'
  BY DEF IInv, Ordering, GenerationsOrdered, Running
<1> QED BY <1>1, <1>2, <1>3, <1>4, <1>5, <1>6 DEF IInv

\* Steps that leave the files alone as well.
LEMMA StutterInv ==
  ASSUME IInv, UNCHANGED <<phase, genCounter, memVars, flushCh, wals, ssts, wr, fl, cp>>
  PROVE  IInv'
<1>1. genCounter \in Nat /\ DOMAIN cp = CompactionFields /\ cp.gen \in Nat
  BY Zenon DEF IInv, Typed
<1>2. DOMAIN ssts \in SUBSET Nat /\ IsFiniteSet(DOMAIN ssts)
  BY Zenon DEF IInv, Files
<1> QED BY <1>1, <1>2, FrameInv

\* Giving up a table deletes at most its own file.
LEMMA ReleaseFiles ==
  ASSUME NEW g, NEW retire, Release(g, retire), Files
  PROVE  DOMAIN ssts' \in SUBSET Nat /\ IsFiniteSet(DOMAIN ssts')
<1>1. DOMAIN ssts' \subseteq DOMAIN ssts
  BY Zenon DEF Release, Without
<1> QED BY <1>1, FS_Subset, Zenon DEF Files

\* Get and Scan (getAt, scanAt, releaseAll) keep the invariant.
LEMMA ReaderInv == IInv /\ ReaderNext => IInv'
<1> SUFFICES ASSUME IInv, NEW r \in Readers,
                    \/ \E k \in Keys : Get(r, k)
                    \/ Scan(r)
                    \/ \E s \in Snapshots : SnapshotScan(r, s)
                    \/ ReadResolve(r) \/ ReadRelease(r) \/ ReadReturn(r)
             PROVE  IInv'
  BY DEF ReaderNext
<1> USE DEF lifeVars, memVars, chVars, diskVars
<1>1. Typed /\ Files
  BY Zenon DEF IInv
<1>2. CASE ReadRelease(r)
  <2>1. DOMAIN ssts' \in SUBSET Nat /\ IsFiniteSet(DOMAIN ssts')
    BY <1>1, <1>2, ReleaseFiles, Zenon DEF ReadRelease
  <2>2. UNCHANGED <<phase, genCounter, memVars, flushCh, wals, wr, fl, cp>>
    BY <1>2, Zenon DEF ReadRelease
  <2>3. genCounter \in Nat /\ DOMAIN cp = CompactionFields /\ cp.gen \in Nat
    BY <1>1, Zenon DEF Typed
  <2> QED BY <2>1, <2>2, <2>3, FrameInv
<1>3. CASE (\E k \in Keys : Get(r, k)) \/ Scan(r) \/ \E s \in Snapshots : SnapshotScan(r, s)
  <2>1. PICK K, max : ReadBegin(r, K, max)
    BY <1>3, Zenon DEF Get, Scan, SnapshotScan
  <2>2. UNCHANGED <<phase, genCounter, memVars, flushCh, wals, ssts, wr, fl, cp>>
    BY <2>1, Zenon DEF ReadBegin
  <2> QED BY <2>2, StutterInv, Zenon
<1>4. CASE ReadResolve(r) \/ ReadReturn(r)
  <2>1. UNCHANGED <<phase, genCounter, memVars, flushCh, wals, ssts, wr, fl, cp>>
    BY <1>4, Zenon DEF ReadResolve, ReadReturn
  <2> QED BY <2>1, StutterInv
<1> QED BY <1>2, <1>3, <1>4, Zenon

\* Snapshot and Snapshot.Close keep the invariant.
LEMMA SnapshotInv == IInv /\ SnapshotNext => IInv'
<1> SUFFICES ASSUME IInv, NEW s \in Snapshots,
                    SnapshotLoad(s) \/ SnapshotRegister(s) \/ SnapshotClose(s)
             PROVE  IInv'
  BY DEF SnapshotNext
<1>1. UNCHANGED <<phase, genCounter, memVars, flushCh, wals, ssts, wr, fl, cp>>
  BY Zenon DEF SnapshotLoad, SnapshotRegister, SnapshotClose, lifeVars, memVars, chVars, diskVars
<1> QED BY <1>1, StutterInv, Zenon

-----------------------------------------------------------------------------
(* The steps of a writer.                                                  *)

\* write checks e.closed and takes the next Seq: it is younger than every record
\* in memory.
LEMMA WriteBeginInv ==
  ASSUME IInv, NEW w \in Writers, NEW k \in Keys, NEW v \in Values \cup {Tombstone},
         WriteBegin(w, k, v)
  PROVE  IInv'
<1> DEFINE rec == [key |-> k, seq |-> seq + 1, val |-> v]
<1>0. /\ phase = "up" /\ seq < MaxSeq /\ seq' = seq + 1
      /\ wr' = [wr EXCEPT ![w] = [pc |-> "append", rec |-> rec, job |-> 0]]
      /\ UNCHANGED <<phase, genCounter, mem, imm, mts, flushCh, wals, ssts, fl, cp>>
  BY Zenon DEF WriteBegin, lifeVars, chVars, diskVars
<1>1. Typed /\ Files /\ Quiet /\ Locked /\ Queued /\ Logging /\ Ordering
  BY Zenon DEF IInv
<1>2. rec \in Record /\ rec.seq = seq + 1 /\ seq \in Nat /\ seq' = seq + 1
  BY <1>0, <1>1, ConstantsAssumption DEF Typed, Record
<1> HIDE DEF rec
<1>3. \A u \in Writers :
        wr'[u] = IF u = w THEN [pc |-> "append", rec |-> rec, job |-> 0] ELSE wr[u]
  BY <1>0, <1>1, Zenon DEF Typed
<1>4. Typed'
  BY <1>0, <1>1, <1>2, ConstantsAssumption DEF Typed, WriterPCs, Entry
<1>5. Files'
  BY <1>0, <1>1, Zenon DEF Files
<1>6. Quiet' /\ Locked'
  BY <1>0, Zenon DEF Quiet, Locked
<1>7. Queued'
  BY <1>0, <1>1, <1>3 DEF Queued, Running
<1>8. Logging'
  <2>1. WALBacksMemory'
    BY <1>0, <1>1, Zenon DEF Logging, WALBacksMemory, LogOf
  <2>2. ASSUME NEW u \in Writers
        PROVE  /\ wr'[u].pc \in {"append", "apply"} => wr'[u].rec \in Record /\ wr'[u].rec.seq <= seq'
               /\ wr'[u].pc = "apply" => wr'[u].rec \in LogOf(mem)'
    BY <1>0, <1>1, <1>2, <1>3 DEF Logging, LogOf, Record
  <2> QED BY <2>1, <2>2, Zenon DEF Logging
<1>9. Ordering'
  <2>1. GenerationsOrdered'
    BY <1>0, <1>1 DEF Ordering, GenerationsOrdered
  <2>2. ASSUME Running, NEW g \in imm \cup {mem}, NEW r \in RecordsOf(mts[g]), NEW u \in Writers
        PROVE  /\ r.seq <= seq'
               /\ wr'[u].pc \in {"append", "apply"} /\ g \in imm => r.seq < wr'[u].rec.seq
    <3>1. r.seq <= seq /\ r.seq \in Nat
      BY <1>1, <2>2, RecordsTyped, Zenon DEF Ordering, Queued, Record
    <3> QED BY <1>1, <1>2, <1>3, <2>2, <3>1 DEF Ordering
  <2> QED BY <1>0, <2>1, <2>2 DEF Ordering, Running
<1> QED BY <1>4, <1>5, <1>6, <1>7, <1>8, <1>9 DEF IInv

\* No log loses a record.
LogsGrow ==
  /\ DOMAIN wals' = DOMAIN wals
  /\ \A g \in DOMAIN wals :
       /\ wals'[g] \in WALs /\ Range(wals[g].recs) \subseteq Range(wals'[g].recs)
       /\ \A r \in Range(wals'[g].recs) : r.seq <= MaxSeq

\* wal.Append loses no record and adds its own.
LEMMA LogAppendGrows ==
  ASSUME Files, mem \in DOMAIN wals,
         NEW rec \in Record, rec.seq <= MaxSeq, wals' = LogAppend(rec)
  PROVE  LogsGrow /\ rec \in Range(wals'[mem].recs)
<1>1. wals[mem].recs \in Seq(Record)
  BY Zenon DEF Files, WALs
<1>2. /\ DOMAIN wals' = DOMAIN wals
      /\ wals'[mem] = [wals[mem] EXCEPT !.recs = Append(wals[mem].recs, rec)]
      /\ \A g \in DOMAIN wals \ {mem} : wals'[g] = wals[g]
  BY DEF LogAppend
<1>3. wals'[mem] \in WALs /\ wals'[mem].recs = Append(wals[mem].recs, rec)
  <2>1. wals[mem] \in WALs
    BY DEF Files
  <2>2. Append(wals[mem].recs, rec) \in Seq(Record)
    BY <1>1, RangeAppend
  <2> QED BY <1>2, <2>1, <2>2, Zenon DEF WALs
<1>4. Range(wals'[mem].recs) = Range(wals[mem].recs) \cup {rec}
  BY <1>1, <1>3, RangeAppend
<1>5. \A g \in DOMAIN wals : \A r \in Range(wals[g].recs) : r.seq <= MaxSeq
  BY Zenon DEF Files, Range
<1> QED BY <1>2, <1>3, <1>4, <1>5, Zenon DEF LogsGrow, Files

\* Writers that leave their writes behind.
WritersMove ==
  /\ wr' \in [Writers -> [pc : WriterPCs, rec : Entry, job : Nat]]
  /\ \A u \in Writers : wr'[u] = wr[u] \/ wr'[u].pc \in {"idle", "rotate"}

\* A writer that stops being between its Seq and its MemTable update keeps the
\* invariant, if no log loses a record.
LEMMA WriterMoves ==
  ASSUME IInv, Running, WritersMove, LogsGrow,
         genCounter' \in Nat, genCounter <= genCounter',
         flushCh' \in Seq(Nat), \A i \in DOMAIN flushCh' : flushCh'[i] < mem,
         UNCHANGED <<phase, memVars, ssts, fl, cp>>
  PROVE  IInv'
<1> USE DEF memVars
<1>1. Typed /\ Files /\ Quiet /\ Locked /\ Queued /\ Logging /\ Ordering
  BY DEF IInv
<1>2. \A u \in Writers : wr'[u] = wr[u] \/ wr'[u].pc \in {"idle", "rotate"}
  BY Zenon DEF WritersMove
<1>3. Typed'
  BY <1>1, Zenon DEF Typed, WritersMove
<1>4. Files'
  BY <1>1 DEF Files, LogsGrow, Range
<1>5. Quiet' /\ Locked'
  BY <1>1, <1>2 DEF Quiet, Locked, HoldsRLock, Running
<1>6. Queued'
  <2>1. mem <= genCounter'
    BY <1>1 DEF Queued, Typed
  <2>2. \A u \in Writers : wr'[u].pc = "send" => wr'[u].job < mem
    BY <1>1, <1>2, Zenon DEF Queued
  <2> QED BY <1>1, <2>1, <2>2, Zenon DEF Queued
<1>7. Logging'
  <2>1. WALBacksMemory'
    BY <1>1, Zenon DEF Logging, WALBacksMemory, LogOf, LogsGrow, memVars
  <2>2. ASSUME NEW u \in Writers, wr[u].pc = "apply"
        PROVE  wr[u].rec \in LogOf(mem)'
    <3>1. mem \in DOMAIN wals
      BY <1>1, <2>2, Zenon DEF Logging, WALBacksMemory, Locked, HoldsRLock
    <3> QED BY <1>1, <2>2, <3>1, Zenon DEF Logging, LogOf, LogsGrow
  <2> QED BY <1>1, <1>2, <2>1, <2>2, Zenon DEF Logging
<1>8. Ordering'
  BY <1>1, <1>2 DEF Ordering, GenerationsOrdered, Running
<1> QED BY <1>3, <1>4, <1>5, <1>6, <1>7, <1>8, Zenon DEF IInv

\* What is known of a write that has its Seq and is not yet applied.
LEMMA PendingWrite ==
  ASSUME IInv, NEW w \in Writers, wr[w].pc \in {"append", "apply"}
  PROVE  /\ phase = "up" /\ Running /\ mem \in DOMAIN wals
         /\ wr[w].rec \in Record /\ wr[w].rec.seq <= seq /\ wr[w].rec.seq <= MaxSeq
<1>1. Typed /\ Locked /\ Logging
  BY DEF IInv
<1>2. phase = "up" /\ Running
  BY <1>1 DEF Locked, HoldsRLock, Running
<1>3. mem \in DOMAIN wals
  BY <1>1, <1>2, Zenon DEF Logging, WALBacksMemory
<1>4. wr[w].rec \in Record /\ wr[w].rec.seq <= seq
  BY <1>1, Zenon DEF Logging
<1>5. seq \in 0..MaxSeq
  BY <1>1, Zenon DEF Typed
<1>6. wr[w].rec.seq <= MaxSeq
  BY <1>4, <1>5, ConstantsAssumption DEF Record
<1> QED BY <1>2, <1>3, <1>4, <1>6, Zenon

\* write, after wal.Append has returned: the record is in the log of the active
\* MemTable before it is applied.
LEMMA WriteAppendInv ==
  ASSUME IInv, NEW w \in Writers, WriteAppend(w)
  PROVE  IInv'
<1>0. /\ wr[w].pc = "append" /\ wals' = LogAppend(wr[w].rec)
      /\ wr' = [wr EXCEPT ![w].pc = "apply"]
      /\ UNCHANGED <<phase, genCounter, seq, mem, imm, mts, flushCh, ssts, fl, cp>>
  BY Zenon DEF WriteAppend, lifeVars, memVars, chVars
<1>1. Typed /\ Files /\ Quiet /\ Locked /\ Queued /\ Logging /\ Ordering
  BY Zenon DEF IInv
<1>2. phase = "up" /\ mem \in DOMAIN wals
  BY <1>0, PendingWrite, Zenon
<1>3. wr[w].rec \in Record /\ wr[w].rec.seq <= MaxSeq
  BY <1>0, PendingWrite, Zenon
<1>4. LogsGrow /\ wr[w].rec \in Range(wals'[mem].recs)
  BY <1>0, <1>1, <1>2, <1>3, LogAppendGrows
<1>5. \A u \in Writers : wr'[u].rec = wr[u].rec /\ wr'[u].job = wr[u].job
                          /\ wr'[u].pc = IF u = w THEN "apply" ELSE wr[u].pc
  BY <1>0, <1>1, Zenon DEF Typed
<1>6. Typed'
  BY <1>0, <1>1, Zenon DEF Typed, WriterPCs
<1>7. Files'
  BY <1>0, <1>1, <1>4 DEF Files, LogsGrow, Range
<1>8. Quiet' /\ Locked'
  BY <1>0, <1>2, Zenon DEF Quiet, Locked
<1>9. Queued'
  BY <1>0, <1>1, <1>5 DEF Queued, Running
<1>10. Logging'
  <2>1. WALBacksMemory'
    BY <1>0, <1>1, <1>4, Zenon DEF Logging, WALBacksMemory, LogOf, LogsGrow
  <2>2. ASSUME NEW u \in Writers, wr'[u].pc = "apply"
        PROVE  wr'[u].rec \in LogOf(mem)'
    <3>1. u = w \/ wr[u].rec \in LogOf(mem)
      BY <1>1, <1>5, <2>2, Zenon DEF Logging
    <3>2. LogOf(mem) \subseteq LogOf(mem)' /\ wr[w].rec \in LogOf(mem)'
      BY <1>0, <1>2, <1>4, Zenon DEF LogOf, LogsGrow
    <3> QED BY <1>5, <3>1, <3>2, Zenon
  <2> QED BY <1>0, <1>1, <1>5, <2>1, <2>2 DEF Logging
<1>11. Ordering'
  BY <1>0, <1>1, <1>5 DEF Ordering, GenerationsOrdered, Running
<1> QED BY <1>6, <1>7, <1>8, <1>9, <1>10, <1>11, Zenon DEF IInv

\* write applies its record to the active MemTable: it is in the log, and it is
\* younger than everything that has been rotated out.
LEMMA WriteApplyInv ==
  ASSUME IInv, NEW w \in Writers, WriteApply(w)
  PROVE  IInv'
<1> DEFINE rec == wr[w].rec
<1>0. /\ wr[w].pc = "apply" /\ mts' = [mts EXCEPT ![mem] = Apply(mts[mem], rec)]
      /\ wr' = [wr EXCEPT ![w] = [pc |-> "check", rec |-> NoRecord, job |-> 0]]
  BY Zenon DEF WriteApply
<1>frame. UNCHANGED <<phase, genCounter, seq, mem, imm, flushCh, wals, ssts, fl, cp>>
  BY Zenon DEF WriteApply, lifeVars, chVars, diskVars
<1>1. Typed /\ Files /\ Quiet /\ Locked /\ Queued /\ Logging /\ Ordering
  BY DEF IInv
<1>2. phase = "up" /\ Running /\ mem \in DOMAIN wals /\ mem \in DOMAIN mts /\ imm \subseteq DOMAIN mts
  BY <1>0, <1>1, PendingWrite, Zenon DEF Queued
<1>3. rec \in Record /\ rec.seq <= seq /\ rec \in LogOf(mem) /\ mts[mem] \in MemTables
  BY <1>0, <1>1, <1>2, PendingWrite, Zenon DEF Logging, Queued
<1>4. /\ DOMAIN mts' = DOMAIN mts /\ mts'[mem] = Apply(mts[mem], rec)
      /\ \A g \in imm : mem # g /\ mts'[g] = mts[g]
  BY <1>0, <1>1, <1>2 DEF Queued, Typed
<1>5. mts'[mem] \in MemTables /\ RecordsOf(mts'[mem]) \subseteq RecordsOf(mts[mem]) \cup {rec}
  BY <1>3, <1>4, ApplyRecords
<1>6. \A u \in Writers : wr'[u] = IF u = w THEN [pc |-> "check", rec |-> NoRecord, job |-> 0] ELSE wr[u]
  BY <1>0, <1>1, Zenon DEF Typed
<1>pending. \A u \in Writers : wr'[u].pc \in {"append", "apply"} => wr'[u] = wr[u]
  BY <1>6
<1>7. Typed'
  BY <1>0, <1>frame, <1>1, Zenon DEF Typed, WriterPCs, Entry
<1>8. Files'
  BY <1>frame, <1>1, Zenon DEF Files
<1>9. Quiet' /\ Locked'
  BY <1>frame, <1>2, Zenon DEF Quiet, Locked
<1>10. Queued'
  BY <1>frame, <1>1, <1>2, <1>4, <1>5, <1>6 DEF Queued
<1>11. Logging'
  <2>1. WALBacksMemory'
    BY <1>frame, <1>1, <1>2, <1>3, <1>4, <1>5, Zenon DEF Logging, WALBacksMemory, LogOf
  <2>2. LogOf(mem)' = LogOf(mem)
    BY <1>frame, Zenon DEF LogOf
  <2> QED BY <1>frame, <1>1, <1>pending, <2>1, <2>2, Zenon DEF Logging
<1>12. Ordering'
  <2>1. \A g \in imm : \A r \in RecordsOf(mts[g]) : r.seq < rec.seq
    BY <1>0, <1>1, <1>2, Zenon DEF Ordering
  <2>2. \A g \in imm : g < mem
    BY <1>1, <1>2, Zenon DEF Queued
  <2>3. GenerationsOrdered'
    <3> SUFFICES ASSUME NEW g \in imm \cup {mem}, NEW h \in imm \cup {mem}, g < h,
                        NEW r \in RecordsOf(mts'[g]), NEW q \in RecordsOf(mts'[h])
                 PROVE  r.seq < q.seq
      BY <1>frame, Zenon DEF GenerationsOrdered
    <3>1. g \in imm /\ r \in RecordsOf(mts[g])
      <4>1. imm \subseteq Nat /\ mem \in Nat
        BY <1>1, Zenon DEF Typed
      <4>2. \A x, y \in Nat : ~(x < y /\ y < x) /\ ~(x < x)
        OBVIOUS
      <4>3. g # mem
        BY <2>2, <4>1, <4>2, Zenon
      <4> QED BY <1>4, <4>3, Zenon
    <3>2. q \in RecordsOf(mts[h]) \/ q = rec
      BY <1>4, <1>5, Zenon
    <3>3. GenerationsOrdered
      BY <1>1, Zenon DEF Ordering
    <3> QED BY <2>1, <3>1, <3>2, <3>3, Zenon DEF GenerationsOrdered
  <2>4. \A g \in imm \cup {mem} : \A r \in RecordsOf(mts'[g]) : r.seq <= seq
    BY <1>1, <1>2, <1>3, <1>4, <1>5, Zenon DEF Ordering
  <2> QED BY <1>frame, <1>1, <1>2, <1>4, <1>pending, <2>3, <2>4 DEF Ordering
<1> QED BY <1>7, <1>8, <1>9, <1>10, <1>11, <1>12 DEF IInv

\* rotate, under e.mu.Lock: no writer is between its Seq and its MemTable update,
\* so the new MemTable and WAL start empty and everything to come is younger.
LEMMA RotateSwapInv ==
  ASSUME IInv, NEW w \in Writers, RotateSwap(w)
  PROVE  IInv'
<1> DEFINE new == genCounter + 1
<1>0. /\ wr[w].pc = "rotate" /\ LockFree
      /\ wals' = With(wals, new, EmptyWAL) /\ mts' = With(mts, new, EmptyMem)
      /\ wr' = [wr EXCEPT ![w] = [pc |-> "send", rec |-> NoRecord, job |-> mem]]
  BY Zenon DEF RotateSwap
<1>frame. /\ genCounter' = new /\ mem' = new /\ imm' = imm \cup {mem}
          /\ UNCHANGED <<phase, seq, flushCh, ssts, fl, cp>>
  BY Zenon DEF RotateSwap, lifeVars, chVars
<1>1. Typed /\ Files /\ Quiet /\ Locked /\ Queued /\ Logging /\ Ordering
  BY DEF IInv
<1>2. Running /\ mem \in Nat /\ new \in Nat /\ mem < new /\ mem \notin imm
  <2>1. Running
    BY <1>0, <1>1 DEF Quiet, IdleWriter, Running
  <2>2. genCounter \in Nat /\ mem \in Nat /\ mem <= genCounter /\ \A g \in imm : g < mem
    BY <1>1, <2>1, Zenon DEF Queued, Typed
  <2> QED BY <2>1, <2>2
<1>3. \A u \in Writers :
        /\ wr'[u] = IF u = w THEN [pc |-> "send", rec |-> NoRecord, job |-> mem] ELSE wr[u]
        /\ wr'[u].pc \notin {"append", "apply", "check"}
  BY <1>0, <1>1, Zenon DEF Typed, LockFree, HoldsRLock
<1>4. \A g \in imm \cup {mem} : g \in Nat /\ g < new /\ g \in DOMAIN mts
  BY <1>1, <1>2 DEF Queued, Typed
<1>5. /\ DOMAIN mts' = DOMAIN mts \cup {new} /\ mts'[new] = EmptyMem
      /\ \A g \in imm \cup {mem} : mts'[g] = mts[g]
  BY <1>0, <1>4 DEF With
<1>6. /\ DOMAIN wals' = DOMAIN wals \cup {new} /\ wals'[new] = EmptyWAL
      /\ \A g \in DOMAIN wals \ {new} : wals'[g] = wals[g]
  BY <1>0, Zenon DEF With
<1> HIDE DEF new
<1>7. Typed'
  BY <1>0, <1>frame, <1>1, <1>2, Zenon DEF Typed, WriterPCs, Entry
<1>8. Files'
  <2>1. IsFiniteSet(DOMAIN wals')
    BY <1>1, <1>6, FS_AddElement DEF Files
  <2>2. EmptyWAL \in WALs /\ DOMAIN EmptyWAL.recs = {}
    BY DEF EmptyWAL, WALs
  <2> QED BY <1>frame, <1>1, <1>2, <1>6, <2>1, <2>2, Zenon DEF Files
<1>9. Quiet' /\ Locked'
  BY <1>frame, <1>2, <1>3, Zenon DEF Quiet, Locked, HoldsRLock, Running
<1>10. Queued'
  <2>1. \A g \in imm' \cup {mem'} : mts'[g] \in MemTables
    BY <1>frame, <1>1, <1>2, <1>5, EmptyMemRecords, Zenon DEF Queued
  <2>2. mem' <= genCounter' /\ mem' \in DOMAIN mts' /\ imm' \subseteq DOMAIN mts'
    BY <1>frame, <1>2, <1>4, <1>5
  <2>3. \A u \in Writers : wr'[u].pc = "send" => wr'[u].job < mem'
    <3>1. \A u \in Writers : wr[u].job \in Nat /\ (wr[u].pc = "send" => wr[u].job < mem)
      BY <1>1, <1>2, Zenon DEF Queued, Typed
    <3> QED BY <1>frame, <1>2, <1>3, <3>1
  <2>4. \A i \in DOMAIN flushCh' : flushCh'[i] < mem'
    BY <1>frame, <1>1, <1>2 DEF Queued, Typed
  <2>5. /\ fl'.pc \in {"write", "commit", "remove"} => fl'.job < mem'
        /\ fl'.pc = "remove" => fl'.job \notin imm'
    BY <1>frame, <1>1, <1>2 DEF Queued, Typed
  <2>6. \A g \in imm' : g < mem'
    BY <1>frame, <1>4, Zenon
  <2> QED BY <2>1, <2>2, <2>3, <2>4, <2>5, <2>6 DEF Queued
<1>11. Logging'
  <2>1. WALBacksMemory'
    <3> SUFFICES ASSUME phase \in {"up", "closing", "locked"}, NEW g \in imm' \cup {mem'}
                 PROVE  g \in DOMAIN wals' /\ RecordsOf(mts'[g]) \subseteq Range(wals'[g].recs)
      BY <1>frame, Zenon DEF WALBacksMemory, LogOf
    <3>1. CASE g = new
      BY <1>5, <1>6, <3>1, EmptyMemRecords, Zenon
    <3>2. CASE g \in imm \cup {mem}
      <4>1. g \in DOMAIN wals /\ RecordsOf(mts[g]) \subseteq Range(wals[g].recs)
        BY <1>1, <3>2, Zenon DEF Logging, WALBacksMemory, LogOf
      <4>2. mts'[g] = mts[g] /\ g # new
        BY <1>4, <1>5, <3>2
      <4>3. g \in DOMAIN wals' /\ wals'[g] = wals[g]
        BY <1>6, <4>1, <4>2, Zenon
      <4> QED BY <4>1, <4>2, <4>3, Zenon
    <3> QED BY <1>frame, <3>1, <3>2, Zenon
  <2> QED BY <1>3, <2>1, Zenon DEF Logging
<1>12. Ordering'
  <2>1. GenerationsOrdered'
    <3> SUFFICES ASSUME NEW g \in imm' \cup {mem'}, NEW h \in imm' \cup {mem'}, g < h,
                        NEW r \in RecordsOf(mts'[g]), NEW q \in RecordsOf(mts'[h])
                 PROVE  r.seq < q.seq
      BY Zenon DEF GenerationsOrdered
    <3>1. g # new /\ h # new
      BY <1>5, EmptyMemRecords, Zenon
    <3>2. g \in imm \cup {mem} /\ h \in imm \cup {mem}
      BY <1>frame, <3>1, Zenon
    <3>3. r \in RecordsOf(mts[g]) /\ q \in RecordsOf(mts[h])
      BY <1>5, <3>2, Zenon
    <3>4. GenerationsOrdered
      BY <1>1, Zenon DEF Ordering
    <3> QED BY <3>2, <3>3, <3>4 DEF GenerationsOrdered
  <2>2. \A g \in imm' \cup {mem'} : \A r \in RecordsOf(mts'[g]) : r.seq <= seq'
    BY <1>frame, <1>1, <1>2, <1>5, EmptyMemRecords, Zenon DEF Ordering
  <2> QED BY <1>3, <2>1, <2>2, Zenon DEF Ordering
<1> QED BY <1>7, <1>8, <1>9, <1>10, <1>11, <1>12 DEF IInv

\* Every step of Put, Delete and rotate keeps the invariant.
LEMMA WriterInv == IInv /\ WriterNext => IInv'
<1> SUFFICES ASSUME IInv, NEW w \in Writers,
                    \/ \E k \in Keys : Delete(w, k) \/ \E v \in Values : Put(w, k, v)
                    \/ WriteAppend(w) \/ WriteAppendError(w) \/ WriteApply(w) \/ WriteCheck(w)
                    \/ RotateSkip(w) \/ RotateSwap(w) \/ RotateError(w) \/ RotateSend(w)
             PROVE  IInv'
  BY Zenon DEF WriterNext
<1> USE DEF lifeVars, memVars, chVars, diskVars
<1>1. Typed /\ Files /\ Quiet /\ Locked /\ Queued /\ Logging
  BY Zenon DEF IInv
<1>2. wr[w].pc # "idle" => Running
  BY <1>1 DEF Quiet, IdleWriter, Running
<1>3. wr' = [wr EXCEPT ![w] = IdleWriter] => WritersMove
  BY <1>1 DEF WritersMove, IdleWriter, Typed, Entry, WriterPCs
<1>4. UNCHANGED wals => LogsGrow
  BY <1>1, Zenon DEF Files, LogsGrow, Range
<1>5. Running /\ UNCHANGED flushCh =>
        flushCh' \in Seq(Nat) /\ \A i \in DOMAIN flushCh' : flushCh'[i] < mem
  BY <1>1, Zenon DEF Typed, Queued
<1>6. genCounter \in Nat
  BY <1>1, Zenon DEF Typed
<1>7. CASE \E k \in Keys : Delete(w, k) \/ \E v \in Values : Put(w, k, v)
  <2>1. PICK k \in Keys, v \in Values \cup {Tombstone} : WriteBegin(w, k, v)
    BY <1>7, Zenon DEF Delete, Put
  <2> QED BY <2>1, WriteBeginInv, Zenon
<1>8. CASE WriteAppendError(w)
  <2>1. mem \in DOMAIN wals /\ wr[w].rec \in Record /\ wr[w].rec.seq <= MaxSeq
    BY <1>8, PendingWrite, Zenon DEF WriteAppendError
  <2>2. LogsGrow
    <3>1. CASE wals' = [wals EXCEPT ![mem].broken = TRUE]
      <4>1. /\ DOMAIN wals' = DOMAIN wals
            /\ \A g \in DOMAIN wals : wals'[g] \in WALs /\ wals'[g].recs = wals[g].recs
        BY <1>1, <2>1, <3>1, Zenon DEF Files, WALs
      <4> QED BY <1>1, <4>1, Zenon DEF Files, LogsGrow, Range
    <3>2. CASE wals' = LogAppend(wr[w].rec)
      BY <1>1, <2>1, <3>2, LogAppendGrows, Zenon
    <3> QED BY <1>4, <1>8, <3>1, <3>2, Zenon DEF WriteAppendError
  <2>3. /\ Running /\ wr' = [wr EXCEPT ![w] = IdleWriter]
        /\ UNCHANGED <<genCounter, flushCh, phase, memVars, ssts, fl, cp>>
    BY <1>2, <1>8, Zenon DEF WriteAppendError
  <2> QED BY <1>3, <1>5, <1>6, <2>2, <2>3, WriterMoves
<1>9. CASE WriteCheck(w)
  <2>1. WritersMove
    BY <1>1, <1>3, <1>9, Zenon DEF WriteCheck, WritersMove, Typed, Entry, WriterPCs
  <2>2. /\ Running /\ LogsGrow
        /\ UNCHANGED <<genCounter, flushCh, phase, memVars, ssts, fl, cp>>
    BY <1>2, <1>4, <1>9, Zenon DEF WriteCheck
  <2> QED BY <1>5, <1>6, <2>1, <2>2, WriterMoves
<1>10. CASE RotateSkip(w)
  <2>1. /\ Running /\ LogsGrow /\ wr' = [wr EXCEPT ![w] = IdleWriter]
        /\ UNCHANGED <<genCounter, flushCh, phase, memVars, ssts, fl, cp>>
    BY <1>2, <1>4, <1>10, Zenon DEF RotateSkip
  <2> QED BY <1>3, <1>5, <1>6, <2>1, WriterMoves
<1>11. CASE RotateError(w)
  <2>1. /\ Running /\ LogsGrow /\ wr' = [wr EXCEPT ![w] = IdleWriter]
        /\ genCounter' = genCounter + 1
        /\ UNCHANGED <<flushCh, phase, memVars, ssts, fl, cp>>
    BY <1>2, <1>4, <1>11, Zenon DEF RotateError
  <2> QED BY <1>3, <1>5, <1>6, <2>1, WriterMoves
<1>12. CASE RotateSend(w)
  <2>1. wr[w].job \in Nat /\ wr[w].job < mem /\ flushCh \in Seq(Nat)
    BY <1>1, <1>2, <1>12, Zenon DEF RotateSend, Queued, Typed
  <2>2. flushCh' \in Seq(Nat) /\ \A i \in DOMAIN flushCh' : flushCh'[i] < mem
    BY <1>1, <1>2, <1>12, <2>1 DEF RotateSend, Queued
  <2>3. /\ Running /\ LogsGrow /\ wr' = [wr EXCEPT ![w] = IdleWriter]
        /\ UNCHANGED <<genCounter, phase, memVars, ssts, fl, cp>>
    BY <1>2, <1>4, <1>12, Zenon DEF RotateSend
  <2> QED BY <1>3, <1>6, <2>2, <2>3, WriterMoves
<1> QED BY <1>7, <1>8, <1>9, <1>10, <1>11, <1>12, WriteAppendInv, WriteApplyInv, RotateSwapInv

-----------------------------------------------------------------------------
(* The steps of the compaction worker.                                     *)

\* Every step of compactionLoop and runCompaction keeps the invariant: it touches
\* tables and their files only.
LEMMA CompactionInv == IInv /\ CompactionNext => IInv'
<1> SUFFICES ASSUME IInv, CompactionNext PROVE IInv'
  BY Zenon
<1> USE DEF lifeVars, memVars, chVars, diskVars, CompactionFields
<1>1. Typed /\ Files
  BY Zenon DEF IInv
<1>2. DOMAIN IdleCompaction = CompactionFields /\ IdleCompaction.gen \in Nat
  BY Zenon DEF IdleCompaction
<1>3. CASE CompactionWake \/ CompactionStop \/ CompactionPick \/ CompactionChain
  <2>1. DOMAIN cp' = CompactionFields /\ cp'.gen \in Nat
    BY <1>2, <1>3, Zenon DEF CompactionWake, CompactionStop, CompactionPick, CompactionChain
  <2>2. UNCHANGED <<phase, memVars, flushCh, wals, wr, fl, genCounter, ssts>>
    BY <1>3 DEF CompactionWake, CompactionStop, CompactionPick, CompactionChain
  <2> QED BY <1>1, <2>1, <2>2, FrameInv DEF Typed, Files
<1>4. CASE CompactionPin
  BY <1>1, <1>4, FrameInv DEF CompactionPin, Typed, Files
<1>5. CASE CompactionMerge
  <2>1. DOMAIN ssts' \subseteq DOMAIN ssts \cup {cp.gen}
    BY <1>5, Zenon DEF CompactionMerge, With
  <2>2. IsFiniteSet(DOMAIN ssts \cup {cp.gen})
    BY <1>1, FS_AddElement, Zenon DEF Files
  <2>3. DOMAIN ssts' \in SUBSET Nat /\ IsFiniteSet(DOMAIN ssts')
    BY <1>1, <2>1, <2>2, FS_Subset, Zenon DEF Typed, Files
  <2>4. DOMAIN cp' = CompactionFields /\ cp'.gen \in Nat
    BY <1>1, <1>5 DEF CompactionMerge, Typed
  <2> QED BY <1>1, <1>5, <2>3, <2>4, FrameInv DEF CompactionMerge, Typed
<1>6. CASE CompactionRetire
  <2>1. DOMAIN ssts' \in SUBSET Nat /\ IsFiniteSet(DOMAIN ssts')
    BY <1>1, <1>6, ReleaseFiles, Zenon DEF CompactionRetire
  <2>2. DOMAIN cp' = CompactionFields /\ cp'.gen \in Nat
    BY <1>1, <1>6 DEF CompactionRetire, Typed
  <2> QED BY <1>1, <1>6, <2>1, <2>2, FrameInv DEF CompactionRetire, Typed
<1>7. CASE CompactionMergeError \/ CompactionCommit \/ CompactionAbort
  <2>1. DOMAIN cp' = CompactionFields /\ cp'.gen \in Nat
    BY <1>1, <1>2, <1>7, Zenon DEF CompactionMergeError, CompactionCommit, CompactionAbort, Typed
  <2>2. UNCHANGED <<phase, memVars, flushCh, wals, wr, fl, genCounter, ssts>>
    BY <1>7, Zenon DEF CompactionMergeError, CompactionCommit, CompactionAbort
  <2> QED BY <1>1, <2>1, <2>2, FrameInv DEF Typed, Files
<1> QED BY <1>3, <1>4, <1>5, <1>6, <1>7, Zenon DEF CompactionNext

-----------------------------------------------------------------------------
(* The steps of the flush worker.                                          *)

FlushSteps == [pc : FlushPCs, job : Nat, gen : Nat]

\* All but its commit and the removal of the WAL.
LEMMA FlushMoves ==
  ASSUME IInv, Running,
         genCounter' \in Nat, genCounter <= genCounter',
         fl' \in FlushSteps, fl'.pc # "remove",
         fl'.pc \in {"write", "commit"} => fl'.job < mem,
         flushCh' \in Seq(Nat), \A i \in DOMAIN flushCh' : flushCh'[i] < mem,
         DOMAIN ssts' \in SUBSET Nat, IsFiniteSet(DOMAIN ssts'),
         UNCHANGED <<phase, memVars, wals, wr, cp>>
  PROVE  IInv'
<1> USE DEF memVars
<1>1. Typed /\ Files /\ Quiet /\ Locked /\ Queued /\ Logging /\ Ordering
  BY Zenon DEF IInv
<1>2. Typed'
  BY <1>1, Zenon DEF Typed, FlushSteps
<1>3. Files'
  BY <1>1, Zenon DEF Files
<1>4. Quiet' /\ Locked'
  BY <1>1, Zenon DEF Quiet, Locked, HoldsRLock, Running
<1>5. Queued'
  <2>1. mem <= genCounter'
    BY <1>1 DEF Queued, Typed
  <2> QED BY <1>1, <2>1, Zenon DEF Queued
<1>6. Logging'
  BY <1>1, Zenon DEF Logging, WALBacksMemory, LogOf
<1>7. Ordering'
  BY <1>1 DEF Ordering, GenerationsOrdered, Running
<1> QED BY <1>2, <1>3, <1>4, <1>5, <1>6, <1>7 DEF IInv

\* doFlush, under e.mu.Lock: the flushed MemTable leaves e.imm and the others stay.
LEMMA FlushCommitInv ==
  ASSUME IInv, FlushCommit
  PROVE  IInv'
<1> USE DEF FlushCommit, lifeVars, chVars, diskVars
<1>1. Typed /\ Files /\ Quiet /\ Locked /\ Queued /\ Logging /\ Ordering
  BY Zenon DEF IInv
<1>2. Running
  BY <1>1 DEF Quiet, IdleFlush, Running
<1>3. fl' = [pc |-> "remove", job |-> fl.job, gen |-> fl.gen] /\ fl.job < mem
  BY <1>1, <1>2, Zenon DEF Typed, Queued
<1>4. imm' = imm \ {fl.job} /\ mem' = mem
  BY Zenon DEF RemainingImm
<1>5. \A g \in imm' \cup {mem} : g \in DOMAIN mts' /\ mts'[g] = mts[g]
  <2>1. imm' \cup {mem} \subseteq DOMAIN mts \cap Reachable(RemainingImm)
    BY <1>1, <1>2, Zenon DEF Queued, Reachable, RemainingImm
  <2> QED BY <2>1, Zenon DEF Restrict
<1>6. Typed'
  BY <1>1, <1>3, <1>4, Zenon DEF Typed, FlushPCs
<1>7. Files'
  BY <1>1, Zenon DEF Files
<1>8. Quiet' /\ Locked'
  BY <1>1, <1>2 DEF Quiet, Locked, HoldsRLock, Running
<1>9. Queued'
  BY <1>1, <1>2, <1>3, <1>4, <1>5, Zenon DEF Queued
<1>10. Logging'
  BY <1>1, <1>4, <1>5, Zenon DEF Logging, WALBacksMemory, LogOf
<1>11. Ordering'
  BY <1>1, <1>2, <1>4, <1>5, Zenon DEF Ordering, GenerationsOrdered, Running
<1> QED BY <1>6, <1>7, <1>8, <1>9, <1>10, <1>11, Zenon DEF IInv

\* doFlush removes a WAL: that of a MemTable that has left e.imm and is not the
\* active one.
LEMMA FlushRemoveWALInv ==
  ASSUME IInv, FlushRemoveWAL
  PROVE  IInv'
<1> USE DEF FlushRemoveWAL, lifeVars, memVars, chVars
<1>1. Typed /\ Files /\ Quiet /\ Locked /\ Queued /\ Logging /\ Ordering
  BY Zenon DEF IInv
<1>2. Running
  BY <1>1 DEF Quiet, IdleFlush, Running
<1>3. fl' = [pc |-> "trigger", job |-> fl.job, gen |-> fl.gen]
  BY <1>1, Zenon DEF Typed
<1>4. fl.job \notin imm \cup {mem}
  BY <1>1, <1>2 DEF Queued, Typed
<1>5. /\ DOMAIN wals' \subseteq DOMAIN wals /\ DOMAIN wals \ {fl.job} \subseteq DOMAIN wals'
      /\ \A g \in DOMAIN wals' : wals'[g] = wals[g]
  BY DEF Without
<1>6. Typed'
  BY <1>1, <1>3, Zenon DEF Typed, FlushPCs
<1>7. Files'
  <2>1. IsFiniteSet(DOMAIN wals')
    BY <1>1, <1>5, FS_Subset DEF Files
  <2> QED BY <1>1, <1>5, <2>1 DEF Files
<1>8. Quiet' /\ Locked'
  BY <1>1, <1>2, Zenon DEF Quiet, Locked, HoldsRLock, Running
<1>9. Queued'
  BY <1>1, <1>2, <1>3, Zenon DEF Queued
<1>10. Logging'
  <2>1. WALBacksMemory'
    BY <1>1, <1>4, <1>5 DEF Logging, WALBacksMemory, LogOf
  <2>2. ASSUME NEW w \in Writers, wr[w].pc = "apply"
        PROVE  wr[w].rec \in LogOf(mem)'
    <3>1. mem \in DOMAIN wals
      BY <1>1, <2>2, Zenon DEF Logging, WALBacksMemory, Locked, HoldsRLock
    <3> QED BY <1>1, <1>4, <1>5, <2>2, <3>1 DEF Logging, LogOf
  <2> QED BY <1>1, <2>1, <2>2, Zenon DEF Logging
<1>11. Ordering'
  BY <1>1 DEF Ordering, GenerationsOrdered, Running
<1> QED BY <1>6, <1>7, <1>8, <1>9, <1>10, <1>11, Zenon DEF IInv

\* Every step of flushWorker and doFlush keeps the invariant.
LEMMA FlushInv == IInv /\ FlushNext => IInv'
<1> SUFFICES ASSUME IInv, FlushNext PROVE IInv'
  OBVIOUS
<1> USE DEF lifeVars, memVars, chVars, diskVars
<1>1. Typed /\ Files /\ Quiet /\ Queued
  BY Zenon DEF IInv
<1>2. Running /\ UNCHANGED flushCh =>
        flushCh' \in Seq(Nat) /\ \A i \in DOMAIN flushCh' : flushCh'[i] < mem
  BY <1>1, Zenon DEF Typed, Queued
<1>3. UNCHANGED ssts \/ ssts' = FlushFile
        => DOMAIN ssts' \in SUBSET Nat /\ IsFiniteSet(DOMAIN ssts')
  <2>1. UNCHANGED ssts \/ ssts' = FlushFile => DOMAIN ssts' \subseteq DOMAIN ssts \cup {fl.gen}
    BY Zenon DEF FlushFile, With
  <2>2. IsFiniteSet(DOMAIN ssts \cup {fl.gen})
    BY <1>1, FS_AddElement, Zenon DEF Files
  <2> QED BY <1>1, <2>1, <2>2, FS_Subset, Zenon DEF Files, Typed
<1>4. genCounter \in Nat /\ IdleFlush \in FlushSteps /\ IdleFlush.pc = "idle"
  BY <1>1, Zenon DEF Typed, IdleFlush, FlushSteps, FlushPCs
<1>5. CASE FlushTake
  <2>1. /\ Head(flushCh) \in Nat /\ Head(flushCh) < mem
        /\ flushCh' \in Seq(Nat) /\ \A i \in DOMAIN flushCh' : flushCh'[i] < mem
    <3>1. /\ flushCh \in Seq(Nat) /\ flushCh # <<>> /\ flushCh' = Tail(flushCh)
          /\ \A i \in DOMAIN flushCh : flushCh[i] < mem
      BY <1>1, <1>5, Zenon DEF FlushTake, Queued, Typed
    <3> QED BY <3>1
  <2>2. /\ Running /\ genCounter' = genCounter + 1
        /\ fl' \in FlushSteps /\ fl'.pc = "write" /\ fl'.job < mem
        /\ UNCHANGED <<phase, memVars, wals, ssts, wr, cp>>
    BY <1>4, <1>5, <2>1 DEF FlushTake, FlushSteps, FlushPCs
  <2> QED BY <1>3, <1>4, <2>1, <2>2, FlushMoves
<1>6. CASE FlushStop \/ FlushError \/ FlushTrigger
  <2>1. Running
    BY <1>1, <1>6 DEF FlushStop, FlushError, FlushTrigger, Quiet, IdleFlush, Running
  <2>2. fl' \in FlushSteps /\ fl'.pc \in {"idle", "exited"}
    BY <1>4, <1>6 DEF FlushStop, FlushError, FlushTrigger, IdleFlush, FlushSteps, FlushPCs
  <2>3. UNCHANGED <<genCounter, flushCh, phase, memVars, wals, wr, cp>>
    BY <1>6 DEF FlushStop, FlushError, FlushTrigger
  <2>4. UNCHANGED ssts \/ ssts' = FlushFile
    BY <1>6, Zenon DEF FlushStop, FlushError, FlushTrigger
  <2> QED BY <1>2, <1>3, <1>4, <2>1, <2>2, <2>3, <2>4, FlushMoves
<1>7. CASE FlushWrite
  <2>1. Running
    BY <1>1, <1>7 DEF FlushWrite, Quiet, IdleFlush, Running
  <2>2. fl' \in FlushSteps /\ fl'.pc = "commit" /\ fl'.job < mem
    BY <1>1, <1>7, <2>1, Zenon DEF FlushWrite, Typed, Queued, FlushSteps, FlushPCs
  <2>3. ssts' = FlushFile /\ UNCHANGED <<genCounter, flushCh, phase, memVars, wals, wr, cp>>
    BY <1>7, Zenon DEF FlushWrite
  <2> QED BY <1>2, <1>3, <1>4, <2>1, <2>2, <2>3, FlushMoves
<1> QED BY <1>5, <1>6, <1>7, FlushCommitInv, FlushRemoveWALInv, Zenon DEF FlushNext

-----------------------------------------------------------------------------
(* Open, Close and the end of the process.                                 *)

\* When the process ends only the files remain, and they are well formed.
LEMMA ExitInv ==
  ASSUME IInv, Exit
  PROVE  IInv'
<1> USE DEF Exit, AllIdle
<1>1. Typed /\ Files
  BY DEF IInv
<1>2. Typed'
  BY ConstantsAssumption
  DEF Typed, IdleWriter, IdleFlush, IdleCompaction, CompactionFields, Entry,
      WriterPCs, FlushPCs
<1>3. Files'
  <2>1. /\ DOMAIN wals' = DOMAIN wals
        /\ \A g \in DOMAIN wals : wals'[g] \in WALs /\ wals'[g].recs = wals[g].recs
    BY <1>1, Zenon DEF Files, WALs
  <2> QED BY <1>1, <2>1, Zenon DEF Files
<1>4. Quiet' /\ Locked' /\ Queued'
  BY Zenon DEF Quiet, Locked, Queued, HoldsRLock, Running, IdleWriter
<1>5. Logging'
  BY Zenon DEF Logging, WALBacksMemory, IdleWriter
<1>6. Ordering'
  BY DEF Ordering, GenerationsOrdered, Running
<1> QED BY <1>2, <1>3, <1>4, <1>5, <1>6 DEF IInv

\* Recovery resumes after the greatest Seq and the greatest generation it finds.
LEMMA RecoveredCounters ==
  ASSUME Files
  PROVE  /\ MaxLoggedSeq \in 0..MaxSeq
         /\ Max({0} \cup DOMAIN wals \cup DOMAIN ssts) \in Nat
         /\ \A g \in DOMAIN wals \cup DOMAIN ssts : g <= Max({0} \cup DOMAIN wals \cup DOMAIN ssts)
<1> DEFINE Seqs == {0} \cup
             UNION {{wals[g].recs[i].seq : i \in DOMAIN wals[g].recs} : g \in DOMAIN wals}
           Gens == {0} \cup DOMAIN wals \cup DOMAIN ssts
<1>1. Seqs \subseteq 0..MaxSeq
  <2> SUFFICES ASSUME NEW g \in DOMAIN wals, NEW i \in DOMAIN wals[g].recs
               PROVE  wals[g].recs[i].seq \in 0..MaxSeq
    BY ConstantsAssumption
  <2>1. wals[g].recs \in Seq(Record)
    BY Zenon DEF Files, WALs
  <2>2. wals[g].recs[i] \in Record
    BY <2>1
  <2> QED BY <2>2, ConstantsAssumption DEF Files, Record
<1>2. IsFiniteSet(0..MaxSeq)
  BY FS_Interval, ConstantsAssumption
<1>3. Max(Seqs) \in Seqs
  <2>1. IsFiniteSet(Seqs) /\ Seqs \in SUBSET Nat /\ Seqs # {}
    <3> HIDE DEF Seqs
    <3>1. IsFiniteSet(Seqs)
      BY <1>1, <1>2, FS_Subset, Zenon
    <3>2. Seqs \in SUBSET Nat
      BY <1>1
    <3> QED BY <3>1, <3>2, Zenon DEF Seqs
  <2> HIDE DEF Seqs
  <2> QED BY <2>1, FiniteMax, Zenon
<1>4. Max(Gens) \in Gens /\ Gens \subseteq Nat /\ \A g \in Gens : g <= Max(Gens)
  <2>1. IsFiniteSet({0}) /\ IsFiniteSet({0} \cup DOMAIN wals) /\ IsFiniteSet(Gens)
    BY FS_Singleton, FS_Union, Zenon DEF Files
  <2>2. Gens \in SUBSET Nat /\ Gens # {}
    BY DEF Files
  <2> HIDE DEF Gens
  <2> QED BY <2>1, <2>2, FiniteMax, Zenon
<1> QED BY <1>1, <1>3, <1>4, Zenon DEF MaxLoggedSeq

\* Open, with its recovery, keeps the invariant.
LEMMA OpenInv == IInv /\ (OpenRecover \/ OpenRemoveWAL \/ OpenFinish) => IInv'
<1> SUFFICES ASSUME IInv, OpenRecover \/ OpenRemoveWAL \/ OpenFinish PROVE IInv'
  BY Zenon
<1> USE DEF memVars, chVars
<1>1. Typed /\ Files /\ Quiet /\ Locked /\ Queued /\ Logging /\ Ordering
  BY DEF IInv
<1>2. CASE OpenRecover
  <2> DEFINE top == Max({0} \cup DOMAIN wals \cup DOMAIN ssts)
  <2>1. /\ genCounter' \in {top, top + 1} /\ seq' = MaxLoggedSeq
        /\ phase = "down" /\ phase' = "recovering"
        /\ DOMAIN ssts' \subseteq DOMAIN ssts \cup {top + 1}
        /\ UNCHANGED <<mem, imm, mts, flushCh, wals, wr, fl, cp>>
    BY <1>2, Zenon DEF OpenRecover, With
  <2>2. top \in Nat /\ MaxLoggedSeq \in 0..MaxSeq
    BY <1>1, RecoveredCounters, Zenon
  <2> HIDE DEF top
  <2>3. Typed'
    BY <1>1, <2>1, <2>2 DEF Typed
  <2>4. Files'
    <3>1. IsFiniteSet(DOMAIN ssts \cup {top + 1})
      BY <1>1, FS_AddElement, Zenon DEF Files
    <3>2. IsFiniteSet(DOMAIN ssts')
      BY <2>1, <3>1, FS_Subset, Zenon
    <3> QED BY <1>1, <2>1, <2>2, <3>2 DEF Files
  <2>5. Quiet' /\ Locked' /\ Queued'
    BY <1>1, <2>1, Zenon DEF Quiet, Locked, Queued, HoldsRLock, Running
  <2>6. Logging'
    <3>1. \A w \in Writers : wr'[w].pc = "idle"
      BY <1>1, <2>1 DEF Quiet, IdleWriter
    <3>2. WALBacksMemory'
      BY <2>1, Zenon DEF WALBacksMemory
    <3> QED BY <3>1, <3>2, Zenon DEF Logging
  <2>7. Ordering'
    <3>1. GenerationsOrdered'
      <4>1. imm' = imm /\ mem' = mem /\ mts' = mts
        BY <2>1, Zenon
      <4>2. GenerationsOrdered
        BY <1>1 DEF Ordering
      <4> QED BY <4>1, <4>2 DEF GenerationsOrdered
    <3> QED BY <2>1, <3>1, Zenon DEF Ordering, Running
  <2> QED BY <2>3, <2>4, <2>5, <2>6, <2>7 DEF IInv
<1>3. CASE OpenRemoveWAL
  <2>1. /\ DOMAIN wals' \subseteq DOMAIN wals
        /\ \A g \in DOMAIN wals' : wals'[g] = wals[g]
    BY <1>3, Zenon DEF OpenRemoveWAL, Without
  <2>2. /\ phase = "recovering"
        /\ UNCHANGED <<phase, genCounter, seq, mem, imm, mts, flushCh, ssts, wr, fl, cp>>
    BY <1>3, Zenon DEF OpenRemoveWAL
  <2>3. Typed'
    BY <1>1, <2>2, Zenon DEF Typed
  <2>4. Files'
    <3>1. IsFiniteSet(DOMAIN wals')
      BY <1>1, <2>1, FS_Subset, Zenon DEF Files
    <3> QED BY <1>1, <2>1, <2>2, <3>1, Zenon DEF Files
  <2>5. Quiet' /\ Locked' /\ Queued'
    BY <1>1, <2>2, Zenon DEF Quiet, Locked, Queued, HoldsRLock, Running
  <2>6. Logging'
    <3>1. \A w \in Writers : wr'[w].pc = "idle"
      BY <1>1, <2>2 DEF Quiet, IdleWriter
    <3>2. WALBacksMemory'
      BY <2>2, Zenon DEF WALBacksMemory
    <3> QED BY <3>1, <3>2 DEF Logging
  <2>7. Ordering'
    <3>1. GenerationsOrdered'
      <4>1. imm' = imm /\ mem' = mem /\ mts' = mts
        BY <2>2
      <4>2. GenerationsOrdered
        BY <1>1, Zenon DEF Ordering
      <4> QED BY <4>1, <4>2 DEF GenerationsOrdered
    <3> QED BY <2>2, <3>1, Zenon DEF Ordering, Running
  <2> QED BY <2>3, <2>4, <2>5, <2>6, <2>7, Zenon DEF IInv
<1>4. CASE OpenFinish
  <2> DEFINE new == genCounter + 1
  <2>1. /\ phase = "recovering" /\ phase' = "up"
        /\ genCounter' = new /\ mem' = new
        /\ DOMAIN wals' = DOMAIN wals \cup {new} /\ wals'[new] = EmptyWAL
        /\ \A g \in DOMAIN wals \ {new} : wals'[g] = wals[g]
        /\ new \in DOMAIN mts' /\ mts'[new] = EmptyMem
        /\ UNCHANGED <<seq, imm, flushCh, ssts, wr, fl, cp>>
    BY <1>4, Zenon DEF OpenFinish, With
  <2>2. /\ imm = {} /\ flushCh = <<>> /\ fl.pc = "idle"
        /\ \A w \in Writers : wr[w].pc = "idle"
    BY <1>1, <2>1 DEF Quiet, IdleFlush, IdleWriter
  <2>3. new \in Nat
    BY <1>1 DEF Typed
  <2> HIDE DEF new
  <2>4. Typed'
    BY <1>1, <2>1, <2>3, Zenon DEF Typed
  <2>5. Files'
    <3>1. IsFiniteSet(DOMAIN wals')
      BY <1>1, <2>1, FS_AddElement DEF Files
    <3>2. EmptyWAL \in WALs /\ DOMAIN EmptyWAL.recs = {}
      BY DEF EmptyWAL, WALs
    <3>3. DOMAIN wals' \in SUBSET Nat /\ ssts' = ssts
      BY <1>1, <2>1, <2>3, Zenon DEF Files
    <3>4. \A g \in DOMAIN wals' : wals'[g] = EmptyWAL \/ (g \in DOMAIN wals /\ wals'[g] = wals[g])
      BY <2>1, Zenon
    <3> QED BY <1>1, <3>1, <3>2, <3>3, <3>4, Zenon DEF Files
  <2>6. Quiet' /\ Locked'
    BY <2>1, Zenon DEF Quiet, Locked
  <2>7. Queued'
    BY <2>1, <2>2, <2>3, EmptyMemRecords DEF Queued
  <2>8. Logging'
    BY <2>1, <2>2, EmptyMemRecords, Zenon DEF Logging, WALBacksMemory
  <2>9. Ordering'
    BY <2>1, <2>2, EmptyMemRecords, Zenon DEF Ordering, GenerationsOrdered
  <2> QED BY <2>4, <2>5, <2>6, <2>7, <2>8, <2>9 DEF IInv
<1> QED BY <1>2, <1>3, <1>4

\* The steps of Close: no writer is between its Seq and its size check.
LEMMA CloseMoves ==
  ASSUME IInv, Running, \A w \in Writers : ~HoldsRLock(w),
         phase' \in {"closing", "locked", "closed"},
         phase' # "closed" => phase # "closed" /\ UNCHANGED wals,
         genCounter' \in Nat, genCounter <= genCounter',
         DOMAIN wals' \subseteq DOMAIN wals, \A g \in DOMAIN wals' : wals'[g] = wals[g],
         DOMAIN ssts' \in SUBSET Nat, IsFiniteSet(DOMAIN ssts'),
         UNCHANGED <<memVars, flushCh, wr, fl, cp>>
  PROVE  IInv'
<1> USE DEF memVars
<1>1. Typed /\ Files /\ Quiet /\ Locked /\ Queued /\ Logging /\ Ordering
  BY Zenon DEF IInv
<1>2. Running'
  BY Zenon DEF Running
<1>3. Typed'
  BY <1>1, Zenon DEF Typed
<1>4. Files'
  <2>1. IsFiniteSet(DOMAIN wals')
    BY <1>1, FS_Subset, Zenon DEF Files
  <2> QED BY <1>1, <2>1, Zenon DEF Files
<1>5. Quiet' /\ Locked'
  BY Zenon DEF Quiet, Locked, HoldsRLock
<1>6. Queued'
  <2>1. mem <= genCounter'
    BY <1>1 DEF Queued, Typed
  <2> QED BY <1>1, <2>1, Zenon DEF Queued
<1>7. Logging'
  <2>1. WALBacksMemory'
    BY <1>1, <1>2, Zenon DEF Logging, WALBacksMemory, LogOf, Running, Typed
  <2> QED BY <2>1, Zenon DEF Logging, HoldsRLock
<1>8. Ordering'
  <2>1. imm' = imm /\ mem' = mem /\ mts' = mts /\ seq' = seq /\ wr' = wr
    BY Zenon
  <2>2. GenerationsOrdered
    BY <1>1, Zenon DEF Ordering
  <2>3. GenerationsOrdered'
    BY <2>1, <2>2, Zenon DEF GenerationsOrdered
  <2> QED BY <1>1, <2>1, <2>3, Zenon DEF Ordering
<1> QED BY <1>3, <1>4, <1>5, <1>6, <1>7, <1>8, Zenon DEF IInv

\* Close keeps the invariant.
LEMMA CloseInv ==
  ASSUME IInv,
         CloseBegin \/ CloseFlush \/ CloseFlushError \/ CloseWALError \/ CloseFinish
  PROVE  IInv'
<1> USE DEF memVars, tblVars, chVars, diskVars
<1>1. Typed /\ Files /\ Locked
  BY DEF IInv
<1>2. genCounter \in Nat
  BY <1>1, Zenon DEF Typed
<1>3. UNCHANGED ssts \/ DOMAIN ssts' = DOMAIN ssts \cup {genCounter + 1}
        => DOMAIN ssts' \in SUBSET Nat /\ IsFiniteSet(DOMAIN ssts')
  <2>1. IsFiniteSet(DOMAIN ssts \cup {genCounter + 1})
    BY <1>1, FS_AddElement, Zenon DEF Files
  <2> QED BY <1>1, <1>2, <2>1 DEF Files
<1>4. \A w \in Writers : ~HoldsRLock(w)
  BY <1>1, Zenon DEF CloseBegin, CloseFlush, CloseFlushError, CloseWALError, CloseFinish,
              Locked, LockFree
<1>5. CASE CloseBegin
  BY <1>2, <1>3, <1>4, <1>5, CloseMoves DEF CloseBegin, Running
<1>6. CASE CloseFlush
  <2>1. /\ UNCHANGED ssts \/ DOMAIN ssts' = DOMAIN ssts \cup {genCounter + 1}
        /\ genCounter' \in {genCounter, genCounter + 1}
        /\ phase = "closing" /\ phase' = "locked"
        /\ UNCHANGED <<wals, memVars, flushCh, wr, fl, cp>>
    BY <1>6, Zenon DEF CloseFlush, With
  <2> QED BY <1>2, <1>3, <1>4, <2>1, CloseMoves DEF Running
<1>7. CASE CloseFlushError
  <2>1. /\ UNCHANGED ssts \/ DOMAIN ssts' = DOMAIN ssts \cup {genCounter + 1}
        /\ genCounter' = genCounter + 1
        /\ phase = "closing" /\ phase' = "closed"
        /\ UNCHANGED <<wals, memVars, flushCh, wr, fl, cp>>
    BY <1>7, Zenon DEF CloseFlushError, With
  <2> QED BY <1>2, <1>3, <1>4, <2>1, CloseMoves DEF Running
<1>8. CASE CloseWALError
  BY <1>2, <1>3, <1>4, <1>8, CloseMoves DEF CloseWALError, Running
<1>9. CASE CloseFinish
  <2>1. /\ DOMAIN wals' \subseteq DOMAIN wals /\ \A g \in DOMAIN wals' : wals'[g] = wals[g]
        /\ phase = "locked" /\ phase' = "closed"
        /\ UNCHANGED <<genCounter, ssts, memVars, flushCh, wr, fl, cp>>
    BY <1>9, Zenon DEF CloseFinish, Without
  <2> QED BY <1>2, <1>3, <1>4, <2>1, CloseMoves DEF Running
<1> QED BY <1>5, <1>6, <1>7, <1>8, <1>9, Zenon

-----------------------------------------------------------------------------
(* The results.                                                            *)

\* Every step keeps the inductive invariant.
LEMMA IInvStep == IInv /\ [Next]_vars => IInv'
<1> SUFFICES ASSUME IInv, [Next]_vars PROVE IInv'
  BY Zenon
<1>1. CASE Next
  BY <1>1, WriterInv, FlushInv, CompactionInv, ReaderInv, SnapshotInv, ExitInv,
     OpenInv, CloseInv
  DEF Next, LifecycleNext
<1>2. CASE UNCHANGED vars
  BY <1>2, StutterInv, Zenon DEF vars, lifeVars, memVars, chVars, diskVars
<1> QED BY <1>1, <1>2, Zenon

\* The inductive invariant holds in every reachable state, for every number of
\* writers, readers, snapshots, keys, sessions and faults.
THEOREM Invariance == Spec => []IInv
  BY InitInv, IInvStep, PTL DEF Spec

\* Until Close is done, every record of the active and of the immutable
\* MemTables is in the WAL file behind that MemTable: write appends before it
\* applies, and doFlush takes a MemTable out of e.imm before it removes the WAL.
THEOREM WALBacksMemoryAlways == Spec => []WALBacksMemory
<1>1. IInv => WALBacksMemory
  BY Zenon DEF IInv, Logging
<1> QED BY <1>1, Invariance, PTL

\* A later MemTable holds only later Seqs: rotate waits for every writer that
\* has a Seq and has not yet applied its record.
THEOREM GenerationsOrderedAlways == Spec => []GenerationsOrdered
<1>1. IInv => GenerationsOrdered
  BY Zenon DEF IInv, Ordering
<1> QED BY <1>1, Invariance, PTL

-----------------------------------------------------------------------------
(* Which actor touches what.                                               *)

\* Writers touch no table, no worker and no reader.
LEMMA WriterTouches ==
  WriterNext => UNCHANGED <<lifeVars, tblVars, ssts, compactCh, fl, cp, rd>>
<1> SUFFICES ASSUME NEW w \in Writers,
                    \/ \E k \in Keys : Delete(w, k) \/ \E v \in Values : Put(w, k, v)
                    \/ WriteAppend(w) \/ WriteAppendError(w) \/ WriteApply(w) \/ WriteCheck(w)
                    \/ RotateSkip(w) \/ RotateSwap(w) \/ RotateError(w) \/ RotateSend(w)
             PROVE  UNCHANGED <<lifeVars, tblVars, ssts, compactCh, fl, cp, rd>>
  BY Zenon DEF WriterNext
<1> USE DEF chVars, diskVars
<1>1. ASSUME \E k \in Keys : Delete(w, k) \/ \E v \in Values : Put(w, k, v)
      PROVE  UNCHANGED <<lifeVars, tblVars, ssts, compactCh, fl, cp, rd>>
  BY <1>1, Zenon DEF Put, Delete, WriteBegin
<1>2. ASSUME WriteAppend(w) \/ WriteAppendError(w) \/ WriteApply(w) \/ WriteCheck(w)
      PROVE  UNCHANGED <<lifeVars, tblVars, ssts, compactCh, fl, cp, rd>>
  BY <1>2, Zenon DEF WriteAppend, WriteAppendError, WriteApply, WriteCheck
<1>3. ASSUME RotateSkip(w) \/ RotateSwap(w) \/ RotateError(w) \/ RotateSend(w)
      PROVE  UNCHANGED <<lifeVars, tblVars, ssts, compactCh, fl, cp, rd>>
  BY <1>3, Zenon DEF RotateSkip, RotateSwap, RotateError, RotateSend
<1> QED BY <1>1, <1>2, <1>3, Zenon

\* The flush worker touches no reader and not the compaction worker.
LEMMA FlushTouches == FlushNext => UNCHANGED <<lifeVars, cp, rd>>
  BY Zenon DEF FlushNext, FlushTake, FlushStop, FlushWrite, FlushError, FlushCommit,
               FlushRemoveWAL, FlushTrigger

\* The compaction worker touches no log, no reader and not the flush worker.
LEMMA CompactionTouches == CompactionNext => UNCHANGED <<lifeVars, wals, fl, rd>>
<1> USE DEF diskVars
<1>1. CompactionWake \/ CompactionStop \/ CompactionPick \/ CompactionPin \/ CompactionMerge
        => UNCHANGED <<lifeVars, wals, fl, rd>>
  BY Zenon DEF CompactionWake, CompactionStop, CompactionPick, CompactionPin, CompactionMerge
<1>2. CompactionMergeError \/ CompactionCommit \/ CompactionAbort \/ CompactionRetire
        \/ CompactionChain
        => UNCHANGED <<lifeVars, wals, fl, rd>>
  BY Zenon DEF CompactionMergeError, CompactionCommit, CompactionAbort, CompactionRetire,
               CompactionChain
<1> QED BY <1>1, <1>2, Zenon DEF CompactionNext

\* Readers touch no list, no log and no worker.
LEMMA ReaderTouches ==
  ReaderNext => UNCHANGED <<lifeVars, genCounter, tables, wals, compactCh, fl, cp>>
<1> USE DEF diskVars, chVars, tblVars
<1> SUFFICES ASSUME NEW r \in Readers,
                    \/ \E k \in Keys : Get(r, k)
                    \/ Scan(r)
                    \/ \E s \in Snapshots : SnapshotScan(r, s)
                    \/ ReadResolve(r) \/ ReadRelease(r) \/ ReadReturn(r)
             PROVE  UNCHANGED <<lifeVars, genCounter, tables, wals, compactCh, fl, cp>>
  BY Zenon DEF ReaderNext
<1>1. ASSUME NEW K, NEW max, ReadBegin(r, K, max)
      PROVE  UNCHANGED <<lifeVars, genCounter, tables, wals, compactCh, fl, cp>>
  BY <1>1 DEF ReadBegin
<1>2. ASSUME ReadResolve(r) \/ ReadRelease(r) \/ ReadReturn(r)
      PROVE  UNCHANGED <<lifeVars, genCounter, tables, wals, compactCh, fl, cp>>
  BY <1>2, Zenon DEF ReadResolve, ReadRelease, ReadReturn
<1> QED BY <1>1, <1>2, Zenon DEF Get, Scan, SnapshotScan

\* Snapshots touch no table.
LEMMA SnapshotTouches ==
  SnapshotNext =>
    UNCHANGED <<lifeVars, genCounter, tblVars, diskVars, chVars, fl, cp, rd>>
  BY Zenon DEF SnapshotNext, SnapshotLoad, SnapshotRegister, SnapshotClose

\* Writers and the flush worker act in a running engine only.
LEMMA ActorsRun == IInv /\ (WriterNext \/ FlushNext) => Running
<1> SUFFICES ASSUME IInv, WriterNext \/ FlushNext, ~Running PROVE FALSE
  OBVIOUS
<1>1. phase \in {"down", "recovering"} /\ fl.pc = "idle" /\ \A w \in Writers : wr[w].pc = "idle"
  BY DEF IInv, Quiet, Running, IdleFlush, IdleWriter
<1>2. ~FlushNext
  BY <1>1, Zenon DEF FlushNext, FlushTake, FlushStop, FlushWrite, FlushError, FlushCommit,
              FlushRemoveWAL, FlushTrigger, Running
<1>3. \A w \in Writers : \A k, v : ~Put(w, k, v) /\ ~Delete(w, k)
  BY <1>1, Zenon DEF Put, Delete, WriteBegin
<1>4. \A w \in Writers : ~WriteAppend(w) /\ ~WriteAppendError(w) /\ ~WriteApply(w) /\ ~WriteCheck(w)
  BY <1>1 DEF WriteAppend, WriteAppendError, WriteApply, WriteCheck
<1>5. \A w \in Writers : ~RotateSkip(w) /\ ~RotateSwap(w) /\ ~RotateError(w) /\ ~RotateSend(w)
  BY <1>1, Zenon DEF RotateSkip, RotateSwap, RotateError, RotateSend
<1> QED BY <1>2, <1>3, <1>4, <1>5, Zenon DEF WriterNext

\* The workers act between Open and the last section of Close only.
LEMMA WorkersRun == IInv /\ Stages /\ (FlushNext \/ CompactionNext) => phase \in {"up", "closing"}
<1> SUFFICES ASSUME IInv, Stages, FlushNext \/ CompactionNext PROVE phase \in {"up", "closing"}
  OBVIOUS
<1>1. phase \in {"down", "recovering", "up", "closing", "locked", "closed"}
  BY Zenon DEF IInv, Typed
<1>2. CASE FlushNext
  <2>1. Running
    BY <1>2, ActorsRun, Zenon
  <2>2. fl.pc # "exited"
    BY <1>2, Zenon DEF FlushNext, FlushTake, FlushStop, FlushWrite, FlushError, FlushCommit,
                FlushRemoveWAL, FlushTrigger
  <2> QED BY <1>1, <2>1, <2>2, Zenon DEF Running, Stages, WorkersExited
<1>3. CASE CompactionNext
  <2>1. cp.pc # "exited" /\ (cp.pc = "idle" => Running)
    BY <1>3, Zenon DEF CompactionNext, CompactionWake, CompactionStop, CompactionPick, CompactionPin,
                CompactionMerge, CompactionMergeError, CompactionCommit, CompactionAbort,
                CompactionRetire, CompactionChain, Running
  <2> QED BY <1>1, <2>1 DEF Running, Stages, WorkersExited, IdleCompaction
<1> QED BY <1>2, <1>3, Zenon

-----------------------------------------------------------------------------
(* Lists of tables.                                                        *)

\* InOrder lists a finite set of numbers, ascending and each of them once.
LEMMA InOrderLists ==
  ASSUME NEW S \in SUBSET Nat, IsFiniteSet(S)
  PROVE  /\ Cardinality(S) \in Nat /\ DOMAIN InOrder(S) = 1..Cardinality(S)
         /\ \A i \in DOMAIN InOrder(S) : InOrder(S)[i] \in S
         /\ \A x \in S : \E i \in DOMAIN InOrder(S) : InOrder(S)[i] = x
         /\ \A i, j \in DOMAIN InOrder(S) : i < j => InOrder(S)[i] < InOrder(S)[j]
<1> DEFINE n == Cardinality(S)
           UpTo(x) == {y \in S : y <= x}
           rank == [x \in S |-> Cardinality(UpTo(x))]
<1>1. n \in Nat
  BY FS_CardinalityType, Zenon
<1>2. ASSUME NEW x \in S
      PROVE  IsFiniteSet(UpTo(x)) /\ Cardinality(UpTo(x)) \in 1..n
  <2>1. UpTo(x) \in SUBSET S /\ x \in UpTo(x)
    OBVIOUS
  <2> HIDE DEF UpTo
  <2>2. IsFiniteSet(UpTo(x)) /\ Cardinality(UpTo(x)) <= n
    BY <2>1, FS_Subset, Zenon
  <2>3. Cardinality(UpTo(x)) \in Nat /\ Cardinality(UpTo(x)) # 0
    BY <2>1, <2>2, FS_CardinalityType, FS_EmptySet, Zenon
  <2> QED BY <1>1, <2>2, <2>3
<1>3. ASSUME NEW x \in S, NEW y \in S, x < y
      PROVE  rank[x] < rank[y]
  <2>1. UpTo(x) \in SUBSET UpTo(y) /\ UpTo(x) # UpTo(y)
    <3>1. y \in UpTo(y) /\ y \notin UpTo(x)
      BY <1>3
    <3>2. \A z \in UpTo(x) : z \in UpTo(y)
      BY <1>3
    <3> HIDE DEF UpTo
    <3> QED BY <3>1, <3>2, Zenon
  <2>2. IsFiniteSet(UpTo(y)) /\ Cardinality(UpTo(x)) \in Nat /\ Cardinality(UpTo(y)) \in Nat
    BY <1>1, <1>2
  <2> HIDE DEF UpTo
  <2>3. Cardinality(UpTo(x)) <= Cardinality(UpTo(y)) /\ Cardinality(UpTo(x)) # Cardinality(UpTo(y))
    BY <2>1, <2>2, FS_Subset, Zenon
  <2> QED BY <2>2, <2>3
<1>4. rank \in [S -> 1..n]
  BY <1>2, Zenon
<1>5. rank \in Injection(S, 1..n)
  <2> HIDE DEF rank
  <2>1. \A x, y \in S : rank[x] = rank[y] => x = y
    BY <1>1, <1>3, <1>4
  <2> QED BY <1>4, <2>1, Zenon DEF Injection, IsInjective
<1>6. \A i \in 1..n : \E x \in S : rank[x] = i
  <2>1. IsFiniteSet(1..n) /\ Cardinality(1..n) = n
    BY <1>1, FS_Interval
  <2> HIDE DEF rank
  <2>2. rank \in Surjection(S, 1..n)
    BY <1>5, <2>1, FS_Injection, Zenon
  <2> QED BY <2>2 DEF Surjection
<1>7. \A x, y \in S : rank[x] = rank[y] => x = y
  BY <1>5, Zenon DEF Injection, IsInjective
<1>8. \A i \in 1..n : InOrder(S)[i] \in S /\ rank[InOrder(S)[i]] = i
  <2> SUFFICES ASSUME NEW i \in 1..n
               PROVE  InOrder(S)[i] \in S /\ rank[InOrder(S)[i]] = i
    BY Zenon
  <2>1. \E x \in S : Cardinality(UpTo(x)) = i
    BY <1>6, Zenon
  <2>2. InOrder(S)[i] = CHOOSE x \in S : Cardinality(UpTo(x)) = i
    BY Zenon DEF InOrder
  <2> HIDE DEF UpTo
  <2> QED BY <2>1, <2>2, Zenon
<1>9. DOMAIN InOrder(S) = 1..n
  BY DEF InOrder
<1> HIDE DEF rank, n
<1>10. \A x \in S : rank[x] \in 1..n /\ InOrder(S)[rank[x]] = x
  BY <1>4, <1>7, <1>8, Zenon
<1>11. ASSUME NEW i \in 1..n, NEW j \in 1..n, i < j
       PROVE  InOrder(S)[i] < InOrder(S)[j]
  <2>1. PICK x \in S : x = InOrder(S)[i] /\ rank[x] = i
    BY <1>8, Zenon
  <2>2. PICK y \in S : y = InOrder(S)[j] /\ rank[y] = j
    BY <1>8, Zenon
  <2>3. x \in Nat /\ y \in Nat /\ i \in Nat /\ j \in Nat
    BY <1>1
  <2>4. y < x \/ y = x \/ x < y
    BY <2>3
  <2>5. ~(y < x)
    BY <1>3, <1>11, <2>1, <2>2, <2>3
  <2>6. y # x
    BY <1>11, <2>1, <2>2, <2>3
  <2> QED BY <2>1, <2>2, <2>4, <2>5, <2>6, Zenon
<1> QED BY <1>1, <1>8, <1>9, <1>10, <1>11, Zenon DEF n

\* A filtered list has the chosen entries, in their order.
LEMMA TablesAtLists ==
  ASSUME tables \in Seq(TableEntry), NEW P \in SUBSET DOMAIN tables
  PROVE  /\ TablesAt(P) \in Seq(TableEntry) /\ Len(TablesAt(P)) <= Len(tables)
         /\ \A i \in DOMAIN TablesAt(P) : InOrder(P)[i] \in P /\ TablesAt(P)[i] = tables[InOrder(P)[i]]
         /\ \A p \in P : \E i \in DOMAIN TablesAt(P) : InOrder(P)[i] = p
         /\ \A i, j \in DOMAIN TablesAt(P) : i < j => InOrder(P)[i] < InOrder(P)[j]
<1>1. DOMAIN tables = 1..Len(tables) /\ Len(tables) \in Nat
  OBVIOUS
<1>2. IsFiniteSet(DOMAIN tables) /\ Cardinality(DOMAIN tables) = Len(tables)
  <2>1. \A n \in Nat : IsFiniteSet(1..n) /\ Cardinality(1..n) = n
    BY FS_Interval
  <2> QED BY <1>1, <2>1, Zenon
<1>3. P \in SUBSET Nat /\ IsFiniteSet(P) /\ Cardinality(P) <= Len(tables)
  BY <1>1, <1>2, FS_Subset
<1>4. /\ Cardinality(P) \in Nat /\ DOMAIN InOrder(P) = 1..Cardinality(P)
      /\ \A i \in 1..Cardinality(P) : InOrder(P)[i] \in P
      /\ \A p \in P : \E i \in 1..Cardinality(P) : InOrder(P)[i] = p
      /\ \A i, j \in 1..Cardinality(P) : i < j => InOrder(P)[i] < InOrder(P)[j]
  BY <1>3, InOrderLists, Zenon
<1>5. \A i \in 1..Cardinality(P) : tables[InOrder(P)[i]] \in TableEntry
  BY <1>1, <1>4
<1>6. TablesAt(P) \in Seq(TableEntry) /\ Len(TablesAt(P)) = Cardinality(P)
  BY <1>4, <1>5 DEF TablesAt
<1>7. DOMAIN TablesAt(P) = 1..Cardinality(P)
  BY Zenon DEF TablesAt
<1>8. \A i \in 1..Cardinality(P) : TablesAt(P)[i] = tables[InOrder(P)[i]]
  BY Zenon DEF TablesAt
<1> QED BY <1>3, <1>4, <1>6, <1>7, <1>8, Zenon

\* levelTablesLocked lists the tables of the level, each once if the list does.
LEMMA LevelTablesList ==
  ASSUME tables \in Seq(TableEntry), NEW lvl
  PROVE  /\ LevelTables(lvl) \in Seq(Nat)
         /\ \A i \in DOMAIN LevelTables(lvl) : \E p \in DOMAIN tables :
              tables[p].level = lvl /\ tables[p].gen = LevelTables(lvl)[i]
         /\ (\A p, q \in DOMAIN tables : tables[p].gen = tables[q].gen => p = q) =>
              \A i, j \in DOMAIN LevelTables(lvl) :
                LevelTables(lvl)[i] = LevelTables(lvl)[j] => i = j
<1> DEFINE P == {i \in DOMAIN tables : tables[i].level = lvl}
           q == TablesAt(P)
<1>1. /\ q \in Seq(TableEntry)
      /\ \A i \in DOMAIN q : InOrder(P)[i] \in P /\ q[i] = tables[InOrder(P)[i]]
      /\ \A i, j \in DOMAIN q : i < j => InOrder(P)[i] < InOrder(P)[j]
  BY TablesAtLists, Zenon
<1>2. LevelTables(lvl) = GensOf(q)
  BY DEF LevelTables
<1>3. P \subseteq DOMAIN tables /\ \A p \in P : tables[p].level = lvl
  BY Zenon
<1> HIDE DEF P, q
<1>4. DOMAIN q = 1..Len(q) /\ Len(q) \in Nat /\ \A i \in 1..Len(q) : q[i] \in TableEntry
  BY <1>1
<1>5. \A i \in 1..Len(q) : q[i].gen \in Nat
  BY <1>4 DEF TableEntry
<1>6. [i \in 1..Len(q) |-> q[i].gen] \in Seq(Nat)
  BY <1>4, <1>5
<1>7. GensOf(q) = [i \in 1..Len(q) |-> q[i].gen]
  BY <1>4, Zenon DEF GensOf
<1>8. DOMAIN LevelTables(lvl) = 1..Len(q) /\ \A i \in 1..Len(q) : LevelTables(lvl)[i] = q[i].gen
  BY <1>2, <1>7, Zenon
<1>9. \A i \in 1..Len(q) : InOrder(P)[i] \in DOMAIN tables /\ tables[InOrder(P)[i]].level = lvl
                           /\ tables[InOrder(P)[i]].gen = LevelTables(lvl)[i]
  BY <1>1, <1>3, <1>4, <1>8, Zenon
<1>10. ASSUME \A p1, p2 \in DOMAIN tables : tables[p1].gen = tables[p2].gen => p1 = p2,
              NEW i \in 1..Len(q), NEW j \in 1..Len(q), LevelTables(lvl)[i] = LevelTables(lvl)[j]
       PROVE  i = j
  <2>1. InOrder(P)[i] = InOrder(P)[j]
    BY <1>9, <1>10
  <2>2. InOrder(P)[i] \in Nat
    BY <1>9
  <2>3. ~(i < j) /\ ~(j < i)
    BY <1>1, <1>4, <2>1, <2>2
  <2> QED BY <1>4, <2>3
<1>11. LevelTables(lvl) \in Seq(Nat)
  BY <1>2, <1>6, <1>7, Zenon
<1> QED BY <1>8, <1>9, <1>10, <1>11, Zenon

\* A plan merges the listed tables of two levels.
LEMMA PlanLists ==
  ASSUME tables \in Seq(TableEntry), NEW lvl \in Nat
  PROVE  /\ Plan(lvl).inputs \in Seq(Nat) /\ Plan(lvl).target = lvl + 1
         /\ \A i \in DOMAIN Plan(lvl).inputs : \E p \in DOMAIN tables :
              tables[p].gen = Plan(lvl).inputs[i]
         /\ (\A p, q \in DOMAIN tables : tables[p].gen = tables[q].gen => p = q) =>
              \A i, j \in DOMAIN Plan(lvl).inputs :
                Plan(lvl).inputs[i] = Plan(lvl).inputs[j] => i = j
<1> DEFINE a == LevelTables(lvl)
           b == LevelTables(lvl + 1)
           c == Plan(lvl).inputs
<1>1. c = a \o b /\ Plan(lvl).target = lvl + 1
  BY Zenon DEF Plan
<1>2. /\ a \in Seq(Nat) /\ b \in Seq(Nat)
      /\ \A i \in DOMAIN a : \E p \in DOMAIN tables : tables[p].level = lvl /\ tables[p].gen = a[i]
      /\ \A i \in DOMAIN b : \E p \in DOMAIN tables : tables[p].level = lvl + 1 /\ tables[p].gen = b[i]
  BY LevelTablesList, Zenon
<1>3. (\A p, q \in DOMAIN tables : tables[p].gen = tables[q].gen => p = q) =>
        /\ \A i, j \in DOMAIN a : a[i] = a[j] => i = j
        /\ \A i, j \in DOMAIN b : b[i] = b[j] => i = j
  BY LevelTablesList, Zenon
<1> HIDE DEF a, b, c
<1>4. /\ Len(a) \in Nat /\ DOMAIN a = 1..Len(a) /\ Len(b) \in Nat /\ DOMAIN b = 1..Len(b)
      /\ c \in Seq(Nat) /\ DOMAIN c = 1..(Len(a) + Len(b))
      /\ \A i \in 1..(Len(a) + Len(b)) : c[i] = IF i <= Len(a) THEN a[i] ELSE b[i - Len(a)]
  BY <1>1, <1>2
<1>5. \A i \in DOMAIN c : \/ i \in DOMAIN a /\ c[i] = a[i]
                          \/ i - Len(a) \in DOMAIN b /\ c[i] = b[i - Len(a)]
  <2>1. \A m, n \in Nat : \A i \in 1..(m + n) :
          (i <= m /\ i \in 1..m) \/ (~(i <= m) /\ i - m \in 1..n)
    OBVIOUS
  <2>2. PICK m \in Nat, n \in Nat : m = Len(a) /\ n = Len(b)
    BY <1>4, Zenon
  <2>3. \A i \in 1..(m + n) : (i <= m /\ i \in 1..m) \/ (~(i <= m) /\ i - m \in 1..n)
    BY <2>1, Zenon
  <2> QED BY <1>4, <2>2, <2>3, Zenon
<1>6. \A i \in DOMAIN c : \E p \in DOMAIN tables : tables[p].gen = c[i]
  <2> SUFFICES ASSUME NEW i \in DOMAIN c PROVE \E p \in DOMAIN tables : tables[p].gen = c[i]
    BY Zenon
  <2>1. CASE i \in DOMAIN a /\ c[i] = a[i]
    BY <1>2, <2>1, Zenon
  <2>2. CASE i - Len(a) \in DOMAIN b /\ c[i] = b[i - Len(a)]
    BY <1>2, <2>2, Zenon
  <2> QED BY <1>5, <2>1, <2>2, Zenon
<1>7. ASSUME \A p, q \in DOMAIN tables : tables[p].gen = tables[q].gen => p = q,
             NEW i \in DOMAIN c, NEW j \in DOMAIN c, c[i] = c[j]
      PROVE  i = j
  <2>1. \A m \in DOMAIN a, n \in DOMAIN b : a[m] # b[n]
    <3> SUFFICES ASSUME NEW m \in DOMAIN a, NEW n \in DOMAIN b, a[m] = b[n] PROVE FALSE
      BY Zenon
    <3>1. PICK p \in DOMAIN tables : tables[p].level = lvl /\ tables[p].gen = a[m]
      BY <1>2, Zenon
    <3>2. PICK q \in DOMAIN tables : tables[q].level = lvl + 1 /\ tables[q].gen = b[n]
      BY <1>2, Zenon
    <3>3. p = q
      BY <1>7, <3>1, <3>2, Zenon
    <3> QED BY <3>1, <3>2, <3>3
  <2>2. i \in Nat /\ j \in Nat
    BY <1>4
  <2>3. CASE i \in DOMAIN a /\ c[i] = a[i] /\ j \in DOMAIN a /\ c[j] = a[j]
    BY <1>3, <1>7, <2>3, Zenon
  <2>4. CASE i - Len(a) \in DOMAIN b /\ c[i] = b[i - Len(a)] /\ j - Len(a) \in DOMAIN b /\ c[j] = b[j - Len(a)]
    <3>1. i - Len(a) = j - Len(a)
      BY <1>3, <1>7, <2>4, Zenon
    <3> QED BY <1>4, <2>2, <3>1
  <2> QED BY <1>5, <1>7, <2>1, <2>3, <2>4, Zenon
<1> QED BY <1>1, <1>4, <1>6, <1>7, Zenon DEF c

\* pickCompactionLocked plans a merge of two adjacent levels or nothing.
LEMMA PickPlans ==
  PickCompaction # NoPlan =>
    \E lvl \in Nat : PickCompaction = Plan(lvl) /\ (lvl = 0 \/ lvl \in 1..(MaxLevels - 2))
<1> DEFINE over == {lvl \in 1..(MaxLevels - 2) :
                      LevelTables(lvl) # <<>> /\ LevelSize(lvl) > TargetSizeForLevel(lvl)}
<1>1. PickCompaction = IF L0Due THEN Plan(0) ELSE IF over = {} THEN NoPlan ELSE Plan(Min(over))
  BY Zenon DEF PickCompaction
<1>2. over \in SUBSET Nat /\ over \subseteq 1..(MaxLevels - 2)
  OBVIOUS
<1> HIDE DEF over
<1>3. over # {} => Min(over) \in over
  BY <1>2, LeastExists, Zenon DEF Min
<1> QED BY <1>1, <1>2, <1>3, Zenon

\* Append keeps the elements and adds one.
LEMMA Appended ==
  ASSUME NEW T, NEW s \in Seq(T), NEW e \in T, NEW t, t = Append(s, e), NEW n, n = Len(s) + 1
  PROVE  /\ DOMAIN t = DOMAIN s \cup {n} /\ n \notin DOMAIN s
         /\ \A i \in DOMAIN s : s[i] \in T /\ t[i] = s[i]
         /\ t[n] = e
<1>1. DOMAIN t = 1..(Len(s) + 1) /\ DOMAIN s = 1..Len(s) /\ Len(s) \in Nat
  OBVIOUS
<1>2. \A i \in DOMAIN t : t[i] = IF i \in DOMAIN s THEN s[i] ELSE e
  OBVIOUS
<1>3. \A i \in DOMAIN s : s[i] \in T
  OBVIOUS
<1>4. DOMAIN t = DOMAIN s \cup {n} /\ n \notin DOMAIN s
  BY <1>1
<1> QED BY <1>2, <1>3, <1>4, Zenon

\* A new entry at the end of the list.
LEMMA TablesAppend ==
  ASSUME NEW s \in Seq(TableEntry), NEW e \in TableEntry, tables' = Append(s, e)
  PROVE  \E n : /\ DOMAIN tables' = DOMAIN s \cup {n} /\ n \notin DOMAIN s
                /\ \A i \in DOMAIN s : s[i] \in TableEntry /\ tables'[i] = s[i]
                /\ tables'[n] = e
<1>1. PICK n : n = Len(s) + 1
  BY Zenon
<1>2. /\ DOMAIN tables' = DOMAIN s \cup {n} /\ n \notin DOMAIN s
      /\ \A i \in DOMAIN s : s[i] \in TableEntry /\ tables'[i] = s[i]
      /\ tables'[n] = e
  BY <1>1, Appended
<1> QED BY <1>2, Zenon

LEMMA InListAppend ==
  ASSUME NEW s \in Seq(TableEntry), NEW e \in TableEntry, tables' = Append(s, e)
  PROVE  \A g : InList(g)' <=> e.gen = g \/ \E i \in DOMAIN s : s[i].gen = g
<1>1. PICK n : /\ DOMAIN tables' = DOMAIN s \cup {n} /\ n \notin DOMAIN s
               /\ \A i \in DOMAIN s : s[i] \in TableEntry /\ tables'[i] = s[i]
               /\ tables'[n] = e
  BY TablesAppend
<1> QED BY <1>1, Zenon DEF InList

\* A list that names its tables once still does with a table it did not name.
LEMMA OnceAppend ==
  ASSUME NEW s \in Seq(TableEntry), NEW e \in TableEntry, tables' = Append(s, e),
         \A i, j \in DOMAIN s : s[i].gen = s[j].gen => i = j,
         \A i \in DOMAIN s : s[i].gen # e.gen
  PROVE  \A i, j \in DOMAIN tables' : tables'[i].gen = tables'[j].gen => i = j
<1>1. PICK n : /\ DOMAIN tables' = DOMAIN s \cup {n} /\ n \notin DOMAIN s
               /\ \A i \in DOMAIN s : s[i] \in TableEntry /\ tables'[i] = s[i]
               /\ tables'[n] = e
  BY TablesAppend
<1> SUFFICES ASSUME NEW i \in DOMAIN tables', NEW j \in DOMAIN tables', tables'[i].gen = tables'[j].gen
             PROVE  i = j
  BY Zenon
<1>2. (i \in DOMAIN s \/ i = n) /\ (j \in DOMAIN s \/ j = n)
  BY <1>1, Zenon
<1> QED BY <1>1, <1>2, Zenon

\* The entry of a flushed table.
LEMMA FlushedEntry ==
  ASSUME NEW g \in Nat
  PROVE  \E e \in TableEntry : e = [level |-> 0, gen |-> g] /\ e.level = 0 /\ e.gen = g
<1> DEFINE e == [level |-> 0, gen |-> g]
<1>1. e \in TableEntry
  BY Zenon DEF TableEntry
<1>2. e.level = 0 /\ e.gen = g
  BY Zenon
<1> QED BY <1>1, <1>2

\* The list without the inputs of the pass: the others, in order.
LEMMA RemainingList ==
  ASSUME tables \in Seq(TableEntry)
  PROVE  /\ Remaining \in Seq(TableEntry) /\ Len(Remaining) <= Len(tables)
         /\ \A i \in DOMAIN Remaining : \E p \in DOMAIN tables :
              Remaining[i] = tables[p] /\ ~Input(tables[p].gen)
         /\ \A p \in DOMAIN tables : ~Input(tables[p].gen) =>
              \E i \in DOMAIN Remaining : Remaining[i] = tables[p]
         /\ (\A p, q \in DOMAIN tables : tables[p].gen = tables[q].gen => p = q) =>
              \A i, j \in DOMAIN Remaining : Remaining[i].gen = Remaining[j].gen => i = j
<1> DEFINE P == {i \in DOMAIN tables : tables[i].gen \notin Range(cp.inputs)}
           q == TablesAt(P)
<1>1. /\ q \in Seq(TableEntry) /\ Len(q) <= Len(tables)
      /\ \A i \in DOMAIN q : InOrder(P)[i] \in P /\ q[i] = tables[InOrder(P)[i]]
      /\ \A p \in P : \E i \in DOMAIN q : InOrder(P)[i] = p
      /\ \A i, j \in DOMAIN q : i < j => InOrder(P)[i] < InOrder(P)[j]
  BY TablesAtLists, Zenon
<1>2. Remaining = q
  BY Zenon DEF Remaining
<1>3. /\ \A p \in P : p \in DOMAIN tables /\ ~Input(tables[p].gen)
      /\ \A p \in DOMAIN tables : ~Input(tables[p].gen) => p \in P
  BY Zenon DEF Range, Input
<1> HIDE DEF P, q
<1>4. \A i \in DOMAIN q : i \in Nat
  BY <1>1
<1>5. ASSUME \A p1, p2 \in DOMAIN tables : tables[p1].gen = tables[p2].gen => p1 = p2,
             NEW i \in DOMAIN q, NEW j \in DOMAIN q, q[i].gen = q[j].gen
      PROVE  i = j
  <2>1. /\ InOrder(P)[i] \in DOMAIN tables /\ q[i] = tables[InOrder(P)[i]]
        /\ InOrder(P)[j] \in DOMAIN tables /\ q[j] = tables[InOrder(P)[j]]
    BY <1>1, <1>3, Zenon
  <2>2. InOrder(P)[i] = InOrder(P)[j] /\ InOrder(P)[i] \in Nat
    BY <1>5, <2>1
  <2>3. ~(i < j) /\ ~(j < i)
    BY <1>1, <2>2
  <2> QED BY <1>4, <2>3
<1>6. \A i \in DOMAIN q : \E p \in DOMAIN tables : q[i] = tables[p] /\ ~Input(tables[p].gen)
  BY <1>1, <1>3, Zenon
<1>7. \A p \in DOMAIN tables : ~Input(tables[p].gen) => \E i \in DOMAIN q : q[i] = tables[p]
  BY <1>1, <1>3
<1> QED BY <1>1, <1>2, <1>5, <1>6, <1>7, Zenon

\* What the swap under e.mu does to the list.
LEMMA CommitEffect ==
  ASSUME tables \in Seq(TableEntry), cp.target \in Nat, cp.gen \in Nat, CompactionCommit
  PROVE  /\ \/ /\ cp.result = "ok" /\ handles' = With(handles, cp.gen, NewHandle)
               /\ \A g : InList(g)' <=> cp.gen = g \/ (InList(g) /\ ~Input(g))
            \/ /\ cp.result # "ok" /\ UNCHANGED handles
               /\ \A g : InList(g)' <=> InList(g) /\ ~Input(g)
         /\ ~InList(cp.gen) /\ (\A p, q \in DOMAIN tables : tables[p].gen = tables[q].gen => p = q) =>
              \A i, j \in DOMAIN tables' : tables'[i].gen = tables'[j].gen => i = j
<1>1. /\ Remaining \in Seq(TableEntry)
      /\ \A i \in DOMAIN Remaining : \E p \in DOMAIN tables :
           Remaining[i] = tables[p] /\ ~Input(tables[p].gen)
      /\ \A p \in DOMAIN tables : ~Input(tables[p].gen) =>
           \E i \in DOMAIN Remaining : Remaining[i] = tables[p]
      /\ (\A p, q \in DOMAIN tables : tables[p].gen = tables[q].gen => p = q) =>
           \A i, j \in DOMAIN Remaining : Remaining[i].gen = Remaining[j].gen => i = j
  BY RemainingList, Zenon
<1>2. \A g : (\E i \in DOMAIN Remaining : Remaining[i].gen = g) <=> InList(g) /\ ~Input(g)
  <2>1. ASSUME NEW i \in DOMAIN Remaining
        PROVE  InList(Remaining[i].gen) /\ ~Input(Remaining[i].gen)
    BY <1>1, <2>1, Zenon DEF InList
  <2>2. ASSUME NEW p \in DOMAIN tables, ~Input(tables[p].gen)
        PROVE  \E i \in DOMAIN Remaining : Remaining[i].gen = tables[p].gen
    BY <1>1, <2>2, Zenon
  <2>3. ASSUME NEW g, NEW i \in DOMAIN Remaining, Remaining[i].gen = g
        PROVE  InList(g) /\ ~Input(g)
    BY <2>1, <2>3
  <2>4. ASSUME NEW g, InList(g), ~Input(g)
        PROVE  \E i \in DOMAIN Remaining : Remaining[i].gen = g
    <3>1. PICK p \in DOMAIN tables : tables[p].gen = g
      BY <2>4, Zenon DEF InList
    <3> QED BY <2>2, <2>4, <3>1
  <2> QED BY <2>3, <2>4, Zenon
<1>3. CASE cp.result = "ok" /\ tables' = Append(Remaining, [level |-> cp.target, gen |-> cp.gen])
           /\ handles' = With(handles, cp.gen, NewHandle)
  <2> DEFINE e == [level |-> cp.target, gen |-> cp.gen]
  <2>1. e \in TableEntry /\ e.gen = cp.gen /\ tables' = Append(Remaining, e)
    BY <1>3, Zenon DEF TableEntry
  <2> HIDE DEF e
  <2>2. \A g : InList(g)' <=> e.gen = g \/ \E i \in DOMAIN Remaining : Remaining[i].gen = g
    <3>1. Remaining \in Seq(TableEntry)
      BY <1>1
    <3> QED BY <2>1, <3>1, InListAppend, Zenon
  <2>3. \A g : InList(g)' <=> cp.gen = g \/ (InList(g) /\ ~Input(g))
    BY <1>2, <2>1, <2>2, Zenon
  <2>7. ~InList(cp.gen) => \A i \in DOMAIN Remaining : Remaining[i].gen # e.gen
    BY <1>2, <2>1, Zenon
  <2>8. ASSUME ~InList(cp.gen), \A p, q \in DOMAIN tables : tables[p].gen = tables[q].gen => p = q
        PROVE  \A i, j \in DOMAIN tables' : tables'[i].gen = tables'[j].gen => i = j
    <3>1. \A i, j \in DOMAIN Remaining : Remaining[i].gen = Remaining[j].gen => i = j
      BY <1>1, <2>8, Zenon
    <3> QED BY <1>1, <2>1, <2>7, <2>8, <3>1, OnceAppend, Zenon
  <2> QED BY <1>3, <2>3, <2>8, Zenon
<1>4. CASE cp.result = "empty" /\ tables' = Remaining /\ UNCHANGED handles
  <2>1. \A g : InList(g)' <=> \E i \in DOMAIN Remaining : Remaining[i].gen = g
    BY <1>4 DEF InList
  <2> QED BY <1>1, <1>2, <1>4, <2>1, Zenon
<1> QED BY <1>3, <1>4 DEF CompactionCommit

\* Giving up a reference: what becomes of the table and of its file.
LEMMA ReleaseEffect ==
  ASSUME NEW g, NEW retire \in BOOLEAN, TableTypes, Release(g, retire)
  PROVE  /\ \A h : h # g =>
              /\ h \in DOMAIN handles' <=> h \in DOMAIN handles
              /\ h \in DOMAIN handles => handles'[h] = handles[h]
              /\ h \in DOMAIN ssts' <=> h \in DOMAIN ssts
         /\ \A h \in DOMAIN ssts' : h \in DOMAIN ssts /\ ssts'[h] = ssts[h]
         /\ g \in DOMAIN handles' <=> g \in DOMAIN handles /\ handles[g].refCount >= 2
         /\ g \in DOMAIN handles' =>
              /\ handles'[g].refCount = handles[g].refCount - 1
              /\ handles'[g].removeOnZero = (handles[g].removeOnZero \/ retire)
              /\ handles'[g] \in Handle
              /\ ssts' = ssts
         /\ ~retire /\ (g \in DOMAIN handles => ~handles[g].removeOnZero) => ssts' = ssts
<1>1. \A h \in DOMAIN handles :
        /\ handles[h].refCount \in Nat /\ handles[h].removeOnZero \in BOOLEAN
        /\ handles[h] \in Handle
  BY Zenon DEF TableTypes, Handle
<1>2. CASE g \in DOMAIN handles /\ handles[g].refCount >= 2
  <2>1. ~(handles[g].refCount <= 1)
    BY <1>1, <1>2
  <2>2. handles' = [handles EXCEPT ![g] = [refCount |-> handles[g].refCount - 1,
                                           removeOnZero |-> handles[g].removeOnZero \/ retire]]
    BY <1>2, <2>1, Zenon DEF Release
  <2>3. ssts' = ssts
    BY <1>2, <2>1, Zenon DEF Release
  <2>4. (handles[g].removeOnZero \/ retire) \in BOOLEAN
    OBVIOUS
  <2>5. handles[g].refCount - 1 \in Nat
    BY <1>1, <1>2
  <2> DEFINE b == handles[g].removeOnZero \/ retire
  <2>6. handles'[g] = [refCount |-> handles[g].refCount - 1, removeOnZero |-> b]
    BY <1>2, <2>2, Zenon
  <2>7. b \in BOOLEAN
    BY <2>4
  <2> HIDE DEF b
  <2>8. handles'[g] \in Handle /\ handles'[g].refCount = handles[g].refCount - 1 /\ handles'[g].removeOnZero = b
    BY <2>5, <2>6, <2>7 DEF Handle
  <2>9. DOMAIN handles' = DOMAIN handles /\ \A h : h # g /\ h \in DOMAIN handles => handles'[h] = handles[h]
    BY <2>2, Zenon
  <2> QED BY <1>2, <2>3, <2>8, <2>9, Zenon DEF b
<1>3. CASE ~(g \in DOMAIN handles /\ handles[g].refCount >= 2)
  <2> DEFINE h0 == IF g \in DOMAIN handles THEN handles[g]
                   ELSE [refCount |-> 0, removeOnZero |-> FALSE]
  <2>1. h0.refCount <= 1
    BY <1>1, <1>3
  <2>2. handles' = Without(handles, g)
    BY <2>1, Zenon DEF Release
  <2>3. ssts' \in {ssts, Without(ssts, g)}
    BY <2>1, Zenon DEF Release
  <2>4. ~retire /\ ~h0.removeOnZero => ssts' = ssts
    BY <2>1, Zenon DEF Release
  <2>5. ~retire /\ (g \in DOMAIN handles => ~handles[g].removeOnZero) => ssts' = ssts
    BY <2>4, Zenon
  <2>6. /\ g \notin DOMAIN handles'
        /\ \A h : h # g => /\ h \in DOMAIN handles' <=> h \in DOMAIN handles
                           /\ h \in DOMAIN handles => handles'[h] = handles[h]
    BY <2>2, Zenon DEF Without
  <2>7. /\ \A h : h # g => (h \in DOMAIN ssts' <=> h \in DOMAIN ssts)
        /\ \A h \in DOMAIN ssts' : h \in DOMAIN ssts /\ ssts'[h] = ssts[h]
    BY <2>3 DEF Without
  <2> QED BY <1>3, <2>5, <2>6, <2>7, Zenon
<1> QED BY <1>2, <1>3, Zenon

\* scanDir lists every table of the directory once.
LEMMA FoundLists ==
  ASSUME Files, FileTypes
  PROVE  /\ Found \in Seq(TableEntry)
         /\ \A i \in DOMAIN Found : Found[i].gen \in DOMAIN ssts
         /\ \A g \in DOMAIN ssts : \E i \in DOMAIN Found : Found[i].gen = g
         /\ \A i, j \in DOMAIN Found : Found[i].gen = Found[j].gen => i = j
<1> DEFINE S == DOMAIN ssts
           o == InOrder(S)
           n == Cardinality(S)
<1>1. S \in SUBSET Nat /\ IsFiniteSet(S)
  BY Zenon DEF Files
<1>2. /\ n \in Nat /\ DOMAIN o = 1..n /\ \A i \in 1..n : o[i] \in S
      /\ \A x \in S : \E i \in 1..n : o[i] = x
      /\ \A i, j \in 1..n : i < j => o[i] < o[j]
  <2> HIDE DEF S
  <2> QED BY <1>1, InOrderLists
<1>3. Found = [i \in 1..n |-> [level |-> ssts[o[i]].level, gen |-> o[i]]]
  BY <1>2, Zenon DEF Found
<1>4. \A i \in 1..n : ssts[o[i]].level \in Nat /\ o[i] \in Nat
  BY <1>1, <1>2, Zenon DEF FileTypes
<1> HIDE DEF S, o, n
<1>5. /\ DOMAIN Found = 1..n /\ \A i \in 1..n : Found[i].gen = o[i] /\ Found[i] \in TableEntry
  BY <1>3, <1>4, Zenon DEF TableEntry
<1>6. Found \in Seq(TableEntry)
  <2>1. Found = [i \in 1..n |-> Found[i]]
    BY <1>3, Zenon
  <2> QED BY <1>2, <1>5, <2>1
<1>7. \A i, j \in 1..n : o[i] = o[j] => i = j
  <2> SUFFICES ASSUME NEW i \in 1..n, NEW j \in 1..n, o[i] = o[j] PROVE i = j
    OBVIOUS
  <2>1. o[i] \in Nat /\ i \in Nat /\ j \in Nat
    BY <1>2, <1>4
  <2>2. ~(i < j) /\ ~(j < i)
    BY <1>2, <2>1
  <2> QED BY <2>1, <2>2
<1> QED BY <1>2, <1>5, <1>6, <1>7 DEF S

\* A set of at most one element has at most one element.
LEMMA AtMostOne ==
  ASSUME NEW S, \A x, y \in S : x = y
  PROVE  Cardinality(S) = IF S = {} THEN 0 ELSE 1
<1>1. CASE S = {}
  BY <1>1, FS_EmptySet
<1>2. CASE S # {}
  <2>1. PICK x \in S : TRUE
    BY <1>2
  <2>2. S = {x}
    BY <2>1
  <2> QED BY <1>2, <2>2, FS_Singleton, Zenon
<1> QED BY <1>1, <1>2

-----------------------------------------------------------------------------
(* What the sources of a read and of a merge are.                          *)

\* What a running engine reads from is there.
LEMMA SourcesThere ==
  ASSUME Known, Running
  PROVE  /\ mem \in Nat /\ imm \cup {mem} \subseteq Nat
         /\ \A g \in imm \cup {mem} : g <= mem /\ mts[g] \in MemTables
         /\ tables \in Seq(TableEntry) /\ \A i \in DOMAIN tables : tables[i].gen \in DOMAIN ssts
         /\ \A g \in DOMAIN ssts : ssts[g].recs \subseteq Record
         /\ seq \in Nat /\ seq <= UnboundedSeq /\ UnboundedSeq \in Nat
<1>1. IInv /\ Types /\ FileInv
  BY DEF Known
<1>2. Typed /\ Queued /\ Shelved
  BY <1>1 DEF IInv, FileInv
<1>3. mem \in Nat /\ imm \cup {mem} \subseteq Nat
  BY <1>2, Zenon DEF Typed
<1>4. \A g \in imm \cup {mem} : g <= mem /\ mts[g] \in MemTables
  <2>1. \A g \in imm : g < mem
    BY <1>2, Zenon DEF Queued
  <2>2. \A g \in imm \cup {mem} : g <= mem
    BY <1>3, <2>1
  <2> QED BY <1>2, <2>2, Zenon DEF Queued
<1>5. tables \in Seq(TableEntry) /\ \A i \in DOMAIN tables : tables[i].gen \in DOMAIN ssts
  BY <1>1, <1>2, Zenon DEF Types, TableTypes, Shelved, InList
<1>6. \A g \in DOMAIN ssts : ssts[g].recs \subseteq Record
  BY <1>1, Zenon DEF Types, FileTypes
<1>7. seq \in Nat /\ seq <= UnboundedSeq /\ UnboundedSeq \in Nat
  BY <1>2, ConstantsAssumption DEF Typed, UnboundedSeq
<1> QED BY <1>3, <1>4, <1>5, <1>6, <1>7, Zenon

\* The inputs of a merge are files.
LEMMA InputsOnFile ==
  ASSUME Known, cp.pc \in {"merge", "commit"}
  PROVE  /\ \A i \in DOMAIN cp.inputs : cp.inputs[i] \in DOMAIN ssts /\ InList(cp.inputs[i])
                                        /\ Input(cp.inputs[i]) /\ cp.inputs[i] # cp.gen
         /\ Pool(InputRecords) \subseteq OnFile
<1>1. /\ ~Input(cp.gen) /\ ~InList(cp.gen)
      /\ \A g : InList(g) => g \in DOMAIN ssts
      /\ \A g : Input(g) => InList(g)
  BY Zenon DEF Known, FileInv, Fresh, Shelved
<1>2. \A i \in DOMAIN cp.inputs : Input(cp.inputs[i])
  BY Zenon DEF Input
<1>3. \A i \in DOMAIN cp.inputs : cp.inputs[i] \in DOMAIN ssts /\ InList(cp.inputs[i])
                                  /\ Input(cp.inputs[i]) /\ cp.inputs[i] # cp.gen
  BY <1>1, <1>2, Zenon
<1>4. Pool(InputRecords) \subseteq OnFile
  <2>1. \A i \in DOMAIN InputRecords : i \in DOMAIN cp.inputs /\ InputRecords[i] = ssts[cp.inputs[i]].recs
    BY Zenon DEF InputRecords
  <2>2. \A i \in DOMAIN InputRecords : InputRecords[i] \subseteq OnFile
    BY <1>3, <2>1, Zenon DEF OnFile
  <2> QED BY <2>2, Zenon DEF Pool
<1> QED BY <1>3, <1>4, Zenon

\* The next generation names no file yet.
LEMMA NextName ==
  ASSUME Known, phase # "down"
  PROVE  /\ genCounter + 1 \in Nat
         /\ \A g : g \in DOMAIN ssts \/ InList(g) \/ Input(g) => g # genCounter + 1
<1>1. genCounter \in Nat /\ DOMAIN ssts \in SUBSET Nat
  BY Zenon DEF Known, IInv, Typed, Files
<1>2. \A g \in DOMAIN ssts : g <= genCounter
  BY DEF Known, FileInv, Named
<1>3. \A g : Input(g) => g \in Nat /\ g <= genCounter
  BY Zenon DEF Known, FileInv, Named
<1>4. \A g : InList(g) => g \in DOMAIN ssts
  BY Zenon DEF Known, FileInv, Shelved
<1>5. \A g \in Nat : g <= genCounter => g # genCounter + 1
  BY <1>1
<1>6. \A g : g \in DOMAIN ssts => g \in Nat
  BY <1>1
<1>7. genCounter + 1 \in Nat
  BY <1>1
<1> QED BY <1>2, <1>3, <1>4, <1>5, <1>6, <1>7, Zenon

-----------------------------------------------------------------------------
(* What a step does to the list, to a pass and to what is in memory.       *)

\* Most steps leave the list, and the files it names, as they are.
LEMMA ListSame ==
  ASSUME Known, Known', [Next]_vars, ~FlushCommit, ~CompactionCommit, ~CompactionAbort,
         ~CloseFlush, ~Exit, ~OpenRecover
  PROVE  tables' = tables /\ \A i \in DOMAIN tables : RecsAt(i)' = RecsAt(i)
<1>1. CASE UNCHANGED <<tables, ssts>>
  BY <1>1, Zenon DEF RecsAt
<1>2. ASSUME NEW g, NEW file, ~InList(g), tables' = tables, ssts' = With(ssts, g, file)
      PROVE  tables' = tables /\ \A i \in DOMAIN tables : RecsAt(i)' = RecsAt(i)
  <2>1. \A i \in DOMAIN tables : tables[i].gen \in DOMAIN ssts /\ tables[i].gen # g
    BY <1>2, Zenon DEF Known, FileInv, Shelved, InList
  <2>2. \A h \in DOMAIN ssts : h # g => ssts'[h] = ssts[h]
    BY <1>2, Zenon DEF With
  <2> QED BY <1>2, <2>1, <2>2, Zenon DEF RecsAt
<1>3. ASSUME NEW g, NEW retire \in BOOLEAN, Release(g, retire), tables' = tables
      PROVE  tables' = tables /\ \A i \in DOMAIN tables : RecsAt(i)' = RecsAt(i)
  <2>1. \A h \in DOMAIN ssts' : ssts'[h] = ssts[h]
    <3>1. TableTypes
      BY Zenon DEF Known, Types
    <3> QED BY <1>3, <3>1, ReleaseEffect, Zenon
  <2>2. \A i \in DOMAIN tables : tables[i].gen \in DOMAIN ssts'
    BY <1>3, Zenon DEF Known, FileInv, Shelved, InList
  <2> QED BY <1>3, <2>1, <2>2, Zenon DEF RecsAt
<1>4. CASE UNCHANGED vars \/ WriterNext \/ SnapshotNext
  BY <1>1, <1>4, WriterTouches, SnapshotTouches, Zenon DEF vars, tblVars, diskVars
<1>5. CASE FlushNext
  <2>1. CASE FlushWrite \/ FlushError
    <3>1. tables' = tables /\ fl.pc = "write" /\ (ssts' = ssts \/ ssts' = FlushFile)
      BY <2>1 DEF FlushWrite, FlushError, tblVars
    <3>2. ~InList(fl.gen)
      BY <3>1, Zenon DEF Known, FileInv, Fresh
    <3> QED BY <1>1, <1>2, <3>1, <3>2, Zenon DEF FlushFile
  <2>2. CASE FlushTake \/ FlushStop \/ FlushRemoveWAL \/ FlushTrigger
    BY <1>1, <2>2, Zenon DEF FlushTake, FlushStop, FlushRemoveWAL, FlushTrigger, tblVars, diskVars
  <2> QED BY <1>5, <2>1, <2>2 DEF FlushNext
<1>6. CASE CompactionNext
  <2>1. CASE CompactionMerge
    <3>1. PICK R : ssts' = IF R = {} THEN ssts
                           ELSE With(ssts, cp.gen, [level |-> cp.target, recs |-> R])
      BY <2>1 DEF CompactionMerge
    <3>2. tables' = tables /\ ~InList(cp.gen)
      BY <2>1, Zenon DEF CompactionMerge, tblVars, Known, FileInv, Fresh
    <3> QED BY <1>1, <1>2, <3>1, <3>2, Zenon
  <2>2. CASE CompactionRetire
    BY <1>3, <2>2, Zenon DEF CompactionRetire
  <2>3. CASE \/ CompactionWake \/ CompactionStop \/ CompactionPick \/ CompactionPin
             \/ CompactionMergeError \/ CompactionChain
    BY <1>1, <2>3, Zenon DEF CompactionWake, CompactionStop, CompactionPick, CompactionPin,
                             CompactionMergeError, CompactionChain, tblVars, diskVars
  <2> QED BY <1>6, <2>1, <2>2, <2>3, Zenon DEF CompactionNext
<1>7. CASE ReaderNext
  <2>1. PICK r \in Readers :
          \/ \E k \in Keys : Get(r, k)
          \/ Scan(r)
          \/ \E s \in Snapshots : SnapshotScan(r, s)
          \/ ReadResolve(r) \/ ReadRelease(r) \/ ReadReturn(r)
    BY <1>7 DEF ReaderNext
  <2>2. CASE ReadRelease(r)
    BY <1>3, <2>2, Zenon DEF ReadRelease
  <2>3. CASE ~ReadRelease(r)
    <3>1. UNCHANGED <<tables, ssts>>
      BY <2>1, <2>3, Zenon DEF Get, Scan, SnapshotScan, ReadBegin, ReadResolve, ReadReturn, tblVars, diskVars
    <3> QED BY <1>1, <3>1, Zenon
  <2> QED BY <2>2, <2>3, Zenon
<1>8. CASE LifecycleNext
  <2>1. CASE OpenRemoveWAL \/ OpenFinish \/ CloseBegin \/ CloseWALError \/ CloseFinish
    BY <1>1, <2>1, Zenon DEF OpenRemoveWAL, OpenFinish, CloseBegin, CloseWALError, CloseFinish, tblVars, diskVars
  <2>2. CASE CloseFlushError
    <3> DEFINE new == genCounter + 1
               file == [level |-> 0, recs |-> RecordsOf(mts[mem])]
    <3>1. tables' = tables /\ phase = "closing" /\ (ssts' = ssts \/ ssts' = With(ssts, new, file))
      BY <2>2, Zenon DEF CloseFlushError, tblVars
    <3>2. ~InList(new)
      BY <3>1, NextName, Zenon
    <3> HIDE DEF new, file
    <3> QED BY <1>1, <1>2, <3>1, <3>2, Zenon
  <2> QED BY <1>8, <2>1, <2>2, Zenon DEF LifecycleNext
<1> QED BY <1>4, <1>5, <1>6, <1>7, <1>8, Zenon DEF Next

\* Most steps leave the pass that is under way as it is.
Passing == cp.pc \in {"pin", "merge", "commit"}

LEMMA PassSame ==
  ASSUME Known, [Next]_vars, ~CompactionPick, ~Exit, Passing'
  PROVE  Passing /\ cp'.inputs = cp.inputs /\ cp'.target = cp.target /\ cp'.bottom = cp.bottom
<1>1. CASE UNCHANGED cp
  BY <1>1 DEF Passing
<1>2. CASE CompactionNext
  <2>1. DOMAIN cp = CompactionFields
    BY DEF Known, IInv, Typed
  <2>2. CASE CompactionWake \/ CompactionStop \/ CompactionChain \/ CompactionAbort
    BY <2>2 DEF CompactionWake, CompactionStop, CompactionChain, CompactionAbort, IdleCompaction, Passing
  <2>3. CASE CompactionCommit \/ CompactionRetire
    BY <2>1, <2>3, Zenon DEF CompactionCommit, CompactionRetire, CompactionFields, Passing
  <2>4. CASE CompactionPin
    BY <2>1, <2>4 DEF CompactionPin, CompactionFields, Passing
  <2>5. CASE CompactionMerge \/ CompactionMergeError
    <3>1. PICK x : cp' = [cp EXCEPT !.pc = "commit", !.result = x] /\ cp.pc = "merge"
      BY <2>5, Zenon DEF CompactionMerge, CompactionMergeError
    <3> QED BY <2>1, <3>1 DEF CompactionFields, Passing
  <2> QED BY <1>2, <2>2, <2>3, <2>4, <2>5, Zenon DEF CompactionNext
<1>3. CASE LifecycleNext
  <2>1. UNCHANGED cp
    BY <1>3, Zenon DEF LifecycleNext, OpenRecover, OpenRemoveWAL, OpenFinish, CloseBegin, CloseFlush,
                       CloseFlushError, CloseWALError, CloseFinish
  <2> QED BY <1>1, <2>1, Zenon
<1>4. CASE UNCHANGED vars \/ WriterNext \/ FlushNext \/ ReaderNext \/ SnapshotNext
  BY <1>1, <1>4, WriterTouches, FlushTouches, ReaderTouches, SnapshotTouches, Zenon DEF vars
<1> QED BY <1>2, <1>3, <1>4, Zenon DEF Next

\* Few steps touch what is in memory.
LEMMA MemSame ==
  ASSUME Known, [Next]_vars, \A w \in Writers : ~WriteApply(w) /\ ~RotateSwap(w),
         ~FlushCommit, ~OpenFinish, ~Exit
  PROVE  InMemory' = InMemory /\ (phase' \in {"up", "closing"} => phase \in {"up", "closing"})
<1>1. CASE UNCHANGED <<mem, imm, mts, phase>>
  BY <1>1 DEF InMemory
<1>2. CASE UNCHANGED vars \/ SnapshotNext \/ ReaderNext \/ CompactionNext
  <2>1. UNCHANGED <<mem, imm, mts, phase>>
    <3>1. CASE CompactionNext
      BY <3>1, Zenon DEF CompactionNext, CompactionWake, CompactionStop, CompactionPick, CompactionPin,
                         CompactionMerge, CompactionMergeError, CompactionCommit, CompactionAbort,
                         CompactionRetire, CompactionChain, memVars, lifeVars
    <3>2. CASE ReaderNext
      BY <3>2, Zenon DEF ReaderNext, Get, Scan, SnapshotScan, ReadBegin, ReadResolve, ReadRelease,
                         ReadReturn, memVars, lifeVars
    <3>3. CASE SnapshotNext
      BY <3>3 DEF SnapshotNext, SnapshotLoad, SnapshotRegister, SnapshotClose, memVars, lifeVars
    <3>4. CASE UNCHANGED vars
      BY <3>4, Zenon DEF vars, memVars, lifeVars
    <3> QED BY <1>2, <3>1, <3>2, <3>3, <3>4, Zenon
  <2> QED BY <1>1, <2>1, Zenon
<1>3. CASE WriterNext
  <2>1. PICK w \in Writers :
          \/ \E k \in Keys : Delete(w, k) \/ \E v \in Values : Put(w, k, v)
          \/ WriteAppend(w) \/ WriteAppendError(w) \/ WriteCheck(w)
          \/ RotateSkip(w) \/ RotateError(w) \/ RotateSend(w)
    BY <1>3, Zenon DEF WriterNext
  <2>2. UNCHANGED <<mem, imm, mts, phase>>
    BY <2>1, Zenon DEF Delete, Put, WriteBegin, WriteAppend, WriteAppendError, WriteCheck, RotateSkip,
                       RotateError, RotateSend, memVars, lifeVars
  <2> QED BY <1>1, <2>2, Zenon
<1>4. CASE FlushNext
  <2>1. UNCHANGED <<mem, imm, mts, phase>>
    BY <1>4, Zenon DEF FlushNext, FlushTake, FlushStop, FlushWrite, FlushError, FlushRemoveWAL,
                       FlushTrigger, memVars, lifeVars
  <2> QED BY <1>1, <2>1
<1>5. CASE LifecycleNext
  <2>1. CASE OpenRecover \/ OpenRemoveWAL
    <3>1. UNCHANGED <<mem, imm, mts>> /\ phase' = "recovering"
      BY <2>1, Zenon DEF OpenRecover, OpenRemoveWAL, memVars, lifeVars
    <3> QED BY <3>1, Zenon DEF InMemory
  <2>2. CASE CloseBegin
    <3>1. UNCHANGED <<mem, imm, mts>> /\ phase = "up"
      BY <2>2, Zenon DEF CloseBegin, memVars
    <3> QED BY <3>1, Zenon DEF InMemory
  <2>3. CASE CloseFlush \/ CloseFlushError \/ CloseWALError \/ CloseFinish
    <3>1. UNCHANGED <<mem, imm, mts>> /\ phase' \in {"locked", "closed"}
      BY <2>3 DEF CloseFlush, CloseFlushError, CloseWALError, CloseFinish, memVars
    <3> QED BY <3>1 DEF InMemory
  <2> QED BY <1>5, <2>1, <2>2, <2>3, Zenon DEF LifecycleNext
<1> QED BY <1>2, <1>3, <1>4, <1>5 DEF Next

\* A level's list names all tables of the level.
LEMMA LevelTablesAll ==
  ASSUME tables \in Seq(TableEntry), NEW lvl, NEW p \in DOMAIN tables, tables[p].level = lvl
  PROVE  \E i \in DOMAIN LevelTables(lvl) : LevelTables(lvl)[i] = tables[p].gen
<1> DEFINE P == {i \in DOMAIN tables : tables[i].level = lvl}
           q == TablesAt(P)
<1>1. /\ P \subseteq DOMAIN tables /\ p \in P
      /\ \A i \in DOMAIN q : q[i] = tables[InOrder(P)[i]]
      /\ \A h \in P : \E i \in DOMAIN q : InOrder(P)[i] = h
  BY TablesAtLists, Zenon
<1>2. LevelTables(lvl) = GensOf(q)
  BY Zenon DEF LevelTables
<1> HIDE DEF P, q
<1>3. PICK i \in DOMAIN q : InOrder(P)[i] = p
  BY <1>1, Zenon
<1>4. q[i].gen = tables[p].gen
  BY <1>1, <1>3, Zenon
<1> QED BY <1>2, <1>3, <1>4, Zenon DEF GensOf

\* A plan takes the two levels whole, and nothing else.
LEMMA PlanTakes ==
  ASSUME tables \in Seq(TableEntry), Once, NEW lvl \in Nat, NEW p \in DOMAIN tables
  PROVE  (\E i \in DOMAIN Plan(lvl).inputs : Plan(lvl).inputs[i] = tables[p].gen)
           <=> tables[p].level \in {lvl, lvl + 1}
<1> DEFINE a == LevelTables(lvl)
           b == LevelTables(lvl + 1)
<1>1. a \in Seq(Nat) /\ b \in Seq(Nat) /\ Plan(lvl).inputs = a \o b
  BY LevelTablesList, Zenon DEF Plan
<1>2. /\ \A i \in DOMAIN a : \E h \in DOMAIN tables : tables[h].level = lvl /\ tables[h].gen = a[i]
      /\ \A i \in DOMAIN b : \E h \in DOMAIN tables : tables[h].level = lvl + 1 /\ tables[h].gen = b[i]
  BY LevelTablesList, Zenon
<1>3. /\ tables[p].level = lvl => \E i \in DOMAIN a : a[i] = tables[p].gen
      /\ tables[p].level = lvl + 1 => \E i \in DOMAIN b : b[i] = tables[p].gen
  BY LevelTablesAll, Zenon
<1> HIDE DEF a, b
<1>4. \A g : (\E i \in DOMAIN (a \o b) : (a \o b)[i] = g)
               <=> (\E i \in DOMAIN a : a[i] = g) \/ (\E i \in DOMAIN b : b[i] = g)
  <2> SUFFICES ASSUME NEW g
               PROVE  (\E i \in DOMAIN (a \o b) : (a \o b)[i] = g)
                        <=> (\E i \in DOMAIN a : a[i] = g) \/ (\E i \in DOMAIN b : b[i] = g)
    BY Zenon
  <2>1. /\ DOMAIN a = 1..Len(a) /\ DOMAIN b = 1..Len(b) /\ DOMAIN (a \o b) = 1..(Len(a) + Len(b))
        /\ Len(a) \in Nat /\ Len(b) \in Nat
    BY <1>1
  <2>2. /\ \A i \in 1..Len(a) : (a \o b)[i] = a[i]
        /\ \A i \in 1..Len(b) : (a \o b)[Len(a) + i] = b[i]
    BY <1>1, <2>1
  <2>3. \A i \in DOMAIN (a \o b) : i \in 1..Len(a) \/ \E j \in 1..Len(b) : i = Len(a) + j
    <3> SUFFICES ASSUME NEW i \in 1..(Len(a) + Len(b)), i \notin 1..Len(a)
                 PROVE  i - Len(a) \in 1..Len(b) /\ i = Len(a) + (i - Len(a))
      BY <2>1, Zenon
    <3> QED BY <2>1
  <2>4. /\ \A i \in 1..Len(a) : i \in DOMAIN (a \o b)
        /\ \A i \in 1..Len(b) : Len(a) + i \in DOMAIN (a \o b)
    BY <2>1
  <2> QED BY <2>1, <2>2, <2>3, <2>4, Zenon
<1>5. \A h \in DOMAIN tables : tables[h].gen = tables[p].gen => h = p
  BY Zenon DEF Once
<1>6. \A i \in DOMAIN a : a[i] = tables[p].gen => tables[p].level = lvl
  BY <1>2, <1>5
<1>7. \A i \in DOMAIN b : b[i] = tables[p].gen => tables[p].level = lvl + 1
  BY <1>2, <1>5
<1>8. (\E i \in DOMAIN Plan(lvl).inputs : Plan(lvl).inputs[i] = tables[p].gen)
        <=> (\E i \in DOMAIN a : a[i] = tables[p].gen) \/ (\E i \in DOMAIN b : b[i] = tables[p].gen)
  BY <1>1, <1>4
<1> QED BY <1>3, <1>6, <1>7, <1>8

\* After the swap a table is one of those that stay, or the output.
Stays(e, R) == \E p \in DOMAIN tables : ~InputAt(p) /\ e = tables[p] /\ R = RecsAt(p)
Comes(e, R) ==
  e.level = cp.target /\ e.gen = cp.gen /\ \A r \in R : \E p \in DOMAIN tables : InputAt(p) /\ r \in RecsAt(p)

LEMMA CommitList ==
  ASSUME Known, StoreInv, CompactionCommit, NEW i \in DOMAIN tables'
  PROVE  \E R : R = RecsAt(i)' /\ (Stays(tables'[i], R) \/ Comes(tables'[i], R))
<1>1. cp.pc = "commit" /\ UNCHANGED ssts
  BY Zenon DEF CompactionCommit, diskVars
<1>2. tables \in Seq(TableEntry) /\ cp.target \in Nat /\ cp.gen \in Nat
  BY Zenon DEF Known, Types, TableTypes, CompactionTypes, IInv, Typed
<1>3. /\ Remaining \in Seq(TableEntry)
      /\ \A j \in DOMAIN Remaining : \E p \in DOMAIN tables :
           Remaining[j] = tables[p] /\ ~Input(tables[p].gen)
  BY <1>2, RemainingList, Zenon
<1>4. PICK R : R = RecsAt(i)'
  OBVIOUS
<1>5. R = ssts[tables'[i].gen].recs
  BY <1>1, <1>4, Zenon DEF RecsAt
<1>6. ASSUME NEW j \in DOMAIN Remaining, tables'[i] = Remaining[j] PROVE Stays(tables'[i], R)
  <2>1. PICK p \in DOMAIN tables : Remaining[j] = tables[p] /\ ~Input(tables[p].gen)
    BY <1>3, Zenon
  <2> QED BY <1>5, <1>6, <2>1, Zenon DEF Stays, InputAt, RecsAt
<1>7. CASE cp.result = "ok" /\ tables' = Append(Remaining, [level |-> cp.target, gen |-> cp.gen])
  <2>1. \/ i \in DOMAIN Remaining /\ tables'[i] = Remaining[i]
        \/ tables'[i] = [level |-> cp.target, gen |-> cp.gen]
    BY <1>2, <1>3, <1>7
  <2>2. ASSUME tables'[i] = [level |-> cp.target, gen |-> cp.gen] PROVE Comes(tables'[i], R)
    <3>1. R = ssts[cp.gen].recs /\ tables'[i].level = cp.target /\ tables'[i].gen = cp.gen
      BY <1>5, <2>2
    <3>2. R \subseteq Pool(InputRecords)
      BY <1>1, <1>7, <3>1, Zenon DEF StoreInv, Merged, IsMerge
    <3>3. \A r \in R : \E h \in DOMAIN cp.inputs : r \in ssts[cp.inputs[h]].recs
      BY <3>2, Zenon DEF Pool, InputRecords
    <3>4. \A h \in DOMAIN cp.inputs : \E p \in DOMAIN tables : tables[p].gen = cp.inputs[h]
      BY <1>1, InputsOnFile, Zenon DEF InList
    <3>5. \A h \in DOMAIN cp.inputs : \E p \in DOMAIN tables :
            InputAt(p) /\ RecsAt(p) = ssts[cp.inputs[h]].recs
      BY <3>4, Zenon DEF InputAt, Input, RecsAt
    <3> QED BY <3>1, <3>3, <3>5, Zenon DEF Comes
  <2> QED BY <1>4, <1>6, <2>1, <2>2, Zenon
<1>8. CASE tables' = Remaining
  BY <1>4, <1>6, <1>8, Zenon
<1> QED BY <1>7, <1>8, Zenon DEF CompactionCommit
=============================================================================
