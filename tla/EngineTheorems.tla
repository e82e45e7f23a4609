--------------------------- MODULE EngineTheorems ---------------------------
(***************************************************************************)
(* What holds of every behaviour of the engine: the types, the files       *)
(* behind the list of tables, and the references on them. Then what its    *)
(* writers are promised: the engine implements KVStore while it lives.     *)
(***************************************************************************)
EXTENDS StateProofs, RefProofs, StoreProofs

(* The theorems.                                                           *)

\* Known is an invariant.
THEOREM KnownAlways == Spec => []Known
<1>1. Init => Known
  BY InitInv, JobsInit, SnapshotCountsInit, TypesInit, FileInvInit DEF Known
<1>2. Known /\ [Next]_vars => Known'
  <2> SUFFICES ASSUME Known, [Next]_vars PROVE Known'
    OBVIOUS
  <2>1. IInv'
    BY IInvStep DEF Known
  <2>2. JobsInv'
    BY JobsStep DEF Known
  <2>3. SnapshotCounts'
    BY SnapshotCountsStep DEF Known
  <2>4. Types'
    BY TypesStep DEF Known
  <2>5. FileInv'
    BY FileInvStep DEF Known
  <2> QED BY <2>1, <2>2, <2>3, <2>4, <2>5, Zenon DEF Known
<1> QED BY <1>1, <1>2, PTL DEF Spec

\* Every variable of the engine keeps its type, whatever fails.
THEOREM TypeOKAlways == Spec => []TypeOK
<1>1. Known => TypeOK
  <2> SUFFICES ASSUME Known PROVE TypeOK
    OBVIOUS
  <2>1. IInv /\ JobsInv /\ SnapshotCounts /\ Types
    BY DEF Known
  <2>2. /\ phase \in {"down", "recovering", "up", "closing", "locked", "closed"}
        /\ seq \in Nat /\ genCounter \in Nat /\ mem \in Nat /\ flushCh \in Seq(Nat)
        /\ wr \in [Writers -> [pc : WriterPCs, rec : Entry, job : Nat]]
        /\ fl \in [pc : FlushPCs, job : Nat, gen : Nat]
    BY <2>1, ConstantsAssumption DEF IInv, Typed
  <2>3. imm \subseteq DOMAIN mts /\ (Running => mem \in DOMAIN mts)
    BY <2>1, Zenon DEF IInv, Quiet, Queued, Running
  <2>4. \A g \in DOMAIN mts : mts[g].data \in [Keys -> Entry] /\ mts[g].size \in Nat
    BY <2>1, Zenon DEF Types, MemTypes, MemTables
  <2>5. /\ \A i \in DOMAIN tables : tables[i].level \in Nat /\ tables[i].gen \in Nat
        /\ \A g \in DOMAIN handles : handles[g] \in [refCount : Nat, removeOnZero : BOOLEAN]
    <3>1. \A i \in DOMAIN tables : tables[i] \in TableEntry
      BY <2>1 DEF Types, TableTypes
    <3>2. \A e \in TableEntry : e.level \in Nat /\ e.gen \in Nat
      BY DEF TableEntry
    <3>3. \A g \in DOMAIN handles : handles[g] \in [refCount : Nat, removeOnZero : BOOLEAN]
      BY <2>1 DEF Types, TableTypes, Handle
    <3> QED BY <3>1, <3>2, <3>3, Zenon
  <2>6. \A g \in DOMAIN wals : wals[g].recs \in Seq(Record) /\ wals[g].broken \in BOOLEAN
    BY <2>1 DEF IInv, Files, WALs
  <2>7. \A g \in DOMAIN ssts : ssts[g].level \in Nat /\ ssts[g].recs \subseteq Record
    BY <2>1, Zenon DEF Types, FileTypes
  <2>8. /\ compactCh \in BOOLEAN /\ redo \subseteq DOMAIN wals
        /\ cp.pc \in CompactionPCs /\ cp.inputs \in Seq(Nat) /\ cp.min \in Nat
        /\ \A r \in Readers : rd[r].pc \in ReaderPCs /\ rd[r].tbs \in Seq(Nat)
    BY <2>1, Zenon DEF Types, RedoTypes, CompactionTypes, ReaderTypes
  <2>9. snap \in [Snapshots -> [pc : SnapshotPCs, seq : Nat]]
    BY <2>1, ConstantsAssumption DEF SnapshotCounts
  <2> QED BY <2>2, <2>3, <2>4, <2>5, <2>6, <2>7, <2>8, <2>9, Zenon DEF TypeOK
<1> QED BY <1>1, KnownAlways, PTL

\* No release, no retirement and no failure deletes the file of a listed table
\* or of a table a merge reads.
THEOREM ListedHaveFilesAlways == Spec => []ListedHaveFiles
<1>1. Known => ListedHaveFiles
  <2> SUFFICES ASSUME Known PROVE ListedHaveFiles
    OBVIOUS
  <2>1. /\ \A g : InList(g) => g \in DOMAIN ssts
        /\ cp.pc \in {"pin", "merge", "commit"} => \A g : Input(g) => InList(g)
    BY Zenon DEF Known, FileInv, Shelved
  <2>2. /\ \A i \in DOMAIN tables : InList(tables[i].gen)
        /\ \A i \in DOMAIN cp.inputs : Input(cp.inputs[i])
    BY DEF InList, Input
  <2> QED BY <2>1, <2>2 DEF ListedHaveFiles
<1> QED BY <1>1, KnownAlways, PTL

\* A table has one reference for the engine and one for each reader that holds
\* it, in every run in which no compaction pass fails at its commit; other
\* failures may happen.
THEOREM RefCountsExactAlways ==
  Spec /\ [][~CompactionAbort]_vars => []RefCountsExact
<1>1. Known /\ RefInv => RefCountsExact
  <2> SUFFICES ASSUME Known, RefInv, phase \in {"up", "closing", "locked"}, NEW g \in DOMAIN handles
               PROVE  handles[g].refCount =
                        Cardinality(Listed(g)) + (IF BeingRetired(g) THEN 1 ELSE 0)
                          + Cardinality({r \in Readers : HeldBy(r, g) # {}})
    BY Zenon DEF RefCountsExact
  <2>1. {r \in Readers : HeldBy(r, g) # {}} = Holders(g)
    BY Zenon DEF HeldBy, Holders, Holds
  <2>2. BeingRetired(g) <=> cp.pc = "retire" /\ Input(g)
    BY Zenon DEF BeingRetired, Input, Range
  <2>3. ~(BeingRetired(g) /\ InList(g))
    BY <2>2, Zenon DEF Known, FileInv, Shelved
  <2>4. Cardinality(Listed(g)) = IF InList(g) THEN 1 ELSE 0
    BY OnePlace, Zenon DEF RefInv
  <2>5. /\ \/ handles[g].refCount = Cardinality(Holders(g))
           \/ handles[g].refCount = Cardinality(Holders(g)) + 1
        /\ Owned(g) <=> handles[g].refCount = Cardinality(Holders(g)) + 1
    BY DEF RefInv, Counted
  <2>6. Owned(g) <=> InList(g) \/ BeingRetired(g)
    BY <2>2, Zenon DEF Owned
  <2>7. Cardinality(Holders(g)) \in Nat
    <3>1. Holders(g) \in SUBSET Readers
      BY Zenon DEF Holders
    <3> QED BY <3>1, ReaderSets, Zenon
  <2> QED BY <2>1, <2>3, <2>4, <2>5, <2>6, <2>7
<1> QED BY <1>1, KnownAlways, RefInit, RefStep, PTL DEF Spec

\* A reader's tables stay open, with their files, until it releases them, as do
\* the listed tables and the inputs of a merge, in every run in which no
\* compaction pass fails at its commit.
THEOREM TablesReadableAlways ==
  Spec /\ [][~CompactionAbort]_vars => []TablesReadable
<1>1. Known /\ RefInv => TablesReadable
  <2> SUFFICES ASSUME Known, RefInv PROVE TablesReadable
    OBVIOUS
  <2> DEFINE Readable(g) == g \in DOMAIN handles /\ g \in DOMAIN ssts
  <2>1. \A g : HasHandle(g) => Readable(g)
    BY Zenon DEF RefInv, Opened, HasHandle
  <2>2. \A r \in Readers : \A g \in Range(rd[r].tbs) : Readable(g)
    <3>1. \A r \in Readers : \A g \in Range(rd[r].tbs) : r \in Holders(g)
      BY DEF Range, Holders, Holds
    <3>2. \A g : Holders(g) # {} => HasHandle(g)
      BY Zenon DEF RefInv, Opened
    <3> QED BY <2>1, <3>1, <3>2, Zenon
  <2>3. phase # "closed" => \A g : InList(g) => Readable(g)
    BY <2>1, Zenon DEF RefInv, Opened, Owned
  <2>4. phase = "up" => \A g \in Range(GensOf(tables)) : Readable(g)
    <3>1. \A g \in Range(GensOf(tables)) : InList(g)
      BY DEF Range, GensOf, InList
    <3> QED BY <2>3, <3>1, Zenon
  <2>5. cp.pc \in {"pin", "merge"} => \A g \in Range(cp.inputs) : Readable(g)
    <3>1. cp.pc \in {"pin", "merge"} => \A g \in Range(cp.inputs) : InList(g)
      BY Zenon DEF Range, Input, Known, FileInv, Shelved
    <3>2. cp.pc \in {"pin", "merge"} => phase # "closed"
      BY Zenon DEF Known, FileInv, Stages, WorkersExited
    <3> QED BY <2>3, <3>1, <3>2, Zenon
  <2> QED BY <2>2, <2>4, <2>5, Zenon DEF TablesReadable
<1> QED BY <1>1, KnownAlways, RefInit, RefStep, PTL DEF Spec

\* No superseded file is forgotten: in every run without I/O errors in which no
\* compaction pass fails at its commit, a file is listed, about to be listed or
\* retired, or waits for a reader.
THEOREM FilesAreListedAlways ==
  Spec /\ [][~CompactionAbort]_vars /\ [](faults = 0) => []FilesAreListed
<1>1. Init => FilesKept
  BY DEF Init, FilesKept, IdleCompaction
<1>2. FilesKept => FilesAreListed
  <2> SUFFICES ASSUME FilesKept, Running, NEW g \in DOMAIN ssts
               PROVE  \/ Listed(g) # {}
                      \/ fl.pc = "commit" /\ g = fl.gen
                      \/ cp.pc = "commit" /\ g = cp.gen
                      \/ BeingRetired(g)
                      \/ /\ g \in DOMAIN handles /\ handles[g].removeOnZero
                         /\ \E r \in Readers : HeldBy(r, g) # {}
    BY DEF FilesAreListed
  <2>1. Kept(g)
    BY DEF FilesKept, Running
  <2>2. InList(g) => Listed(g) # {}
    BY DEF InList, Listed
  <2>3. cp.pc = "retire" /\ Input(g) => BeingRetired(g)
    BY DEF Input, BeingRetired, Range
  <2>4. Holders(g) # {} => \E r \in Readers : HeldBy(r, g) # {}
    BY DEF Holders, Holds, HeldBy
  <2> QED BY <2>1, <2>2, <2>3, <2>4 DEF Kept, Owned, Coming, Waiting
<1>3. Known /\ RefInv /\ FilesKept /\ [Next]_vars /\ [~CompactionAbort]_vars
        /\ faults = 0 /\ (faults = 0)' => FilesKept'
  BY KeptStep, Zenon
<1> QED BY <1>1, <1>2, <1>3, KnownAlways, RefInit, RefStep, PTL DEF Spec

-----------------------------------------------------------------------------
(* The store at the start.                                                 *)

\* An empty data directory satisfies both invariants.
LEMMA StoreInit == Init => StoreInv /\ OrderInv /\ Apart
<1> SUFFICES ASSUME Init PROVE StoreInv /\ OrderInv /\ Apart
  OBVIOUS
<1>1. /\ phase = "down" /\ tables = <<>> /\ ssts = <<>> /\ wals = <<>>
      /\ fl = IdleFlush /\ cp = IdleCompaction
  BY DEF Init
<1>2. ~Running /\ fl.pc # "commit" /\ ~Passing
  BY <1>1 DEF Running, Passing, IdleFlush, IdleCompaction
<1>3. DOMAIN ssts = {} /\ DOMAIN wals = {}
  BY <1>1
<1>4. StoreInv
  BY <1>1, <1>2, <1>3, Zenon DEF StoreInv, Blank, Keyed, Unique, Ahead, Flushed, Merged, Passing
<1>5. Apart
  BY <1>1 DEF Apart
<1> QED BY <1>1, <1>2, <1>4, <1>5, OrderEmpty DEF NothingListed

-----------------------------------------------------------------------------
(* The steps of the engine as steps of KVStore.                            *)

\* What KV makes of a writer.
StatusAt(w) == IF wr[w].pc = "idle" THEN "idle" ELSE IF Pending(w) THEN "pending" ELSE "done"
OpAt(w) == IF Pending(w) THEN <<wr[w].rec.key, wr[w].rec.val>> ELSE <<>>
Status == [w \in Writers |-> IF wr[w].pc = "idle" THEN "idle"
                             ELSE IF Pending(w) THEN "pending" ELSE "done"]
Op == [w \in Writers |-> IF Pending(w) THEN <<wr[w].rec.key, wr[w].rec.val>> ELSE <<>>]

KVNext == [KV!Next]_<<Store, Status, Op>>

\* A step of one writer moves its status and its operation.
LEMMA KVMoves ==
  ASSUME NEW w \in Writers, \A u \in Writers : u # w => wr'[u] = wr[u],
         NEW s, NEW o, StatusAt(w)' = s, OpAt(w)' = o
  PROVE  /\ Status' = [Status EXCEPT ![w] = s] /\ Op' = [Op EXCEPT ![w] = o]
         /\ Status[w] = StatusAt(w) /\ Op[w] = OpAt(w)
<1>1. /\ Status = [u \in Writers |-> StatusAt(u)] /\ Op = [u \in Writers |-> OpAt(u)]
      /\ Status' = [u \in Writers |-> StatusAt(u)'] /\ Op' = [u \in Writers |-> OpAt(u)']
  BY Zenon DEF Status, Op, StatusAt, OpAt
<1>2. \A u \in Writers : u # w => StatusAt(u)' = StatusAt(u) /\ OpAt(u)' = OpAt(u)
  BY Zenon DEF StatusAt, OpAt, Pending
<1> QED BY <1>1, <1>2, Zenon

\* The steps of KVStore, as they appear through the mapping.
LEMMA KVInvoke ==
  ASSUME NEW w \in Writers, NEW k \in Keys, NEW v \in Values \cup {Tombstone}, Status[w] = "idle",
         Status' = [Status EXCEPT ![w] = "pending"], Op' = [Op EXCEPT ![w] = <<k, v>>], Store' = Store
  PROVE  KVNext
<1>1. KV!Invoke(w)
  BY Zenon DEF KV!Invoke, Status, Op
<1> QED BY <1>1, Zenon DEF KVNext, KV!Next

LEMMA KVTakeEffect ==
  ASSUME NEW w \in Writers, Status[w] = "pending",
         Status' = [Status EXCEPT ![w] = "done"], Op' = [Op EXCEPT ![w] = <<>>],
         Store' = [Store EXCEPT ![Op[w][1]] = Op[w][2]]
  PROVE  KVNext
<1>1. KV!TakeEffect(w)
  BY Zenon DEF KV!TakeEffect, Status, Op
<1> QED BY <1>1, Zenon DEF KVNext, KV!Next

LEMMA KVReturn ==
  ASSUME NEW w \in Writers, Status[w] # "idle",
         Status' = [Status EXCEPT ![w] = "idle"], Op' = [Op EXCEPT ![w] = <<>>], Store' = Store
  PROVE  KVNext
<1>1. KV!Return(w)
  BY Zenon DEF KV!Return, Status, Op
<1> QED BY <1>1, Zenon DEF KVNext, KV!Next

\* Between its moments a write does not show.
LEMMA KVStutter ==
  ASSUME NEW w \in Writers, Status[w] = StatusAt(w)', Op[w] = OpAt(w)',
         \A u \in Writers : u # w => wr'[u] = wr[u], Store' = Store
  PROVE  KVNext
<1>1. PICK s : s = StatusAt(w)'
  BY Zenon
<1>2. PICK o : o = OpAt(w)'
  BY Zenon
<1>3. Status' = [Status EXCEPT ![w] = s] /\ Op' = [Op EXCEPT ![w] = o]
  BY <1>1, <1>2, KVMoves
<1>4. Status' = Status /\ Op' = Op
  <2>1. ASSUME NEW f, f = [u \in Writers |-> f[u]] PROVE [f EXCEPT ![w] = f[w]] = f
    BY <2>1
  <2>2. Status = [u \in Writers |-> Status[u]] /\ Op = [u \in Writers |-> Op[u]]
    BY DEF Status, Op
  <2>3. Status' = [Status EXCEPT ![w] = Status[w]] /\ Op' = [Op EXCEPT ![w] = Op[w]]
    BY <1>1, <1>2, <1>3, Zenon
  <2> QED BY <2>1, <2>2, <2>3, Zenon
<1> QED BY <1>4, Zenon DEF KVNext

LEMMA KVBegin ==
  ASSUME Known, Known', StoreInv, NEW w \in Writers, NEW k \in Keys, NEW v \in Values \cup {Tombstone},
         DeleteKeys = {} => v # Tombstone, WriteBegin(w, k, v)
  PROVE  KVNext
<1>1. Store' = Store
  BY BeginStep, Zenon
<1>2. wr \in [Writers -> [pc : WriterPCs, rec : Entry, job : Nat]]
  BY Zenon DEF Known, IInv, Typed
<1>3. /\ wr[w].pc = "idle" /\ \A u \in Writers : u # w => wr'[u] = wr[u]
      /\ wr'[w] = [pc |-> "append", rec |-> [key |-> k, seq |-> seq + 1, val |-> v], job |-> 0]
  BY <1>2, Zenon DEF WriteBegin
<1>4. StatusAt(w) = "idle" /\ StatusAt(w)' = "pending" /\ OpAt(w)' = <<k, v>>
  BY <1>3 DEF StatusAt, OpAt, Pending
<1>5. /\ Status' = [Status EXCEPT ![w] = "pending"] /\ Op' = [Op EXCEPT ![w] = <<k, v>>]
      /\ Status[w] = StatusAt(w)
  BY <1>3, <1>4, KVMoves, Zenon
<1> QED BY <1>1, <1>4, <1>5, KVInvoke, Zenon

LEMMA KVApply ==
  ASSUME Known, Known', StoreInv, NEW w \in Writers, WriteApply(w)
  PROVE  KVNext
<1>1. Store' = [Store EXCEPT ![wr[w].rec.key] = wr[w].rec.val]
  BY ApplyStep, Zenon
<1>2. wr \in [Writers -> [pc : WriterPCs, rec : Entry, job : Nat]]
  BY Zenon DEF Known, IInv, Typed
<1>3. /\ wr[w].pc = "apply" /\ \A u \in Writers : u # w => wr'[u] = wr[u]
      /\ wr'[w] = [pc |-> "check", rec |-> NoRecord, job |-> 0]
  BY <1>2 DEF WriteApply
<1>4. /\ StatusAt(w) = "pending" /\ OpAt(w) = <<wr[w].rec.key, wr[w].rec.val>>
      /\ StatusAt(w)' = "done" /\ OpAt(w)' = <<>>
  BY <1>3 DEF StatusAt, OpAt, Pending
<1>5. /\ Status' = [Status EXCEPT ![w] = "done"] /\ Op' = [Op EXCEPT ![w] = <<>>]
      /\ Status[w] = StatusAt(w) /\ Op[w] = OpAt(w)
  BY <1>3, <1>4, KVMoves
<1>6. Store' = [Store EXCEPT ![Op[w][1]] = Op[w][2]]
  BY <1>1, <1>4, <1>5
<1> QED BY <1>4, <1>5, <1>6, KVTakeEffect, Zenon

\* The other steps of a write: it goes on, or its call returns.
LEMMA KVGoesOn ==
  ASSUME Known, Known', StoreInv, NEW w \in Writers,
         \/ WriteAppend(w) \/ WriteAppendError(w) \/ WriteCheck(w) \/ RotateSkip(w)
         \/ RotateSwap(w) \/ RotateError(w) \/ RotateSend(w)
  PROVE  KVNext
<1>1. Store' = Store
  BY WriterQuiet, RotateStep, Zenon
<1>2. wr \in [Writers -> [pc : WriterPCs, rec : Entry, job : Nat]]
  BY Zenon DEF Known, IInv, Typed
<1>3. \A u \in Writers : u # w => wr'[u] = wr[u]
  BY <1>2, Zenon DEF WriteAppend, WriteAppendError, WriteCheck, RotateSkip, RotateSwap, RotateError, RotateSend
<1>4. ASSUME NEW s, NEW o, StatusAt(w)' = s, OpAt(w)' = o
      PROVE  /\ Status' = [Status EXCEPT ![w] = s] /\ Op' = [Op EXCEPT ![w] = o]
             /\ Status[w] = StatusAt(w) /\ Op[w] = OpAt(w)
  BY <1>3, <1>4, KVMoves, Zenon
<1>5. Status[w] = StatusAt(w) /\ Op[w] = OpAt(w)
  BY <1>4, Zenon
<1>6. CASE WriteAppend(w)
  <2>1. wr[w].pc = "append" /\ wr'[w].pc = "apply" /\ wr'[w].rec = wr[w].rec
    BY <1>2, <1>6 DEF WriteAppend
  <2>2. StatusAt(w) = "pending" /\ StatusAt(w)' = "pending" /\ OpAt(w)' = OpAt(w)
    BY <2>1, Zenon DEF StatusAt, OpAt, Pending
  <2> QED BY <1>1, <1>3, <1>5, <2>2, KVStutter, Zenon
<1>7. CASE wr[w].pc # "idle" /\ wr'[w] = IdleWriter
  <2>1. wr'[w].pc = "idle"
    BY <1>7 DEF IdleWriter
  <2>2. StatusAt(w) # "idle" /\ StatusAt(w)' = "idle" /\ OpAt(w)' = <<>>
    BY <1>7, <2>1, Zenon DEF StatusAt, OpAt, Pending
  <2>3. Status' = [Status EXCEPT ![w] = "idle"] /\ Op' = [Op EXCEPT ![w] = <<>>]
    BY <1>4, <2>2, Zenon
  <2> QED BY <1>1, <1>5, <2>2, <2>3, KVReturn, Zenon
<1>8. CASE wr[w].pc \in {"check", "rotate"} /\ wr'[w].pc \in {"rotate", "send"}
  <2>1. StatusAt(w) = "done" /\ StatusAt(w)' = "done" /\ OpAt(w) = <<>> /\ OpAt(w)' = <<>>
    BY <1>8, Zenon DEF StatusAt, OpAt, Pending
  <2> QED BY <1>1, <1>3, <1>5, <2>1, KVStutter, Zenon
<1>9. WriteAppendError(w) \/ RotateSkip(w) \/ RotateError(w) \/ RotateSend(w) =>
        wr[w].pc # "idle" /\ wr'[w] = IdleWriter
  BY <1>2, Zenon DEF WriteAppendError, RotateSkip, RotateError, RotateSend
<1>10. WriteCheck(w) => \/ wr[w].pc # "idle" /\ wr'[w] = IdleWriter
                        \/ wr[w].pc = "check" /\ wr'[w].pc = "rotate"
  BY <1>2 DEF WriteCheck
<1>11. RotateSwap(w) => wr[w].pc = "rotate" /\ wr'[w].pc = "send"
  BY <1>2 DEF RotateSwap
<1> QED BY <1>6, <1>7, <1>8, <1>9, <1>10, <1>11, Zenon

\* Nobody but its caller moves a write, while the process lives.
LEMMA WritersKept ==
  ASSUME [Next]_vars, ~WriterNext, ~Exit
  PROVE  UNCHANGED wr
<1>1. UNCHANGED vars \/ SnapshotNext => UNCHANGED wr
  BY Zenon DEF vars, SnapshotNext, SnapshotLoad, SnapshotRegister, SnapshotClose
<1>2. ReaderNext => UNCHANGED wr
  BY Zenon DEF ReaderNext, Get, Scan, SnapshotScan, ReadBegin, ReadResolve, ReadRelease, ReadReturn
<1>3. FlushNext => UNCHANGED wr
  BY Zenon DEF FlushNext, FlushTake, FlushStop, FlushWrite, FlushError, FlushCommit, FlushRemoveWAL,
               FlushTrigger
<1>4. CompactionNext => UNCHANGED wr
  BY Zenon DEF CompactionNext, CompactionWake, CompactionStop, CompactionPick, CompactionPin,
               CompactionMerge, CompactionMergeError, CompactionCommit, CompactionAbort,
               CompactionRetire, CompactionChain
<1>5. LifecycleNext => UNCHANGED wr
  BY Zenon DEF LifecycleNext, OpenRecover, OpenRemoveWAL, OpenFinish, CloseBegin, CloseFlush,
               CloseFlushError, CloseWALError, CloseFinish
<1> QED BY <1>1, <1>2, <1>3, <1>4, <1>5 DEF Next

\* Every step of the engine is a step of KVStore or does not show.
LEMMA KVStep ==
  ASSUME Known, Known', StoreInv, DeleteKeys = {} \/ OrderInv,
         [Next]_vars, [~CompactionAbort /\ ~Exit]_vars
  PROVE  KVNext
<1>1. CASE WriterNext
  <2>1. PICK w \in Writers :
          \/ \E k \in Keys : Delete(w, k) \/ \E v \in Values : Put(w, k, v)
          \/ WriteAppend(w) \/ WriteAppendError(w) \/ WriteApply(w) \/ WriteCheck(w)
          \/ RotateSkip(w) \/ RotateSwap(w) \/ RotateError(w) \/ RotateSend(w)
    BY <1>1 DEF WriterNext
  <2>2. ASSUME NEW k \in Keys, Delete(w, k) PROVE KVNext
    BY <2>2, KVBegin, Zenon DEF Delete
  <2>3. ASSUME NEW k \in Keys, NEW v \in Values, Put(w, k, v) PROVE KVNext
    <3>1. v # Tombstone
      BY ConstantsAssumption
    <3> QED BY <2>3, <3>1, KVBegin DEF Put
  <2> QED BY <2>1, <2>2, <2>3, KVApply, KVGoesOn, Zenon
<1>2. CASE ~WriterNext /\ ~Exit
  <2>1. UNCHANGED wr
    BY <1>2, WritersKept
  <2>2. \A w \in Writers : ~WriteApply(w)
    BY <1>2 DEF WriterNext
  <2>3. Store' = Store
    BY <2>2, StoreStep, Zenon
  <2>4. Status' = Status /\ Op' = Op
    BY <2>1 DEF Status, Op, Pending
  <2> QED BY <2>3, <2>4 DEF KVNext
<1>3. CASE UNCHANGED vars
  <2>1. UNCHANGED wr
    BY <1>3 DEF vars
  <2>2. \A w \in Writers : ~WriteApply(w)
    <3> SUFFICES ASSUME NEW w \in Writers, WriteApply(w) PROVE FALSE
      OBVIOUS
    <3>1. wr \in [Writers -> [pc : WriterPCs, rec : Entry, job : Nat]]
      BY Zenon DEF Known, IInv, Typed
    <3>2. wr[w].pc = "apply" /\ wr'[w].pc = "check"
      BY <3>1, Zenon DEF WriteApply
    <3> QED BY <2>1, <3>2, Zenon
  <2>3. Store' = Store
    BY <2>2, StoreStep
  <2>4. Status' = Status /\ Op' = Op
    BY <2>1 DEF Status, Op, Pending
  <2> QED BY <2>3, <2>4 DEF KVNext
<1> QED BY <1>1, <1>2, <1>3

\* The initial states are initial states of KVStore.
LEMMA KVInit == Init => KV!Init
<1> SUFFICES ASSUME Init PROVE KV!Init
  OBVIOUS
<1>1. phase = "down" /\ wr = [w \in Writers |-> IdleWriter]
  BY Zenon DEF Init
<1>2. ~Running
  BY <1>1 DEF Running
<1>3. Store = [k \in Keys |-> Tombstone]
  BY <1>2, StoreInit, StoreBlank DEF NothingIsRead
<1>4. \A w \in Writers : wr[w].pc = "idle" /\ ~Pending(w)
  BY <1>1, Zenon DEF IdleWriter, Pending
<1>5. Status = [w \in Writers |-> "idle"] /\ Op = [w \in Writers |-> <<>>]
  BY <1>4, Zenon DEF Status, Op
<1> QED BY <1>3, <1>5 DEF KV!Init, Status, Op

-----------------------------------------------------------------------------
(* The flush queue of one writer.                                          *)

\* Rotation puts the youngest MemTable at the end of the line.
LEMMA RotateInLine ==
  ASSUME Known, InLine, \A w, u \in Writers : w = u, NEW w \in Writers, RotateSwap(w)
  PROVE  InLine'
<1>1. wr \in [Writers -> [pc : WriterPCs, rec : Entry, job : Nat]]
  BY DEF Known, IInv, Typed
<1>2. WriterNext
  BY DEF WriterNext
<1>3. Running
  BY <1>2, ActorsRun DEF Known
<1>4. wr'[w].job = mem /\ UNCHANGED <<flushCh, fl>>
  BY <1>1, Zenon DEF RotateSwap, chVars
<1>5. /\ \A i \in DOMAIN flushCh : flushCh[i] < mem
      /\ fl.pc \in {"write", "commit"} => fl.job < mem
  BY <1>3, Zenon DEF Known, IInv, Queued
<1> QED BY <1>4, <1>5, Zenon DEF InLine

\* The send moves the writer's MemTable to the end of the queue.
LEMMA SendInLine ==
  ASSUME Known, InLine, \A w, u \in Writers : w = u, NEW w \in Writers, RotateSend(w)
  PROVE  InLine'
<1>1. wr \in [Writers -> [pc : WriterPCs, rec : Entry, job : Nat]] /\ flushCh \in Seq(Nat)
  BY Zenon DEF Known, IInv, Typed
<1>2. /\ wr[w].pc = "send" /\ flushCh' = Append(flushCh, wr[w].job) /\ UNCHANGED fl
      /\ wr'[w].pc = "idle" /\ wr[w].job \in Nat
  BY <1>1, Zenon DEF RotateSend, IdleWriter
<1>3. \A u \in Writers : wr'[u].pc # "send"
  BY <1>2, Zenon
<1>4. /\ \A i, j \in DOMAIN flushCh : i < j => flushCh[i] < flushCh[j]
      /\ \A i \in DOMAIN flushCh : flushCh[i] < wr[w].job
      /\ fl.pc \in {"write", "commit"} => fl.job < wr[w].job /\ \A i \in DOMAIN flushCh : fl.job < flushCh[i]
  BY <1>2, Zenon DEF InLine
<1> DEFINE n == Len(flushCh) + 1
<1>5. /\ DOMAIN flushCh = 1..(n - 1) /\ DOMAIN flushCh' = 1..n /\ n \in Nat
      /\ \A i \in 1..(n - 1) : flushCh'[i] = flushCh[i]
      /\ flushCh'[n] = wr[w].job
  BY <1>1, <1>2
<1> HIDE DEF n
<1>6. \A i \in 1..n : i = n \/ i \in 1..(n - 1)
  BY <1>5
<1>7. \A i, j \in DOMAIN flushCh' : i < j => flushCh'[i] < flushCh'[j]
  <2> SUFFICES ASSUME NEW i \in 1..n, NEW j \in 1..n, i < j PROVE flushCh'[i] < flushCh'[j]
    BY <1>5, Zenon
  <2>1. i \in 1..(n - 1)
    BY <1>5
  <2> QED BY <1>4, <1>5, <1>6, <2>1, Zenon
<1>8. fl'.pc \in {"write", "commit"} => \A i \in DOMAIN flushCh' : fl'.job < flushCh'[i]
  BY <1>2, <1>4, <1>5, <1>6, Zenon
<1> QED BY <1>3, <1>7, <1>8, Zenon DEF InLine

\* The worker takes the oldest.
LEMMA TakeInLine ==
  ASSUME Known, InLine, FlushTake
  PROVE  InLine'
<1>1. /\ flushCh # <<>> /\ flushCh' = Tail(flushCh) /\ UNCHANGED wr
      /\ fl' = [pc |-> "write", job |-> Head(flushCh), gen |-> genCounter + 1]
  BY Zenon DEF FlushTake
<1>2. flushCh \in Seq(Nat)
  BY DEF Known, IInv, Typed
<1>3. /\ DOMAIN flushCh' \subseteq Nat /\ 1 \in DOMAIN flushCh /\ fl'.job = flushCh[1]
      /\ \A i \in DOMAIN flushCh' : 1 < i + 1 /\ i + 1 \in DOMAIN flushCh /\ flushCh'[i] = flushCh[i + 1]
  BY <1>1, <1>2
<1>4. \A i, j \in DOMAIN flushCh' : i < j => i + 1 < j + 1
  BY <1>3
<1>5. /\ \A i, j \in DOMAIN flushCh : i < j => flushCh[i] < flushCh[j]
      /\ \A w \in Writers : wr[w].pc = "send" => \A i \in DOMAIN flushCh : flushCh[i] < wr[w].job
  BY Zenon DEF InLine
<1>6. /\ \A i, j \in DOMAIN flushCh' : i < j => flushCh'[i] < flushCh'[j]
      /\ \A i \in DOMAIN flushCh' : fl'.job < flushCh'[i]
  BY <1>3, <1>4, <1>5
<1>7. \A w \in Writers : wr'[w].pc = "send" =>
        fl'.job < wr'[w].job /\ \A i \in DOMAIN flushCh' : flushCh'[i] < wr'[w].job
  BY <1>1, <1>3, <1>5, Zenon
<1> QED BY <1>6, <1>7, Zenon DEF InLine

\* The other steps add nothing to the line.
LEMMA LineKept ==
  ASSUME InLine, UNCHANGED flushCh,
         fl'.pc \in {"write", "commit"} => fl.pc \in {"write", "commit"} /\ fl'.job = fl.job,
         \A w \in Writers : wr'[w].pc = "send" => wr[w].pc = "send" /\ wr'[w].job = wr[w].job
  PROVE  InLine'
  BY Zenon DEF InLine

LEMMA LineStep ==
  ASSUME Known, InLine, \A w, u \in Writers : w = u, [Next]_vars
  PROVE  InLine'
<1>1. /\ wr \in [Writers -> [pc : WriterPCs, rec : Entry, job : Nat]]
      /\ fl \in [pc : FlushPCs, job : Nat, gen : Nat]
  BY DEF Known, IInv, Typed
<1>2. CASE UNCHANGED <<flushCh, fl, wr>>
  BY <1>2, LineKept, Zenon
<1>3. CASE WriterNext
  <2>1. PICK w \in Writers :
          \/ \E k \in Keys : Delete(w, k) \/ \E v \in Values : Put(w, k, v)
          \/ WriteAppend(w) \/ WriteAppendError(w) \/ WriteApply(w) \/ WriteCheck(w)
          \/ RotateSkip(w) \/ RotateSwap(w) \/ RotateError(w) \/ RotateSend(w)
    BY <1>3 DEF WriterNext
  <2>2. CASE ~RotateSwap(w) /\ ~RotateSend(w)
    <3>1. UNCHANGED <<flushCh, fl>>
      BY <2>1, <2>2, Zenon DEF Delete, Put, WriteBegin, WriteAppend, WriteAppendError, WriteApply,
                               WriteCheck, RotateSkip, RotateError, chVars
    <3>2. wr'[w].pc # "send"
      BY <1>1, <2>1, <2>2 DEF Delete, Put, WriteBegin, WriteAppend, WriteAppendError, WriteApply,
                              WriteCheck, RotateSkip, RotateError, IdleWriter
    <3>3. \A u \in Writers : wr'[u].pc # "send"
      BY <3>2, Zenon
    <3> QED BY <3>1, <3>3, LineKept, Zenon
  <2> QED BY <2>1, <2>2, RotateInLine, SendInLine, Zenon
<1>4. CASE FlushNext
  <2>1. CASE FlushTake
    BY <2>1, TakeInLine
  <2>2. CASE FlushWrite \/ FlushCommit \/ FlushRemoveWAL
    <3>1. /\ UNCHANGED <<flushCh, wr>>
          /\ fl.pc \in {"write", "commit", "remove"} /\ fl'.pc \in {"commit", "remove", "trigger"}
          /\ fl.pc = "remove" => fl'.pc = "trigger"
          /\ fl'.job = fl.job
      BY <1>1, <2>2, Zenon DEF FlushWrite, FlushCommit, FlushRemoveWAL, chVars
    <3> QED BY <3>1, LineKept, Zenon
  <2>3. CASE FlushStop \/ FlushError \/ FlushTrigger
    <3>1. UNCHANGED <<flushCh, wr>> /\ fl'.pc \in {"idle", "exited"}
      BY <2>3 DEF FlushStop, FlushError, FlushTrigger, chVars, IdleFlush
    <3> QED BY <3>1, LineKept
  <2> QED BY <1>4, <2>1, <2>2, <2>3 DEF FlushNext
<1>5. CASE CompactionNext \/ ReaderNext \/ SnapshotNext \/ UNCHANGED vars
  <2>1. UNCHANGED <<flushCh, fl, wr>>
    <3>1. CASE CompactionNext
      BY <3>1, Zenon DEF CompactionNext, CompactionWake, CompactionStop, CompactionPick, CompactionPin,
                         CompactionMerge, CompactionMergeError, CompactionCommit, CompactionAbort,
                         CompactionRetire, CompactionChain, chVars
    <3>2. CASE ReaderNext
      BY <3>2, Zenon DEF ReaderNext, Get, Scan, SnapshotScan, ReadBegin, ReadResolve, ReadRelease,
                         ReadReturn, chVars
    <3>3. CASE SnapshotNext
      BY <3>3 DEF SnapshotNext, SnapshotLoad, SnapshotRegister, SnapshotClose, chVars
    <3>4. CASE UNCHANGED vars
      BY <3>4, Zenon DEF vars, chVars
    <3> QED BY <1>5, <3>1, <3>2, <3>3, <3>4, Zenon
  <2> QED BY <1>2, <2>1
<1>6. CASE LifecycleNext
  <2>1. CASE Exit
    <3>1. flushCh' = <<>> /\ fl'.pc = "idle" /\ \A w \in Writers : wr'[w].pc = "idle"
      BY <2>1, Zenon DEF Exit, AllIdle, IdleFlush, IdleWriter
    <3> QED BY <3>1 DEF InLine
  <2>2. CASE ~Exit
    <3>1. UNCHANGED <<flushCh, fl, wr>>
      BY <1>6, <2>2, Zenon DEF LifecycleNext, OpenRecover, OpenRemoveWAL, OpenFinish, CloseBegin, CloseFlush,
                   CloseFlushError, CloseWALError, CloseFinish, chVars
    <3> QED BY <1>2, <3>1
  <2> QED BY <2>1, <2>2, Zenon
<1> QED BY <1>3, <1>4, <1>5, <1>6 DEF Next

\* While no flush has failed, every immutable MemTable is in the line.
LEMMA LineIsOldestFirst ==
  ASSUME Known, InLine, faults = 0
  PROVE  OldestFirst
<1> SUFFICES ASSUME fl.pc = "commit", NEW g \in imm PROVE fl.job <= g
  BY DEF OldestFirst
<1>1. Orphans = {}
  <2>1. IsFiniteSet(imm) /\ Cardinality(Orphans) <= 0 /\ Orphans \subseteq imm
    BY Zenon DEF Known, JobsInv, Failures, Orphans
  <2>2. IsFiniteSet(Orphans)
    BY <2>1, FS_Subset
  <2>3. Cardinality(Orphans) \in Nat
    BY <2>2, FS_CardinalityType
  <2>4. Cardinality(Orphans) = 0
    BY <2>1, <2>3
  <2> QED BY <2>2, <2>4, FS_EmptySet
<1>2. fl.job \in Nat /\ imm \subseteq Nat
  BY Zenon DEF Known, IInv, Typed
<1>3. (\E w \in Writers : Sends(w, g)) \/ (\E i \in DOMAIN flushCh : flushCh[i] = g) \/ Flushes(g)
  BY <1>1 DEF Orphans
<1>4. CASE \E w \in Writers : Sends(w, g)
  BY <1>2, <1>4 DEF Sends, InLine
<1>5. CASE \E i \in DOMAIN flushCh : flushCh[i] = g
  BY <1>2, <1>5 DEF InLine
<1>6. CASE Flushes(g)
  BY <1>2, <1>6 DEF Flushes
<1> QED BY <1>3, <1>4, <1>5, <1>6, Zenon

-----------------------------------------------------------------------------
(* What the writers are promised.                                          *)

\* With one writer and no I/O error, the flush worker turns the MemTables into
\* tables in the order of their generations.
THEOREM OldestFirstAlways ==
  ASSUME \A w, u \in Writers : w = u
  PROVE  Spec /\ [](faults = 0) => []OldestFirst
<1>1. Init => InLine
  BY DEF Init, InLine, IdleFlush, IdleWriter
<1>2. Known /\ InLine /\ [Next]_vars => InLine'
  BY LineStep, Zenon
<1>3. Known /\ InLine /\ faults = 0 => OldestFirst
  BY LineIsOldestFirst, Zenon
<1> QED BY <1>1, <1>2, <1>3, KnownAlways, PTL DEF Spec

\* Sound is an invariant while a process lives, no pass fails at its commit and
\* MemTables are flushed in their order.
LEMMA SoundInit == Init => Sound
  BY StoreInit, RefInit, Zenon DEF Sound

LEMMA SoundStep ==
  Known /\ Known' /\ Sound /\ OldestFirst /\ [Next]_vars /\ [~CompactionAbort /\ ~Exit]_vars => Sound'
<1> SUFFICES ASSUME Known, Known', Sound, OldestFirst, [Next]_vars, [~CompactionAbort /\ ~Exit]_vars
             PROVE  Sound'
  BY Zenon
<1>1. StoreInv /\ OrderInv /\ Apart /\ RefInv /\ Once
  BY DEF Sound, RefInv
<1>2. [~CompactionAbort]_vars
  BY Zenon
<1>3. RefInv' /\ Once'
  BY <1>1, <1>2, RefStep DEF RefInv
<1>4. StoreInv'
  BY <1>1, StoreStep
<1>5. OrderInv'
  BY <1>1, <1>4, OrderStep, Zenon
<1>6. Apart'
  BY <1>1, <1>3, <1>4, ApartStep, Zenon
<1> QED BY <1>3, <1>4, <1>5, <1>6, Zenon DEF Sound

LEMMA SoundAlways ==
  Spec /\ [][~CompactionAbort /\ ~Exit]_vars /\ []OldestFirst => []Sound
  BY SoundInit, SoundStep, KnownAlways, PTL DEF Spec

\* Memory is newer than the tables and a level newer than the deeper ones, key by
\* key: what dropping a tombstone relies on.
THEOREM DeeperIsOlderAlways ==
  Spec /\ [][~CompactionAbort /\ ~Exit]_vars /\ []OldestFirst => []DeeperIsOlder
<1>1. Sound => DeeperIsOlder
  <2> SUFFICES ASSUME Sound, phase = "up" PROVE DeeperIsOlder
    BY Zenon DEF DeeperIsOlder
  <2>1. /\ \A i \in DOMAIN tables : Before(RecsAt(i), InMemory)
        /\ \A i, j \in DOMAIN tables : tables[i].level > tables[j].level => Before(RecsAt(i), RecsAt(j))
    BY DEF Sound, OrderInv, MemoryNewer, LevelsOrdered
  <2>2. \A g \in imm \cup {mem} : RecordsOf(mts[g]) \subseteq InMemory
    BY Zenon DEF InMemory
  <2> QED BY <2>1, <2>2, Zenon DEF DeeperIsOlder, Before, RecsAt
<1> QED BY <1>1, SoundAlways, PTL

\* Without Delete, the engine is KVStore to its writers, with any number of them
\* and whatever fails but the commit of a pass, until the process ends.
THEOREM PutsImplementKVStore ==
  ASSUME DeleteKeys = {}
  PROVE  Spec /\ [][~CompactionAbort /\ ~Exit]_vars => ImplementsKVStore
<1>1. Known /\ Known' /\ StoreInv /\ [Next]_vars /\ [~CompactionAbort /\ ~Exit]_vars => StoreInv' /\ KVNext
  BY StoreStep, KVStep, Zenon
<1>2. KVNext => [KV!Next]_<<Store, Status, Op>>
  BY DEF KVNext
<1> QED BY <1>1, <1>2, StoreInit, KVInit, KnownAlways, PTL DEF Spec, ImplementsKVStore, KV!Spec, Status, Op

\* With Delete, the engine is KVStore to its writers while MemTables are flushed
\* in their order.
THEOREM DeletesImplementKVStore ==
  Spec /\ [][~CompactionAbort /\ ~Exit]_vars /\ []OldestFirst => ImplementsKVStore
<1>1. Known /\ Known' /\ Sound /\ [Next]_vars /\ [~CompactionAbort /\ ~Exit]_vars => KVNext
  BY KVStep, Zenon DEF Sound
<1>2. KVNext => [KV!Next]_<<Store, Status, Op>>
  BY Zenon DEF KVNext
<1> QED BY <1>1, <1>2, SoundAlways, KVInit, KnownAlways, PTL DEF Spec, ImplementsKVStore, KV!Spec, Status, Op

\* A merge fails only by an I/O error: it never meets a version twice.
LEMMA MergeSucceedsStep ==
  ASSUME Known, Sound, MergeSucceeds, faults = 0, faults' = 0, [Next]_vars
  PROVE  MergeSucceeds'
<1>1. CASE UNCHANGED cp
  BY <1>1, Zenon DEF MergeSucceeds
<1>2. CASE CompactionNext
  <2>1. DOMAIN cp = CompactionFields
    BY Zenon DEF Known, IInv, Typed
  <2>2. CASE CompactionMergeError
    <3>1. cp.pc = "merge" /\ ~Fail("merge")
      BY <2>2 DEF CompactionMergeError, Fail
    <3>2. ~MergeClash(InputRecords, cp.min)
      BY <3>1, NoClash, Zenon DEF Sound, RefInv
    <3> QED BY <2>2, <3>1, <3>2, Zenon DEF CompactionMergeError
  <2>3. CASE CompactionMerge
    <3>1. PICK R : cp' = [cp EXCEPT !.pc = "commit", !.result = IF R = {} THEN "empty" ELSE "ok"]
      BY <2>3, Zenon DEF CompactionMerge
    <3> QED BY <2>1, <3>1 DEF MergeSucceeds, CompactionFields
  <2>4. CASE CompactionPin \/ CompactionCommit \/ CompactionRetire
    BY <2>1, <2>4, Zenon DEF CompactionPin, CompactionCommit, CompactionRetire, MergeSucceeds, CompactionFields
  <2>5. CASE CompactionWake \/ CompactionStop \/ CompactionPick \/ CompactionAbort \/ CompactionChain
    <3>1. CASE CompactionPick /\ PickCompaction # NoPlan
      <4>1. PICK i, t, b : cp' = [IdleCompaction EXCEPT !.pc = "pin", !.inputs = i, !.target = t, !.bottom = b]
        BY <3>1, Zenon DEF CompactionPick
      <4> QED BY <4>1 DEF IdleCompaction, MergeSucceeds
    <3>2. CASE \E pc \in {"pick", "exited"} : cp' = [IdleCompaction EXCEPT !.pc = pc]
      BY <3>2 DEF IdleCompaction, MergeSucceeds
    <3>3. CASE cp' = IdleCompaction
      BY <3>3 DEF IdleCompaction, MergeSucceeds
    <3> QED BY <2>5, <3>1, <3>2, <3>3, Zenon DEF CompactionWake, CompactionStop, CompactionPick,
                                                 CompactionAbort, CompactionChain
  <2> QED BY <1>2, <2>2, <2>3, <2>4, <2>5, Zenon DEF CompactionNext
<1>3. CASE LifecycleNext
  <2>1. CASE Exit
    BY <2>1 DEF Exit, AllIdle, IdleCompaction, MergeSucceeds
  <2>2. CASE ~Exit
    <3>1. UNCHANGED cp
      BY <1>3, <2>2, Zenon DEF LifecycleNext, OpenRecover, OpenRemoveWAL, OpenFinish, CloseBegin,
                               CloseFlush, CloseFlushError, CloseWALError, CloseFinish
    <3> QED BY <1>1, <3>1
  <2> QED BY <2>1, <2>2
<1>4. CASE UNCHANGED vars \/ WriterNext \/ FlushNext \/ ReaderNext \/ SnapshotNext
  BY <1>1, <1>4, WriterTouches, FlushTouches, ReaderTouches, SnapshotTouches, Zenon DEF vars
<1> QED BY <1>2, <1>3, <1>4, Zenon DEF Next

\* One writer, no I/O error and no end of the process: nothing else is assumed.
THEOREM SingleWriterImplementsKVStore ==
  ASSUME \A w, u \in Writers : w = u
  PROVE  Spec /\ [][~Exit]_vars /\ [](faults = 0) => []DeeperIsOlder /\ ImplementsKVStore
<1>1. MergeSucceeds /\ faults = 0 /\ (faults = 0)' => ~CompactionAbort
  BY DEF MergeSucceeds, CompactionAbort, Fail
<1>2. ~CompactionAbort /\ [~Exit]_vars => [~CompactionAbort /\ ~Exit]_vars
  OBVIOUS
<1>3. Init => MergeSucceeds
  BY DEF Init, IdleCompaction, MergeSucceeds
<1>4. Known /\ Sound /\ MergeSucceeds /\ faults = 0 /\ (faults = 0)' /\ [Next]_vars => MergeSucceeds'
  BY MergeSucceedsStep, Zenon
<1>5. Spec /\ [][~Exit]_vars /\ [](faults = 0) => [](Sound /\ MergeSucceeds)
  BY <1>1, <1>2, <1>3, <1>4, OldestFirstAlways, SoundInit, SoundStep, KnownAlways, PTL DEF Spec
<1> QED BY <1>1, <1>2, <1>5, OldestFirstAlways, DeeperIsOlderAlways, DeletesImplementKVStore, PTL
=============================================================================
