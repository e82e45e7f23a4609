------------------------------- MODULE Engine -------------------------------
(***************************************************************************)
(* The storage engine: its writers, readers, snapshots and background      *)
(* workers together, from an empty data directory.                         *)
(***************************************************************************)
EXTENDS WritePath, FlushPath, ReadPath, Lifecycle

Init ==
  /\ phase = "down" /\ redo = {} /\ session = 0 /\ faults = 0
  /\ seq = 0 /\ genCounter = 0 /\ mem = 0 /\ imm = {} /\ mts = <<>>
  /\ tables = <<>> /\ handles = <<>>
  /\ flushCh = <<>> /\ compactCh = FALSE
  /\ activeSnapshots = <<>>
  /\ wals = <<>> /\ ssts = <<>>
  /\ wr = [w \in Writers |-> IdleWriter]
  /\ fl = IdleFlush
  /\ cp = IdleCompaction
  /\ rd = [r \in Readers |-> IdleReader]
  /\ snap = [s \in Snapshots |-> NoSnapshot]

Next ==
  \/ WriterNext \/ FlushNext \/ CompactionNext
  \/ ReaderNext \/ SnapshotNext \/ LifecycleNext

Spec == Init /\ [][Next]_vars

\* A goroutine that can run does run.  The steps that take e.mu.Lock() and the
\* send on flushCh are strongly fair: an RWMutex admits no new reader while a
\* writer waits, and a channel serves its senders in order.  Nobody has to call
\* anything, and nothing has to fail or end.
Fairness ==
  /\ \A w \in Writers :
       /\ WF_vars(WriteAppend(w) \/ WriteAppendError(w) \/ WriteApply(w) \/ WriteCheck(w))
       /\ SF_vars(RotateSkip(w) \/ RotateSwap(w))
       /\ SF_vars(RotateSend(w))
  /\ WF_vars(FlushTake \/ FlushStop \/ FlushWrite \/ FlushRemoveWAL \/ FlushTrigger)
  /\ SF_vars(FlushCommit)
  /\ WF_vars(CompactionWake \/ CompactionStop \/ CompactionPick \/ CompactionPin
             \/ CompactionMerge \/ CompactionMergeError \/ CompactionRetire \/ CompactionChain)
  /\ SF_vars(CompactionCommit \/ CompactionAbort)
  /\ WF_vars(OpenRemoveWAL \/ OpenFinish \/ CloseWALError \/ CloseFinish)
  /\ SF_vars(CloseFlush)

LiveSpec == Spec /\ Fairness
-----------------------------------------------------------------------------
WriterPCs == {"idle", "append", "apply", "check", "rotate", "send"}
FlushPCs  == {"idle", "write", "commit", "remove", "trigger", "exited"}
CompactionPCs == {"idle", "pick", "pin", "merge", "commit", "retire", "exited"}
ReaderPCs == {"idle", "read", "release"}
SnapshotPCs == {"none", "loaded", "open", "closed"}

\* Every variable keeps the type of the Go variable or file it stands for.
TypeOK ==
  /\ phase \in {"down", "recovering", "up", "closing", "locked", "closed"}
  /\ seq \in Nat /\ genCounter \in Nat /\ mem \in Nat
  /\ imm \subseteq DOMAIN mts
  /\ (Running => mem \in DOMAIN mts)
  /\ \A g \in DOMAIN mts : mts[g].data \in [Keys -> Entry] /\ mts[g].size \in Nat
  /\ \A i \in DOMAIN tables : tables[i].level \in Nat /\ tables[i].gen \in Nat
  /\ \A g \in DOMAIN handles : handles[g] \in [refCount : Nat, removeOnZero : BOOLEAN]
  /\ flushCh \in Seq(Nat) /\ compactCh \in BOOLEAN
  /\ redo \subseteq DOMAIN wals
  /\ \A g \in DOMAIN wals : wals[g].recs \in Seq(Record) /\ wals[g].broken \in BOOLEAN
  /\ \A g \in DOMAIN ssts : ssts[g].level \in Nat /\ ssts[g].recs \subseteq Record
  /\ wr \in [Writers -> [pc : WriterPCs, rec : Entry, job : Nat]]
  /\ fl \in [pc : FlushPCs, job : Nat, gen : Nat]
  /\ cp.pc \in CompactionPCs /\ cp.inputs \in Seq(Nat) /\ cp.min \in Nat
  /\ \A r \in Readers : rd[r].pc \in ReaderPCs /\ rd[r].tbs \in Seq(Nat)
  /\ snap \in [Snapshots -> [pc : SnapshotPCs, seq : Nat]]

-----------------------------------------------------------------------------
(* The engine implements KVStore.                                           *)

Pending(w) == wr[w].pc \in {"append", "apply"}

KV == INSTANCE KVStore WITH
  store  <- Store,
  status <- [w \in Writers |-> IF wr[w].pc = "idle" THEN "idle"
                               ELSE IF Pending(w) THEN "pending" ELSE "done"],
  op     <- [w \in Writers |-> IF Pending(w) THEN <<wr[w].rec.key, wr[w].rec.val>>
                               ELSE <<>>]

\* The contents of the store change only by a pending write taking effect,
\* once, or by the end of the process letting pending writes take effect:
\* rotation, flush, compaction, recovery and Close leave every key as it was.
ImplementsKVStore == KV!Spec

-----------------------------------------------------------------------------
(* Invariants of the write path.                                            *)

LogOf(g) == Range(wals[g].recs)

\* write appends before it applies, and a WAL is removed only after its
\* MemTable has become a table: until Close is done, every record of the active
\* and of the immutable MemTables is in the WAL file behind that MemTable.
WALBacksMemory ==
  phase \in {"up", "closing", "locked"} =>
    \A g \in imm \cup {mem} :
      g \in DOMAIN wals /\ RecordsOf(mts[g]) \subseteq LogOf(g)

\* write keeps e.mu read-locked from its Seq to its MemTable update, so no
\* write can land in a MemTable that rotate has already replaced: a later
\* generation holds only later Seqs.
GenerationsOrdered ==
  \A g, h \in imm \cup {mem} : g < h =>
    \A r \in RecordsOf(mts[g]), q \in RecordsOf(mts[h]) : r.seq < q.seq

\* A rotated-out MemTable is always on its way to the flush worker: it is never
\* queued twice, and it is off the queue only because its flush failed, one
\* MemTable per failure (flushWorker does not try again).
EveryImmutableIsQueued ==
  LET Places(g) == Cardinality({w \in Writers : wr[w].job = g})
                     + Cardinality({i \in DOMAIN flushCh : flushCh[i] = g})
                     + (IF fl.job = g THEN 1 ELSE 0)
  IN  /\ \A g \in imm : Places(g) <= 1
      /\ Cardinality({g \in imm : Places(g) = 0}) <= faults

\* The order dropping a tombstone relies on (see flushWorker): for each key the
\* versions in memory are newer than those in tables, and those of a level are
\* newer than those of every deeper level.
DeeperIsOlder ==
  LET Older(R, Q) == \A r \in R, q \in Q : r.key = q.key => r.seq < q.seq
      RecsAt(i) == ssts[tables[i].gen].recs
  IN  phase = "up" =>
        /\ \A g \in imm \cup {mem}, i \in DOMAIN tables : Older(RecsAt(i), RecordsOf(mts[g]))
        /\ \A i, j \in DOMAIN tables :
             tables[i].level > tables[j].level => Older(RecsAt(i), RecsAt(j))

-----------------------------------------------------------------------------
(* Invariants of the table lifecycle.                                       *)

Listed(g) == {i \in DOMAIN tables : tables[i].gen = g}
HeldBy(r, g) == {i \in DOMAIN rd[r].tbs : rd[r].tbs[i] = g}
BeingRetired(g) == cp.pc = "retire" /\ g \in Range(cp.inputs)

\* A reader's tables stay open, with their files, until it releases them, even
\* when compaction retires them or Close releases them meanwhile; so do the
\* tables of the engine's list and the inputs of a merge.
TablesReadable ==
  LET Readable(g) == g \in DOMAIN handles /\ g \in DOMAIN ssts
  IN  /\ \A r \in Readers : \A g \in Range(rd[r].tbs) : Readable(g)
      /\ phase = "up" => \A g \in Range(GensOf(tables)) : Readable(g)
      /\ cp.pc \in {"pin", "merge"} => \A g \in Range(cp.inputs) : Readable(g)

\* A table has one reference for the engine and one for each reader holding
\* it, so the last Release closes it and no Release comes too many.
RefCountsExact ==
  phase \in {"up", "closing", "locked"} => \A g \in DOMAIN handles :
    handles[g].refCount =
      Cardinality(Listed(g)) + (IF BeingRetired(g) THEN 1 ELSE 0)
        + Cardinality({r \in Readers : HeldBy(r, g) # {}})

\* No superseded file is forgotten: while no I/O fails, every SSTable file is
\* listed, or about to be, or about to be retired, or waits for a reader.
FilesAreListed ==
  Running => \A g \in DOMAIN ssts :
    \/ Listed(g) # {}
    \/ fl.pc = "commit" /\ g = fl.gen
    \/ cp.pc = "commit" /\ g = cp.gen
    \/ BeingRetired(g)
    \/ g \in DOMAIN handles /\ handles[g].removeOnZero /\ \E r \in Readers : HeldBy(r, g) # {}

\* activeSnapshots counts the open snapshots of each Seq, so compaction sees
\* the oldest of them even when several share a Seq and one is closed.
ActiveSnapshotsExact ==
  \A n \in 0..MaxSeq :
    LET open == {s \in Snapshots : snap[s].pc = "open" /\ snap[s].seq = n}
    IN  /\ n \in DOMAIN activeSnapshots <=> open # {}
        /\ open # {} => activeSnapshots[n] = Cardinality(open)

-----------------------------------------------------------------------------
(* What the documentation says and the code does not keep.  Each is the     *)
(* property of a run that is expected to find it violated.                  *)

\* The writers that are applying their record to the MemTable in this step.
Applying(k) ==
  {w \in Writers : wr[w].pc = "apply" /\ wr[w].rec.key = k /\ wr'[w].pc = "check"}

\* "Every write is assigned a globally monotonic Seq" (README): no table holds
\* a Seq that e.seq has yet to reach.
SeqIsGlobal ==
  phase = "up" =>
    \A g \in Range(GensOf(tables)) : \A r \in ssts[g].recs : r.seq <= seq

\* A key changes, while the engine runs, only when a write to it is applied:
\* no value resurfaces after a delete (flushWorker, sstable.Merge).
OnlyWritesChangeStore ==
  [][Running /\ Running' =>
       \A k \in Keys : Store'[k] # Store[k] => Applying(k) # {}]_vars

\* "a successful return means the write will survive a subsequent crash" (Put):
\* the end of the process changes no key that has no write pending.
ExitKeepsWrites ==
  [][Running /\ phase' = "down" =>
       \A k \in Keys : Store'[k] # Store[k] =>
         \E w \in Writers : Pending(w) /\ wr[w].rec.key = k]_vars

-----------------------------------------------------------------------------
(* Liveness, under LiveSpec.                                                *)


\* While the engine is open every rotated-out MemTable is flushed.
FlushesComplete == imm # {} ~> imm = {} \/ phase # "up"

\* While the engine is open no wakeup of the compaction worker is lost, though
\* the channel keeps only one token, and no chain of passes goes on for ever,
\* though a target that wraps around is below every size: level 0 does not stay
\* at its trigger, nor another level above its target.
CompactionCatchesUp ==
  LET Due == \/ Len(LevelTables(0)) >= L0CompactionTrigger
             \/ \E lvl \in 1..(MaxLevels - 2) :
                  LevelTables(lvl) # <<>> /\ LevelSize(lvl) > TargetSizeForLevel(lvl)
  IN  Due ~> ~Due \/ phase # "up"

\* Close returns: both workers see stopCh, and the lock becomes free.
CloseReturns == phase = "closing" ~> phase \in {"closed", "down"}
=============================================================================
