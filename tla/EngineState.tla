----------------------------- MODULE EngineState -----------------------------
(***************************************************************************)
(* The state of engine.Engine, of its goroutines and of its data directory *)
(* and what a read of that state returns.  The operations are in           *)
(* WritePath, Compaction, ReadPath and Lifecycle; Engine composes them.    *)
(*                                                                         *)
(* A MemTable and the WAL backing it are named by the generation number of *)
(* the WAL file, an SSTable by the generation number of its file.          *)
(***************************************************************************)
EXTENDS Versions, Sequences, FiniteSets, FiniteSetsExt

CONSTANTS Writers,              \* goroutines calling Put and Delete
          Readers,              \* goroutines calling Get and Scan
          Snapshots,            \* handles returned by Engine.Snapshot
          DeleteKeys,           \* the keys Delete is called on
          FlushThreshold,       \* e.flushThreshold, in writes
          L0CompactionTrigger,  \* e.l0CompactionTrigger
          BaseLevelSize,        \* e.baseLevelSizeBytes, in records
          LevelSizeMultiplier,  \* e.levelSizeMultiplier
          MaxLevels,            \* e.maxLevels
          IntWidth,             \* bits of an int64: 64 in the code
          FlushQueueDepth,      \* flushQueueDepth, the capacity of flushCh
          MaxSeq,               \* bound: writes of one session
          MaxSessions,          \* bound: sessions, each ended by exit or crash but the last
          WriteSessions,        \* bound: sessions in which clients write
          Faults,               \* the I/O steps that may fail
          MaxFaults             \* bound: failures of such steps

ASSUME ConstantsAssumption ==
  /\ DeleteKeys \subseteq Keys
  /\ IsFiniteSet(Writers) /\ IsFiniteSet(Readers) /\ IsFiniteSet(Snapshots)
  /\ Tombstone \notin Values
  /\ FlushThreshold \in Nat \ {0}
  /\ L0CompactionTrigger \in Nat \ {0}
  /\ BaseLevelSize \in Nat
  /\ LevelSizeMultiplier \in Nat
  /\ MaxLevels \in Nat
  /\ IntWidth \in Nat \ {0}
  /\ FlushQueueDepth \in Nat \ {0}
  /\ MaxSeq \in Nat
  /\ MaxSessions \in Nat /\ WriteSessions \in Nat
  /\ MaxFaults \in Nat

VARIABLES
  phase,            \* "down" | "recovering" | "up" | "closing" | "locked" | "closed"
  redo,             \* while recovering: the WAL files still to be removed
  seq,              \* e.seq
  genCounter,       \* e.genCounter
  mem,              \* e.mem / e.wal / e.walPath
  imm,              \* e.imm, ordered by generation
  mts,              \* the MemTable objects in use: generation -> [data, size]
  tables,           \* e.tables: sequence of [level, gen]
  handles,          \* open sstable.Table objects: generation -> [refCount, removeOnZero]
  flushCh,          \* e.flushCh: sequence of generations
  compactCh,        \* e.compactCh holds its one token
  activeSnapshots,  \* e.activeSnapshots: Seq -> count
  wals,             \* WAL files: generation -> [recs, broken]
  ssts,             \* SSTable files: generation -> [level, recs]
  wr,               \* writers
  fl,               \* the flush worker
  cp,               \* the compaction worker
  rd,               \* readers
  snap,             \* snapshot handles
  session, faults   \* counters behind MaxSessions and MaxFaults

memVars  == <<seq, mem, imm, mts>>
tblVars  == <<tables, handles>>
chVars   == <<flushCh, compactCh>>
diskVars == <<wals, ssts>>
snapVars == <<activeSnapshots, snap>>
lifeVars == <<phase, redo, session>>
vars == <<lifeVars, genCounter, memVars, tblVars, chVars, diskVars, snapVars,
          wr, fl, cp, rd, faults>>

\* unboundedSeq, the bound of a read that is not pinned by a snapshot.
UnboundedSeq == MaxSeq + 1

-----------------------------------------------------------------------------
EmptyMem == [data |-> [k \in Keys |-> NoRecord], size |-> 0]
EmptyWAL == [recs |-> <<>>, broken |-> FALSE]
NewHandle == [refCount |-> 1, removeOnZero |-> FALSE]

IdleWriter == [pc |-> "idle", rec |-> NoRecord, job |-> 0]
IdleFlush  == [pc |-> "idle", job |-> 0, gen |-> 0]
IdleCompaction ==
  [pc |-> "idle", inputs |-> <<>>, target |-> 0, bottom |-> FALSE,
   min |-> 0, gen |-> 0, result |-> "none"]
IdleReader ==
  [pc |-> "idle", keys |-> {}, max |-> 0, mem |-> 0, imm |-> {}, tbs |-> <<>>,
   out |-> <<>>]
NoSnapshot == [pc |-> "none", seq |-> 0]

\* f with g mapped to x, and f without g.
With(f, g, x) == [h \in DOMAIN f \cup {g} |-> IF h = g THEN x ELSE f[h]]
Without(f, g) == [h \in DOMAIN f \ {g} |-> f[h]]

\* The records of a MemTable (buildRecords).
RecordsOf(mt) == {mt.data[k] : k \in Keys} \ {NoRecord}

\* The generations of a list of leveled tables (allTablesLocked).
GensOf(tbs) == [i \in DOMAIN tbs |-> tbs[i].gen]

\* A finite set of numbers in ascending order.
InOrder(S) ==
  [i \in 1..Cardinality(S) |-> CHOOSE x \in S : Cardinality({y \in S : y <= x}) = i]

\* The entries of e.tables at the positions of P, in order.
TablesAt(P) == [i \in 1..Cardinality(P) |-> tables[InOrder(P)[i]]]

\* A writer keeps e.mu read-locked from its Seq to its size check, and Close
\* keeps it locked over its final flush; every other section under e.mu is
\* one step here.  LockFree: e.mu.Lock() would be granted.
HoldsRLock(w) == wr[w].pc \in {"append", "apply", "check"}

LockFree == phase # "locked" /\ \A w \in Writers : ~HoldsRLock(w)

\* An I/O step of kind f fails.
Fail(f) == f \in Faults /\ faults < MaxFaults /\ faults' = faults + 1

-----------------------------------------------------------------------------
(* Table.Release and Table.Retire, over the handles and the files.          *)

\* Faulty variant: Retire deletes the file under its readers.
ReleaseDeletesAtOnce(g, retire) ==
  /\ handles' = IF retire \/ handles[g].refCount <= 1 THEN Without(handles, g)
                ELSE [handles EXCEPT ![g].refCount = @ - 1]
  /\ ssts' = IF retire THEN Without(ssts, g) ELSE ssts

\* Faulty variant: the last reference closes the file and never deletes it.
ReleaseKeepsFile(g, retire) ==
  /\ handles' = IF handles[g].refCount <= 1 THEN Without(handles, g)
                ELSE [handles EXCEPT ![g].refCount = @ - 1, ![g].removeOnZero = @ \/ retire]
  /\ UNCHANGED ssts

\* Give up one reference: closed at zero, and then deleted if it was retired.
Release(g, retire) ==
  LET h    == IF g \in DOMAIN handles THEN handles[g]
              ELSE [refCount |-> 0, removeOnZero |-> FALSE]
      gone == h.refCount <= 1
      del  == gone /\ (retire \/ h.removeOnZero)
  IN  /\ handles' = IF gone THEN Without(handles, g)
                    ELSE [handles EXCEPT ![g] =
                            [refCount |-> h.refCount - 1,
                             removeOnZero |-> h.removeOnZero \/ retire]]
      /\ ssts' = IF del THEN Without(ssts, g) ELSE ssts

-----------------------------------------------------------------------------
(* What reads return.                                                       *)

\* The candidates getAt considers, in its order: the active MemTable, the
\* immutable ones newest first, then the tables in list order.
Offered(m, im, tbs, k, max) ==
  {Candidate(m - g, MemGet(mts[g].data, k, max)) : g \in im \cup {m}}
  \cup {Candidate(m + i, TableGet(ssts[tbs[i]].recs, k, max)) : i \in DOMAIN tbs}

ReadAt(m, im, tbs, k, max) == ReadOf(Offered(m, im, tbs, k, max))

\* What getAt would return if it ran now.
GetNow(k, max) == ReadAt(mem, imm, GensOf(tables), k, max)

\* The record that replaying the WAL files leaves for k in the recovered
\* MemTable: the last one in the order of generations and positions.
Logged(k) ==
  LET Slots == UNION {{<<g, i>> : i \in DOMAIN wals[g].recs} : g \in DOMAIN wals}
      At   == {p \in Slots : wals[p[1]].recs[p[2]].key = k}
      last == CHOOSE p \in At : \A q \in At :
                q[1] < p[1] \/ (q[1] = p[1] /\ q[2] <= p[2])
  IN  IF At = {} THEN NoRecord ELSE wals[last[1]].recs[last[2]]

\* What a Get would return after recovery of the present disk.
GetFromDisk(k) ==
  LET newGen == Max({0} \cup DOMAIN ssts) + 1
  IN  ReadOf({Candidate(newGen, Logged(k))} \cup
             {Candidate(g, TableGet(ssts[g].recs, k, UnboundedSeq)) : g \in DOMAIN ssts})

Running == phase \notin {"down", "recovering"}

\* The contents of the store, as its clients see them.
Store == [k \in Keys |-> IF Running THEN GetNow(k, UnboundedSeq) ELSE GetFromDisk(k)]
=============================================================================
