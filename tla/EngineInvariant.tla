-------------------------- MODULE EngineInvariant ---------------------------
(***************************************************************************)
(* The inductive invariants of the write path, of the snapshots and of the *)
(* flush queue.                                                            *)
(***************************************************************************)
EXTENDS Engine

(* The write path.                                                         *)

MemTables == [data : [Keys -> Entry], size : Nat]
WALs == [recs : Seq(Record), broken : BOOLEAN]
CompactionFields == {"pc", "inputs", "target", "bottom", "min", "gen", "result"}

\* The types of the variables the argument is about.
Typed ==
  /\ phase \in {"down", "recovering", "up", "closing", "locked", "closed"}
  /\ genCounter \in Nat /\ mem \in Nat /\ seq \in 0..MaxSeq
  /\ imm \subseteq Nat
  /\ flushCh \in Seq(Nat)
  /\ wr \in [Writers -> [pc : WriterPCs, rec : Entry, job : Nat]]
  /\ fl \in [pc : FlushPCs, job : Nat, gen : Nat]
  /\ DOMAIN cp = CompactionFields /\ cp.gen \in Nat

\* So that recovery finds a greatest generation and a greatest Seq.
Files ==
  /\ DOMAIN wals \in SUBSET Nat /\ IsFiniteSet(DOMAIN wals)
  /\ DOMAIN ssts \in SUBSET Nat /\ IsFiniteSet(DOMAIN ssts)
  /\ \A g \in DOMAIN wals :
       wals[g] \in WALs /\ \A i \in DOMAIN wals[g].recs : wals[g].recs[i].seq <= MaxSeq

\* Before Open returns nothing is under way.
Quiet ==
  phase \in {"down", "recovering"} =>
    /\ imm = {} /\ flushCh = <<>> /\ fl = IdleFlush
    /\ \A w \in Writers : wr[w] = IdleWriter

\* Close waits for the writers that are past their closed check.
Locked == \A w \in Writers : HoldsRLock(w) => phase = "up"

\* The active MemTable is the youngest; what is queued or being flushed is
\* older, and out of e.imm before its WAL is removed.
Queued ==
  Running =>
    /\ mem \in DOMAIN mts /\ imm \subseteq DOMAIN mts
    /\ \A g \in imm \cup {mem} : mts[g] \in MemTables
    /\ mem <= genCounter
    /\ \A g \in imm : g < mem
    /\ \A w \in Writers : wr[w].pc = "send" => wr[w].job < mem
    /\ \A i \in DOMAIN flushCh : flushCh[i] < mem
    /\ fl.pc \in {"write", "commit", "remove"} => fl.job < mem
    /\ fl.pc = "remove" => fl.job \notin imm

\* A write is in the log before it is applied.
Logging ==
  /\ WALBacksMemory
  /\ \A w \in Writers :
       /\ wr[w].pc \in {"append", "apply"} => wr[w].rec \in Record /\ wr[w].rec.seq <= seq
       /\ wr[w].pc = "apply" => wr[w].rec \in LogOf(mem)

\* A write that has its Seq is younger than all that has been rotated out.
Ordering ==
  /\ GenerationsOrdered
  /\ Running =>
       \A g \in imm \cup {mem} : \A r \in RecordsOf(mts[g]) :
         /\ r.seq <= seq
         /\ \A w \in Writers :
              wr[w].pc \in {"append", "apply"} /\ g \in imm => r.seq < wr[w].rec.seq

IInv == Typed /\ Files /\ Quiet /\ Locked /\ Queued /\ Logging /\ Ordering

-----------------------------------------------------------------------------
(* e.activeSnapshots.                                                      *)

OpenAt(n) == {s \in Snapshots : snap[s].pc = "open" /\ snap[s].seq = n}

\* The counts, and what their proof needs of the handles.
SnapshotCounts ==
  /\ snap \in [Snapshots -> [pc : SnapshotPCs, seq : 0..MaxSeq]]
  /\ DOMAIN activeSnapshots \subseteq 0..MaxSeq
  /\ ActiveSnapshotsExact

\* No compaction may drop a version that an open snapshot reads: what
\* minActiveSnapshotSeq returns is at most the Seq of every open snapshot.
OldestIsPinned ==
  \A s \in Snapshots : snap[s].pc = "open" => MinActiveSnapshotSeq <= snap[s].seq

-----------------------------------------------------------------------------
(* The owners of the immutable MemTables.                                  *)

Sends(w, g) == wr[w].pc = "send" /\ wr[w].job = g
Flushes(g) == fl.pc \in {"write", "commit"} /\ fl.job = g

\* The immutable MemTables that nobody will flush.
Orphans ==
  {g \in imm : /\ \A w \in Writers : ~Sends(w, g)
               /\ \A i \in DOMAIN flushCh : flushCh[i] # g
               /\ ~Flushes(g)}

\* What is on its way to the flush worker is immutable and on its way once.
Owners ==
  /\ \A w \in Writers : wr[w].pc = "send" => wr[w].job \in imm
  /\ \A i \in DOMAIN flushCh : flushCh[i] \in imm
  /\ fl.pc \in {"write", "commit"} => fl.job \in imm
  /\ \A w, u \in Writers : \A g \in imm : Sends(w, g) /\ Sends(u, g) => w = u
  /\ \A w \in Writers : \A i \in DOMAIN flushCh : ~Sends(w, flushCh[i])
  /\ \A w \in Writers : ~(wr[w].pc = "send" /\ Flushes(wr[w].job))
  /\ \A i, j \in DOMAIN flushCh : flushCh[i] = flushCh[j] => i = j
  /\ \A i \in DOMAIN flushCh : ~Flushes(flushCh[i])

\* Generation 0 is no MemTable's; a job field is 0 when it holds no job.
Jobs ==
  /\ Running => mem # 0
  /\ 0 \notin imm
  /\ \A w \in Writers : wr[w].pc # "send" => wr[w].job = 0
  /\ fl.pc \in {"idle", "exited"} => fl.job = 0
  /\ fl.pc \in {"remove", "trigger"} => fl.job < mem /\ fl.job \notin imm

\* Each failed flush makes one orphan.
Failures == faults \in Nat /\ IsFiniteSet(imm) /\ Cardinality(Orphans) <= faults

JobsInv == Owners /\ Jobs /\ Failures
=============================================================================
