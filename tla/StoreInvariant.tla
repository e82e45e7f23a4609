--------------------------- MODULE StoreInvariant ---------------------------
(***************************************************************************)
(* The inductive invariants behind the refinement of KVStore, for a run of *)
(* one session in which no compaction pass fails at its commit: what the   *)
(* sources of a read hold, and, where deleted keys matter, which of them   *)
(* is older than which.                                                    *)
(***************************************************************************)
EXTENDS TableInvariant

(* The records of the engine.                                              *)

InMemory == UNION {RecordsOf(mts[g]) : g \in imm \cup {mem}}
InTables == UNION {ssts[tables[i].gen].recs : i \in DOMAIN tables}
OnFile == UNION {ssts[g].recs : g \in DOMAIN ssts}
InHand == {wr[w].rec : w \in {u \in Writers : Pending(u)}}
Held == InMemory \cup OnFile \cup InHand

\* The versions of k that the sources of a read hold now.
VersionsOf(k) == {r \in InMemory \cup InTables : r.key = k}

\* What a read makes of the newest version.
ValueOf(entry) == IF entry = NoRecord THEN Tombstone ELSE entry.val

\* Before Open returns, the data directory of a first session is empty.
Blank == ~Running => DOMAIN ssts = {} /\ DOMAIN wals = {} /\ tables = <<>>

\* A MemTable finds a record under its key.
Keyed ==
  Running => \A g \in imm \cup {mem} : \A k \in Keys :
               mts[g].data[k] # NoRecord => mts[g].data[k].key = k

\* A Seq is given out once; Delete alone writes tombstones.
Unique ==
  Running =>
    /\ \A r \in Held : r \in Record /\ r.seq <= seq
    /\ \A r, q \in Held : r.seq = q.seq => r = q
    /\ DeleteKeys = {} => \A r \in Held : r.val # Tombstone

\* A write that has its Seq is younger than all that is in a file.
Ahead ==
  Running => \A w \in Writers : Pending(w) => \A r \in OnFile : r.seq < wr[w].rec.seq

\* A table in the making holds what its sources hold.
Flushed == fl.pc = "commit" => ssts[fl.gen].recs = RecordsOf(mts[fl.job])
Merged ==
  cp.pc = "commit" =>
    /\ cp.result = "ok" => IsMerge(ssts[cp.gen].recs, InputRecords, cp.min, cp.bottom)
    /\ cp.result = "empty" => IsMerge({}, InputRecords, cp.min, cp.bottom)

StoreInv == Blank /\ Keyed /\ Unique /\ Ahead /\ Flushed /\ Merged

-----------------------------------------------------------------------------
(* The order of the sources.                                               *)

\* All of R is older than all of Q.
Before(R, Q) == \A r \in R, q \in Q : r.seq < q.seq

RecsAt(i) == ssts[tables[i].gen].recs
InputAt(i) == Input(tables[i].gen)

\* The flush worker turns the immutable MemTables into tables in their order.
OldestFirst == fl.pc = "commit" => \A g \in imm : fl.job <= g

\* What is in memory is younger than what is in the listed tables.
MemoryNewer ==
  phase \in {"up", "closing"} =>
    \A i \in DOMAIN tables : Before(RecsAt(i), InMemory)

LevelsOrdered ==
  \A i, j \in DOMAIN tables : tables[i].level > tables[j].level => Before(RecsAt(i), RecsAt(j))

\* No table is below the deepest level; level 1 is there in any case.
Deepest(lvl) == lvl <= 1 \/ lvl <= MaxLevels - 1

\* A pass takes two levels, all of them but what is flushed after its pick, and
\* none is below a bottommost pass.
InputsTaken ==
  cp.pc \in {"pin", "merge", "commit"} =>
    /\ cp.target >= 1 /\ Deepest(cp.target)
    /\ \A i \in DOMAIN tables :
         IF InputAt(i) THEN tables[i].level \in {cp.target - 1, cp.target}
         ELSE /\ tables[i].level # cp.target
              /\ tables[i].level = cp.target - 1 =>
                   \A j \in DOMAIN tables : InputAt(j) => Before(RecsAt(j), RecsAt(i))
    /\ cp.bottom => \A i \in DOMAIN tables : tables[i].level <= cp.target

OrderInv ==
  /\ MemoryNewer /\ LevelsOrdered /\ InputsTaken
  /\ \A i \in DOMAIN tables : Deepest(tables[i].level)

\* A record is in one listed table.
Apart == \A i, j \in DOMAIN tables : i # j => RecsAt(i) \cap RecsAt(j) = {}

Sound == StoreInv /\ OrderInv /\ Apart /\ RefInv

\* No merge has failed.
MergeSucceeds == cp.result # "failed"

-----------------------------------------------------------------------------
(* The flush queue of one writer, while no I/O fails.                      *)

\* The MemTables on their way to the flush worker, oldest first: the one being
\* flushed, the queue, the one about to be sent.
InLine ==
  /\ \A i, j \in DOMAIN flushCh : i < j => flushCh[i] < flushCh[j]
  /\ fl.pc \in {"write", "commit"} =>
       /\ \A i \in DOMAIN flushCh : fl.job < flushCh[i]
       /\ \A w \in Writers : wr[w].pc = "send" => fl.job < wr[w].job
  /\ \A w \in Writers : wr[w].pc = "send" =>
       \A i \in DOMAIN flushCh : flushCh[i] < wr[w].job
=============================================================================
