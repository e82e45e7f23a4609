------------------------------- MODULE Storage -------------------------------
(***************************************************************************)
(* The data structures under the engine, on one goroutine's path: a write  *)
(* is appended to the log and put into the skip list, a full list is       *)
(* written to a table file and its log removed, a crash at any step is     *)
(* followed by Replay.  MergeScan adds merges and scans.  Engine takes     *)
(* each of these for one step on sets of records; here they are the        *)
(* algorithms of the code.                                                 *)
(***************************************************************************)
EXTENDS SkipList, TableFile, SequencesExt

CONSTANTS Compression,  \* e.compression
          Threshold,    \* the list is full, in entries put
          Writes,       \* the keys and values of the writes clients make
          MaxSeq,       \* bound: writes
          MaxCrashes,   \* bound: crashes
          MaxFaults,    \* bound: failed writes and fsyncs of the log
          ScanRanges    \* the pairs of bounds Scan is called with

ASSUME StorageAssumption ==
  /\ Keys \subseteq Nat \ {0}
  /\ Values \subseteq Nat \ {0}
  /\ Writes \subseteq Keys \X (Values \cup {Tombstone})
  /\ Compression \in BOOLEAN
  /\ MaxLevel \in Nat \ {0}
  /\ \A v \in Values : v \in DOMAIN DeflatedLen /\ DeflatedLen[v] \in Nat
  /\ Keys \subseteq DOMAIN Hash1 /\ Keys \subseteq DOMAIN Hash2

VARIABLES
  pc,        \* "open" | "append" | "sync" | "apply" | "flush" | "drop" | "down" |
             \* "merge" | "scan"
  seq,       \* the last Seq the engine gave to a write, here always a new one
  rec,       \* the write under way
  log,       \* the log behind the list
  list,      \* the skip list of the MemTable
  size,      \* the MemTable's size, in entries put
  files,     \* the table files, oldest first
  job,       \* the merge or scan under way
  logged,    \* history: the records appended to the log, in order, with their fate
  applied,   \* history: the last record put into the list, per key
  crashes, faults

vars == <<pc, seq, rec, log, list, size, files, job, logged, applied, crashes, faults>>

Unbounded == MaxSeq + 1
NoJob == [kind |-> "none"]

Init ==
  /\ pc = "open" /\ seq = 0 /\ rec = NoRecord
  /\ log = NewLog /\ list = NewList /\ size = 0
  /\ files = <<>> /\ job = NoJob
  /\ logged = <<>> /\ applied = [k \in Keys |-> NoRecord]
  /\ crashes = 0 /\ faults = 0

-----------------------------------------------------------------------------
(* Writes: Engine.write, WAL.Append, MemTable.Put and Delete.               *)

BeginWrite(k, v) ==
  /\ pc = "open"
  /\ seq < MaxSeq
  /\ seq' = seq + 1
  /\ rec' = [key |-> k, seq |-> seq + 1, val |-> v]
  /\ pc' = "append"
  /\ UNCHANGED <<log, list, size, files, job, logged, applied, crashes, faults>>

\* Append writes and flushes the buffer ...
AppendWrite ==
  /\ pc = "append"
  /\ ~log.broken
  /\ log' = Written(log, rec, CellCount(rec))
  /\ logged' = Append(logged, [rec |-> rec, acked |-> FALSE])
  /\ pc' = "sync"
  /\ UNCHANGED <<seq, rec, list, size, files, job, applied, crashes, faults>>

\* ... of which a part may reach the file before the write fails; the buffered
\* writer keeps the error, so that every later Append fails too.
AppendFails ==
  /\ pc = "append"
  /\ \/ log.broken /\ UNCHANGED <<log, faults>>
     \/ /\ ~log.broken
        /\ faults < MaxFaults
        /\ faults' = faults + 1
        /\ \E n \in 0..(CellCount(rec) - 1) :
             log' = [Written(log, rec, n) EXCEPT !.broken = TRUE]
  /\ rec' = NoRecord
  /\ pc' = "open"
  /\ UNCHANGED <<seq, list, size, files, job, logged, applied, crashes>>

\* The fsync succeeds, and Append returns nil.
AppendSync ==
  /\ pc = "sync"
  /\ log' = Synced(log)
  /\ logged' = [logged EXCEPT ![Len(logged)].acked = TRUE]
  /\ pc' = "apply"
  /\ UNCHANGED <<seq, rec, list, size, files, job, applied, crashes, faults>>

\* The fsync fails and Append returns the error.  The kernel may still hold the
\* pages for the next fsync, or may have dropped them.
AppendSyncFails ==
  /\ pc = "sync"
  /\ faults < MaxFaults
  /\ faults' = faults + 1
  /\ \E lost \in BOOLEAN :
       log' = [log EXCEPT !.pending = IF lost THEN {} ELSE @, !.lost = @ \/ lost]
  /\ rec' = NoRecord
  /\ pc' = "open"
  /\ UNCHANGED <<seq, list, size, files, job, logged, applied, crashes>>

\* MemTable.Put or Delete, then the size, which decides on rotation.
Apply(lvl) ==
  /\ pc = "apply"
  /\ list' = ListPut(list, rec.key, rec, lvl)
  /\ applied' = [applied EXCEPT ![rec.key] = rec]
  /\ size' = size + 1
  /\ rec' = NoRecord
  /\ pc' = IF size + 1 >= Threshold THEN "flush" ELSE "open"
  /\ UNCHANGED <<seq, log, files, job, logged, crashes, faults>>

-----------------------------------------------------------------------------
(* Flush, crash and recovery.                                               *)

\* Close flushes a list that is not full.
CloseFlush ==
  /\ pc = "open"
  /\ size > 0
  /\ pc' = "flush"
  /\ UNCHANGED <<seq, rec, log, list, size, files, job, logged, applied, crashes, faults>>

\* buildRecords over All, and sstable.Write.
WriteList ==
  /\ pc = "flush"
  /\ LET keys == ListAll(list)
         recs == [i \in DOMAIN keys |-> list.val[keys[i]]]
     IN  files' = IF WriteRefuses(recs) THEN files ELSE Append(files, WriteTable(recs, Compression))
  /\ pc' = "drop"
  /\ UNCHANGED <<seq, rec, log, list, size, job, logged, applied, crashes, faults>>

\* wal.Remove, and a new log and list.
DropLog ==
  /\ pc = "drop"
  /\ log' = NewLog /\ list' = NewList /\ size' = 0
  /\ logged' = <<>> /\ applied' = [k \in Keys |-> NoRecord]
  /\ pc' = "open"
  /\ UNCHANGED <<seq, rec, files, job, crashes, faults>>

\* The machine stops at any step.
Crash ==
  /\ pc # "down"
  /\ crashes < MaxCrashes
  /\ crashes' = crashes + 1
  /\ \E cells \in Remains(log) :
       log' = [NewLog EXCEPT !.cells = cells, !.durable = DOMAIN cells,
                            !.lost = log.lost]
  /\ list' = NewList /\ size' = 0 /\ rec' = NoRecord /\ job' = NoJob
  /\ applied' = [k \in Keys |-> NoRecord]
  /\ pc' = "down"
  /\ UNCHANGED <<seq, files, logged, faults>>

\* recoverFromWALs: replay into a list, which is then flushed.  One height for
\* all towers of the list is a bound of the model.
Recover(lvl) ==
  /\ pc = "down"
  /\ LET recs == Replay(log.cells)
     IN  /\ list' = FoldLeft(LAMBDA l, r : ListPut(l, r.key, r, lvl), NewList, recs)
         /\ applied' = FoldLeft(LAMBDA a, r : [a EXCEPT ![r.key] = r], applied, recs)
         /\ pc' = IF recs = <<>> THEN "drop" ELSE "flush"
  /\ UNCHANGED <<seq, rec, log, size, files, job, logged, crashes, faults>>

\* The calls that change the log, the list or a file.
WriteNext ==
  \/ \E w \in Writes : BeginWrite(w[1], w[2])
  \/ AppendWrite \/ AppendFails \/ AppendSync \/ AppendSyncFails
  \/ \E lvl \in 1..MaxLevel : Apply(lvl)
  \/ CloseFlush \/ WriteList \/ DropLog
  \/ Crash
  \/ \E lvl \in 1..MaxLevel : Recover(lvl)
=============================================================================
