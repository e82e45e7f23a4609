------------------------------ MODULE MergeScan ------------------------------
(***************************************************************************)
(* The two k-way merges over the structures of Storage: sstable.Merge over *)
(* the table files, and ScanIterator over the list and the files; and what *)
(* the whole promises to Engine.                                           *)
(***************************************************************************)
EXTENDS Storage

(* The heap under Merge and under ScanIterator: an item is a record and the *)
(* source it came from, which refills the heap when the item is popped.     *)

\* Less: by key, then by descending Seq.  Among equals any may be on top.
Tops(heap) == {a \in heap : \A b \in heap : ~Descends(b.rec, a.rec)}

\* The next record of a source at a position: an Iterator over a table for a
\* merge, the slice of the list (source 0) or a RangeIterator for a scan.
NextOf(j, src, at) ==
  IF j.kind = "merge" THEN IteratorNext(files[src], at)
  ELSE IF src > 0 THEN RangeNext(files[src], at, j.end, j.max)
  ELSE LET later == {i \in at..Len(j.slice) : j.slice[i].seq <= j.max}
       IN  IF later = {} THEN [rec |-> NoRecord, at |-> at]
           ELSE [rec |-> j.slice[Min(later)], at |-> Min(later) + 1]

Push(heap, src, next) ==
  heap \cup (IF next.rec = NoRecord THEN {} ELSE {[rec |-> next.rec, src |-> src]})

\* Faulty variant: the source of the popped item is not read again.
PopForgets(j, a) == [j EXCEPT !.heap = @ \ {a}]

\* j after popping a and refilling the heap from its source.
Pop(j, a) ==
  LET next == NextOf(j, a.src, j.at[a.src])
  IN  [j EXCEPT !.heap = Push(@ \ {a}, a.src, next), !.at[a.src] = next.at]

\* j with its sources read for the first time.
Started(j, from) ==
  LET first == [src \in DOMAIN from |-> NextOf(j, src, from[src])]
  IN  [j EXCEPT !.heap = UNION {Push({}, src, first[src]) : src \in DOMAIN from},
                !.at = [src \in DOMAIN from |-> first[src].at]]

-----------------------------------------------------------------------------
(* sstable.Merge.                                                           *)

BeginMerge(min, bottom) ==
  /\ pc = "open"
  /\ Len(files) > 1
  /\ job' = Started([kind |-> "merge", min |-> min, bottom |-> bottom,
                     heap |-> {}, at |-> <<>>, group |-> <<>>, out |-> <<>>],
                    [src \in DOMAIN files |-> 0])
  /\ pc' = "merge"
  /\ UNCHANGED <<seq, rec, log, list, size, files, logged, applied, crashes, faults>>

\* Another version of the key of the group is on top of the heap, or any key
\* when there is no group.
InGroup(a) == job.group # <<>> => a.rec.key = job.group[1].key

MergeTake ==
  /\ pc = "merge"
  /\ \E a \in Tops(job.heap) :
       /\ InGroup(a)
       /\ job' = [Pop(job, a) EXCEPT !.group = Append(@, a.rec)]
  /\ UNCHANGED <<pc, seq, rec, log, list, size, files, logged, applied, crashes, faults>>

\* Faulty variant: the newest version at or below min goes too.
RetainedAbove(group, min, bottom) == SelectSeq(group, LAMBDA r : r.seq > min)

\* The walk over the sorted group: down to the first version at or below min,
\* without a leading tombstone that nothing needs.
Retained(group, min, bottom) ==
  LET enough == {i \in DOMAIN group : group[i].seq <= min}
  IN  IF bottom /\ group[1].val = Tombstone /\ group[1].seq <= min THEN <<>>
      ELSE SubSeq(group, 1, Min(enough \cup {Len(group)}))

\* The group is complete: sort it by descending Seq, in any order between
\* equals, and keep what is needed.
MergeWalk ==
  /\ pc = "merge"
  /\ job.group # <<>>
  /\ ~\E a \in Tops(job.heap) : InGroup(a)
  /\ \E sorted \in SetToSeqs(DOMAIN job.group) :
       LET group == [i \in DOMAIN sorted |-> job.group[sorted[i]]]
       IN  /\ \A i \in 1..(Len(group) - 1) : group[i].seq >= group[i + 1].seq
           /\ job' = [job EXCEPT !.group = <<>>,
                                 !.out = @ \o Retained(group, job.min, job.bottom)]
  /\ UNCHANGED <<pc, seq, rec, log, list, size, files, logged, applied, crashes, faults>>

\* Write the output, if there is any; runCompaction then lists it in place of
\* the inputs, and leaves them when Write refuses.
MergeEnd ==
  /\ pc = "merge"
  /\ job.heap = {} /\ job.group = <<>>
  /\ files' = IF job.out = <<>> THEN <<>>
              ELSE IF WriteRefuses(job.out) THEN files
              ELSE <<WriteTable(job.out, Compression)>>
  /\ job' = NoJob
  /\ pc' = "open"
  /\ UNCHANGED <<seq, rec, log, list, size, logged, applied, crashes, faults>>

-----------------------------------------------------------------------------
(* scanAt and ScanIterator.Next.                                            *)

BeginScan(start, end, max) ==
  /\ pc = "open"
  /\ LET keys == ListRange(list, start, end)
     IN  job' = Started([kind |-> "scan", start |-> start, end |-> end, max |-> max,
                         slice |-> [i \in DOMAIN keys |-> list.val[keys[i]]],
                         heap |-> {}, at |-> <<>>, best |-> NoRecord, out |-> <<>>],
                        [src \in 0..Len(files) |->
                           IF src = 0 THEN 1 ELSE RangeStart(files[src], start)])
  /\ pc' = "scan"
  /\ UNCHANGED <<seq, rec, log, list, size, files, logged, applied, crashes, faults>>

SameKey(a) == job.best # NoRecord => a.rec.key = job.best.key

\* Pop an item of the key at hand; a greater Seq is a better version.
ScanTake ==
  /\ pc = "scan"
  /\ \E a \in Tops(job.heap) :
       /\ SameKey(a)
       /\ job' = [Pop(job, a) EXCEPT
                    !.best = IF @ = NoRecord \/ a.rec.seq > @.seq THEN a.rec ELSE @]
  /\ UNCHANGED <<pc, seq, rec, log, list, size, files, logged, applied, crashes, faults>>

\* The key is complete: Next returns it, or goes on when it is deleted.
ScanYield ==
  /\ pc = "scan"
  /\ job.best # NoRecord
  /\ ~\E a \in Tops(job.heap) : SameKey(a)
  /\ job' = [job EXCEPT !.best = NoRecord,
                        !.out = IF job.best.val = Tombstone THEN @ ELSE Append(@, job.best)]
  /\ UNCHANGED <<pc, seq, rec, log, list, size, files, logged, applied, crashes, faults>>

ScanEnd ==
  /\ pc = "scan"
  /\ job.heap = {} /\ job.best = NoRecord
  /\ job' = NoJob
  /\ pc' = "open"
  /\ UNCHANGED <<seq, rec, log, list, size, files, logged, applied, crashes, faults>>

Next ==
  \/ WriteNext
  \/ \E min \in 0..seq, bottom \in BOOLEAN : BeginMerge(min, bottom)
  \/ MergeTake \/ MergeWalk \/ MergeEnd
  \/ \E range \in ScanRanges, max \in 1..seq : BeginScan(range[1], range[2], max)
  \/ ScanTake \/ ScanYield \/ ScanEnd

Spec == Init /\ [][Next]_vars

-----------------------------------------------------------------------------
\* MemTable: whatever heights the towers got and in whatever order the keys
\* came, the skip list is well formed, and Get, All and Range read it as a map
\* to the last record put for each key.
ListIsMap ==
  LET Live == {k \in Keys : applied[k] # NoRecord}
      InRange(r) == {k \in Live : r[1] <= k /\ (r[2] = NoBound \/ k < r[2])}
      Ascending(S) == SetToSortSeq(S, <)
  IN  /\ ListWellFormed(list)
      /\ \A k \in Keys : ListGet(list, k, NoRecord) = applied[k]
      /\ ListAll(list) = Ascending(Live)
      /\ \A r \in ScanRanges : ListRange(list, r[1], r[2]) = Ascending(InRange(r))

\* Append's "a nil error return is a durability guarantee" against what Replay
\* delivers after a crash: the records in the order they were appended, up to
\* some point, and never a part of one; no acknowledged record is missing,
\* unless a longer value than Replay accepts is in front of it or the kernel
\* dropped what a failed fsync had not written.
AckedAreReplayed ==
  pc = "down" =>
    LET got == Replay(log.cells)
        Long == {i \in DOMAIN logged : ValueLen(logged[i].rec.val) > MaxReasonableLen}
        Kept == {i \in DOMAIN logged : logged[i].acked /\ \A j \in Long : i < j}
    IN  /\ Len(got) <= Len(logged)
        /\ \A i \in DOMAIN got : got[i] = logged[i].rec
        /\ ~log.lost => \A i \in Kept : i <= Len(got)

\* Write lays a file out so that the index finds every record at its offset,
\* compressed or not, in the order of keys and Seqs, and the Bloom filter knows
\* every key: the form that the lookup relies on.
TablesWellFormed == \A i \in DOMAIN files : WellFormedTable(files[i])

\* Table.Get returns the newest version that the bound lets it see, of every key
\* and at every bound, through range check, filter, search and walk.
TablesAnswer ==
  \A i \in DOMAIN files : \A k \in Keys, max \in 0..Unbounded : LookupExact(files[i], k, max)

\* A flush writes the records of the list and no other; Merge writes the
\* versions that its retention rule names, or is refused when two tables hold
\* the same version and both copies are to be kept.
TablesKeepVersions ==
  [][LET ins == [i \in DOMAIN files |-> TableRecords(files[i])]
         outs == [i \in DOMAIN files' |-> TableRecords(files'[i])]
     IN  /\ pc = "flush" /\ pc' = "drop" =>
              outs = Append(ins, {applied[k] : k \in Keys} \ {NoRecord})
         /\ pc = "merge" /\ pc' = "open" =>
              IF MergeClash(ins, job.min) THEN files' = files
              ELSE IsMerge(Pool(outs), ins, job.min, job.bottom)]_vars

\* A scan yields, in key order, each key of its range once, with the value a Get
\* at its bound would return, and no deleted key: all keys it has passed are
\* decided, whatever order the heap gave to the sources.
ScanExact ==
  pc = "scan" =>
    LET Offers(k) ==
          {Candidate(0, MemGet(applied, k, job.max))}
            \cup {Candidate(i, TableGet(TableRecords(files[i]), k, job.max)) : i \in DOMAIN files}
        Passed == {k \in Keys : /\ job.start <= k /\ (job.end = NoBound \/ k < job.end)
                                /\ \A a \in job.heap : k < a.rec.key
                                /\ job.best # NoRecord => k < job.best.key}
        live == SetToSortSeq({k \in Passed : ReadOf(Offers(k)) # Tombstone}, <)
    IN  /\ [i \in DOMAIN job.out |-> job.out[i].key] = live
        /\ \A i \in DOMAIN job.out : job.out[i].val = ReadOf(Offers(job.out[i].key))
=============================================================================
