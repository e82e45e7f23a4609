------------------------------ MODULE Versions ------------------------------
(***************************************************************************)
(* The pure part of the store: versioned records, the point lookup of one  *)
(* SSTable (sstable.Table.Get), the choice between sources that getAt and  *)
(* ScanIterator.Next make, and the retention rule of sstable.Merge.        *)
(*                                                                         *)
(* A table is a set of records.  The file holds them as a sequence sorted  *)
(* by key and, within a key, by descending Seq; Write rejects two records  *)
(* with the same key and Seq, so the set determines the sequence.          *)
(***************************************************************************)
EXTENDS Integers

CONSTANTS Keys,        \* the keys in use
          Values,      \* the values Put stores
          Tombstone,   \* memtable.TypeTombstone, also what a failed lookup reads as
          NoRecord     \* the "not found" answer of a single source

\* A record: a key, its global sequence number, and a value or a tombstone.
Record == [key : Keys, seq : Nat, val : Values \cup {Tombstone}]

Entry == Record \cup {NoRecord}

ASSUME NoRecordAssumption == NoRecord \notin Record

\* A bound of a range that is not given (nil), where keys are positive integers.
NoBound == -1

\* The versions of k a read bounded by max may see.
AtMost(R, k, max) == {r \in R : r.key = k /\ r.seq <= max}

\* The newest record of a set, if it has any.
Newest(R) ==
  IF R = {} THEN NoRecord ELSE CHOOSE r \in R : \A q \in R : q.seq <= r.seq

\* The newest version of k with Seq <= max that the table holds: what Table.Get
\* returns for k and what RangeIterator.Next yields for it.
TableGet(R, k, max) == Newest(AtMost(R, k, max))

\* A memtable keeps one record per key; it is invisible when too new.
MemGet(data, k, max) ==
  IF data[k] # NoRecord /\ data[k].seq <= max THEN data[k] ELSE NoRecord

-----------------------------------------------------------------------------
(* getAt considers its sources in a fixed order and replaces the best       *)
(* candidate only by one with a strictly greater Seq; ScanIterator.Next does *)
(* so for each key of its heap.  A candidate is a record with the rank of   *)
(* its source in that order, which matters only between equal Seqs.         *)

Candidate(rank, rec) == [rank |-> rank, rec |-> rec]

Best(C) ==
  CHOOSE c \in C : \A d \in C :
    \/ c.rec.seq > d.rec.seq
    \/ c.rec.seq = d.rec.seq /\ c.rank <= d.rank

\* The value a read returns; Tombstone stands for ErrNotFound.
ReadOf(Offered) ==
  LET C == {c \in Offered : c.rec # NoRecord}
  IN  IF C = {} THEN Tombstone ELSE Best(C).rec.val

-----------------------------------------------------------------------------
(* Merge.  ins is a function giving the record sets of the input tables.    *)

Pool(ins) == UNION {ins[i] : i \in DOMAIN ins}

\* R is what Merge may hand to Write: for each key the walk keeps every
\* version above min and the newest one at or below it, except that a leading
\* tombstone at or below min is dropped when the pass is bottommost.  When two
\* tables hold that newest Seq the unstable sort may put either one first.
IsMerge(R, ins, min, bottom) ==
  /\ R \subseteq Pool(ins)
  /\ \A k \in Keys :
      LET above == {r \in Pool(ins) : r.key = k /\ r.seq > min}
          below == AtMost(Pool(ins), k, min)
          kept  == {r \in R : r.key = k}
      IN  IF below = {}
          THEN kept = above
          ELSE \E first \in below :
                 /\ \A q \in below : q.seq <= first.seq
                 /\ kept = IF above = {} /\ bottom /\ first.val = Tombstone
                           THEN {}
                           ELSE above \cup {first}

\* Two tables hold the same (key, Seq) and the walk keeps both copies: Write
\* finds Seq not strictly descending and refuses the output.
MergeClash(ins, min) ==
  \E i, j \in DOMAIN ins : i # j /\ \E r \in ins[i], q \in ins[j] :
    r.key = q.key /\ r.seq = q.seq /\ r.seq > min
=============================================================================
