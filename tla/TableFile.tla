------------------------------ MODULE TableFile ------------------------------
(***************************************************************************)
(* An SSTable file: what sstable.Write lays out, and what a Table opened   *)
(* on it answers (Get, Iterator, RangeIterator).  The data block maps the  *)
(* offsets at which records start to their stored form; the index lists    *)
(* key and offset of every record, in the order they were written.  The    *)
(* file appears under its name complete or not at all (temporary file,     *)
(* fsync, rename), so Write is one operator and Open reads back what Write *)
(* wrote.                                                                  *)
(***************************************************************************)
EXTENDS LogFile, BloomFilter, FiniteSetsExt

CONSTANT DeflatedLen   \* the length DEFLATE compresses each value to

\* compressValue, for values only and where it makes them shorter.
StoredForm(rec, compress) ==
  LET zip == compress /\ rec.val # Tombstone /\ DeflatedLen[rec.val] < ValueLen(rec.val)
  IN  [key |-> rec.key, seq |-> rec.seq, zip |-> zip,
       data |-> IF zip THEN <<rec.val>> ELSE rec.val,
       len |-> IF zip THEN DeflatedLen[rec.val] ELSE ValueLen(rec.val)]

\* readRecordAt: the record, with its value decompressed where the flag says so.
RecordAt(t, offset) ==
  LET s == t.data[offset]
  IN  [key |-> s.key, seq |-> s.seq, val |-> IF s.zip THEN s.data[1] ELSE s.data]

\* Header, key and stored value.
StoredSize(s) == 2 + s.len

\* Write refuses records that are not sorted by key and, within a key, by
\* strictly descending Seq.
Descends(a, b) == a.key < b.key \/ (a.key = b.key /\ a.seq > b.seq)

WriteRefuses(recs) ==
  recs = <<>> \/ \E i \in 1..(Len(recs) - 1) : ~Descends(recs[i], recs[i + 1])

\* The offset each record is written at.
Offsets(stored) ==
  LET offset[i \in 1..(Len(stored) + 1)] ==
        IF i = 1 THEN 0 ELSE offset[i - 1] + 2 + stored[i - 1].len
  IN  offset

\* Write: data block, index, filter; dataLen is the footer's indexOffset.
WriteTable(recs, compress) ==
  LET stored == [i \in DOMAIN recs |-> StoredForm(recs[i], compress)]
      offset == Offsets(stored)
  IN  [data    |-> [o \in {offset[i] : i \in DOMAIN recs} |->
                      stored[CHOOSE i \in DOMAIN recs : offset[i] = o]],
       index   |-> [i \in DOMAIN recs |-> [key |-> recs[i].key, offset |-> offset[i]]],
       filter  |-> FilterOf({recs[i].key : i \in DOMAIN recs}, FilterSize(Len(recs))),
       dataLen |-> offset[Len(recs) + 1]]

-----------------------------------------------------------------------------
(* Reading an open table.                                                   *)

MayContainRange(t, key) ==
  /\ t.index # <<>>
  /\ t.index[1].key <= key
  /\ key <= t.index[Len(t.index)].key

\* sort.Search over the index: the first entry at or after key, or one past all.
SearchIndex(t, key) ==
  Min({i \in DOMAIN t.index : t.index[i].key >= key} \cup {Len(t.index) + 1})

\* The versions of key from index entry i on: they are next to each other.
GroupFrom(t, i, key) ==
  {j \in i..Len(t.index) : \A h \in i..j : t.index[h].key = key}

\* Faulty variant: the walk ends after the first version.
VisibleFirstOnly(t, i, key, max) ==
  {j \in GroupFrom(t, i, key) \cap {i} : RecordAt(t, t.index[j].offset).seq <= max}

Visible(t, i, key, max) ==
  {j \in GroupFrom(t, i, key) : RecordAt(t, t.index[j].offset).seq <= max}

\* The first version of the group that is not too new.
FirstVisible(t, i, key, max) ==
  IF Visible(t, i, key, max) = {} THEN NoRecord
  ELSE RecordAt(t, t.index[Min(Visible(t, i, key, max))].offset)

\* Table.Get
Lookup(t, key, max) ==
  IF MayContainRange(t, key) /\ MayContain(t.filter, key)
  THEN FirstVisible(t, SearchIndex(t, key), key, max)
  ELSE NoRecord

\* Iterator.Next at position pos of the data block: a record and the next position.
IteratorNext(t, pos) ==
  IF pos >= t.dataLen THEN [rec |-> NoRecord, at |-> pos]
  ELSE [rec |-> RecordAt(t, pos), at |-> pos + StoredSize(t.data[pos])]

\* NewRangeIterator
RangeStart(t, start) == IF start = NoBound THEN 1 ELSE SearchIndex(t, start)

\* RangeIterator.Next at index entry idx: the newest visible version of the next
\* key that has one, and the entry behind that key's group.
RangeNext(t, idx, end, max) ==
  LET next[i \in 1..(Len(t.index) + 1)] ==
        IF i > Len(t.index) THEN [rec |-> NoRecord, at |-> i]
        ELSE LET key == t.index[i].key
                 behind == Max(GroupFrom(t, i, key)) + 1
             IN  IF end # NoBound /\ key >= end THEN [rec |-> NoRecord, at |-> i]
                 ELSE IF FirstVisible(t, i, key, max) # NoRecord
                 THEN [rec |-> FirstVisible(t, i, key, max), at |-> behind]
                 ELSE next[behind]
  IN  next[idx]

-----------------------------------------------------------------------------
\* The records of a table.
TableRecords(t) == {RecordAt(t, t.index[i].offset) : i \in DOMAIN t.index}

\* The index leads to the records, in the order Write demands, and the filter
\* knows every key.
WellFormedTable(t) ==
  /\ \A i \in DOMAIN t.index :
       /\ t.index[i].offset \in DOMAIN t.data
       /\ RecordAt(t, t.index[i].offset).key = t.index[i].key
       /\ MayContain(t.filter, t.index[i].key)
  /\ \A i, j \in DOMAIN t.index :
       i < j => Descends(RecordAt(t, t.index[i].offset), RecordAt(t, t.index[j].offset))

\* What Engine takes a lookup for (see Versions).
LookupExact(t, key, max) == Lookup(t, key, max) = TableGet(TableRecords(t), key, max)
=============================================================================
