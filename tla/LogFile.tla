------------------------------- MODULE LogFile -------------------------------
(***************************************************************************)
(* A wal.WAL file: what Append writes, what fsync makes durable, what a    *)
(* crash leaves and what Replay makes of it.  The file is a sequence of    *)
(* cells: a header cell, a key cell and one cell per unit of the value.    *)
(* A value is a positive integer, its length.  The checksum is modelled by *)
(* what it is for: a header and body that were not written together do not *)
(* match.                                                                  *)
(***************************************************************************)
EXTENDS Versions, Sequences, FiniteSets

CONSTANTS MaxReasonableLen,   \* maxReasonableLen in Replay, in cells
          MaxGarbled          \* bound: cells a crash garbles

\* len(rec.Value)
ValueLen(val) == IF val = Tombstone THEN 0 ELSE val

CellCount(rec) == 2 + ValueLen(rec.val)

\* The bytes Append writes for a record.
Encode(rec) == [i \in 1..CellCount(rec) |-> [rec |-> rec, at |-> i]]

\* A cell whose contents never reached the disk.
Garbled == [rec |-> NoRecord, at |-> 0]

\* Faulty variant: replay goes on behind a record that is not intact.
ReplaySkips(cells) ==
  LET from[p \in 1..(Len(cells) + 1)] ==
        IF p > Len(cells) THEN <<>>
        ELSE IF cells[p].at # 1 THEN from[p + 1]
        ELSE <<cells[p].rec>> \o from[p + 1]
  IN  from[1]

\* Replay delivers records from the start of the file and stops, without an
\* error, at the end of the file, at a torn or corrupt header, at a header whose
\* lengths are not reasonable, at a body that is cut short, and at a record that
\* fails its checksum.
Replay(cells) ==
  LET Intact(p) ==
        /\ cells[p].at = 1
        /\ ValueLen(cells[p].rec.val) <= MaxReasonableLen
        /\ p + CellCount(cells[p].rec) <= Len(cells) + 1
        /\ SubSeq(cells, p, p + CellCount(cells[p].rec) - 1) = Encode(cells[p].rec)
      from[p \in 1..(Len(cells) + 1)] ==
        IF p > Len(cells) \/ ~Intact(p) THEN <<>>
        ELSE <<cells[p].rec>> \o from[p + CellCount(cells[p].rec)]
  IN  from[1]

-----------------------------------------------------------------------------
\* An open log: its cells, those that are on disk, those the next fsync is to
\* write, whether the buffered writer has failed, which it then always does, and
\* whether the kernel has dropped cells after a failed fsync.
NewLog == [cells |-> <<>>, durable |-> {}, pending |-> {}, broken |-> FALSE, lost |-> FALSE]

\* The log with the first n cells of a record written to the file.
Written(log, rec, n) ==
  [log EXCEPT !.cells = @ \o SubSeq(Encode(rec), 1, n),
              !.pending = @ \cup (Len(log.cells) + 1)..(Len(log.cells) + n)]

Synced(log) == [log EXCEPT !.durable = @ \cup log.pending, !.pending = {}]

\* What may be left of the cells after a crash: those on disk are as they were,
\* any other is whole or garbled, and the file may end before the last of them.
Remains(log) ==
  LET n == Len(log.cells)
      Ends == {m \in 0..n : log.durable \subseteq 1..m}
      Bad(m) == {bad \in SUBSET ((1..m) \ log.durable) : Cardinality(bad) <= MaxGarbled}
  IN  UNION {{[i \in 1..m |-> IF i \in bad THEN Garbled ELSE log.cells[i]] : bad \in Bad(m)} :
               m \in Ends}
=============================================================================
