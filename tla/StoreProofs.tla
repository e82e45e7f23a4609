---------------------------- MODULE StoreProofs -----------------------------
(***************************************************************************)
(* The store. A compaction pass is invisible to reads: the merged table    *)
(* answers every read that is not older than the oldest pinned Seq as its  *)
(* inputs did. Then what each step does to the map its writers see.        *)
(***************************************************************************)
EXTENDS EngineProofs

(* Merge keeps what a read finds.                                          *)

\* The visible versions of a key, if any, have a newest one.
LEMMA NewestExists ==
  ASSUME NEW R \in SUBSET Record, NEW s \in Nat, R # {}, \A r \in R : r.seq <= s
  PROVE  \E r \in R : \A q \in R : q.seq <= r.seq
<1> DEFINE Seqs == {r.seq : r \in R}
<1>1. Seqs \subseteq 0..s
  BY DEF Record
<1>2. IsFiniteSet(Seqs)
  <2>1. IsFiniteSet(0..s)
    BY FS_Interval
  <2> HIDE DEF Seqs
  <2> QED BY <1>1, <2>1, FS_Subset, Zenon
<1>3. Seqs \in SUBSET Nat /\ Seqs # {}
  BY <1>1
<1>4. PICK m \in Seqs : \A y \in Seqs : y <= m
  <2> HIDE DEF Seqs
  <2> QED BY <1>2, <1>3, FiniteGreatest
<1> QED BY <1>4, Zenon

\* A table answers with a newest one of its visible versions.
LEMMA TableGetNewest ==
  ASSUME NEW R \in SUBSET Record, NEW k \in Keys, NEW s \in Nat, AtMost(R, k, s) # {}
  PROVE  /\ TableGet(R, k, s) \in AtMost(R, k, s)
         /\ \A q \in AtMost(R, k, s) : q.seq <= TableGet(R, k, s).seq
<1> DEFINE V == AtMost(R, k, s)
<1>1. V \in SUBSET Record /\ \A r \in V : r.seq <= s
  BY DEF AtMost
<1> HIDE DEF V
<1>2. \E r \in V : \A q \in V : q.seq <= r.seq
  BY <1>1, NewestExists, Zenon DEF V
<1>3. Newest(V) \in V /\ \A q \in V : q.seq <= Newest(V).seq
  BY <1>2, Zenon DEF Newest
<1> QED BY <1>3 DEF TableGet, V

\* A read returns the value of the candidate that is newer than all others.
LEMMA ReadIsNewest ==
  ASSUME NEW Off, NEW c \in Off, c.rec \in Record, c.rank \in Int,
         \A d \in Off : d.rec # NoRecord /\ d # c => d.rec.seq \in Nat /\ d.rec.seq < c.rec.seq
  PROVE  ReadOf(Off) = c.rec.val
<1> DEFINE C == {d \in Off : d.rec # NoRecord}
<1>1. c \in C /\ c.rec.seq \in Nat
  BY NoRecordAssumption DEF Record
<1>2. \A d \in C : d = c \/ (d.rec.seq \in Nat /\ d.rec.seq < c.rec.seq)
  BY Zenon
<1> HIDE DEF C
<1>3. Best(C) = c
  BY <1>1, <1>2 DEF Best
<1> QED BY <1>1, <1>3 DEF ReadOf, C

\* No version of k is in two places.
VersionsUnique(ins, others, k) ==
  /\ \A i, j \in DOMAIN ins : \A r \in ins[i], q \in ins[j] :
       r.key = k /\ q.key = k /\ r.seq = q.seq => i = j /\ r = q
  /\ \A c \in others, r \in Pool(ins) : c.rec # NoRecord /\ r.key = k => c.rec.seq # r.seq
  /\ \A c, d \in others :
       c.rec # NoRecord /\ d.rec # NoRecord /\ c.rec.seq = d.rec.seq => c = d

\* Nothing beside the inputs is older than what a bottommost pass may drop.
NothingDeeper(ins, others, k, min) ==
  \A c \in others, r \in AtMost(Pool(ins), k, min) : c.rec # NoRecord => r.seq < c.rec.seq

\* The output holds a newest visible version of what the inputs hold, unless
\* that is a tombstone which a bottommost pass drops.
LEMMA MergeKeepsNewest ==
  ASSUME NEW ins, Pool(ins) \subseteq Record, NEW R, NEW min \in Nat, NEW bottom,
         IsMerge(R, ins, min, bottom),
         NEW k \in Keys, NEW s \in Nat, min <= s,
         NEW r \in AtMost(Pool(ins), k, s),
         \A q \in AtMost(Pool(ins), k, s) : q.seq <= r.seq,
         \A q \in AtMost(Pool(ins), k, s) : q.seq = r.seq => q = r
  PROVE  \/ r \in AtMost(R, k, s)
         \/ bottom /\ r.val = Tombstone /\ r.seq <= min /\ AtMost(R, k, s) = {}
<1> DEFINE above == {q \in Pool(ins) : q.key = k /\ q.seq > min}
           below == AtMost(Pool(ins), k, min)
           kept  == {q \in R : q.key = k}
<1>1. r \in Record /\ r \in Pool(ins) /\ r.key = k /\ r.seq <= s /\ r.seq \in Nat
  BY Zenon DEF AtMost, Record
<1>2. CASE r.seq > min
  <2>1. r \in above
    BY <1>1, <1>2
  <2>2. above \subseteq kept
    BY <2>1 DEF IsMerge
  <2> QED BY <1>1, <2>1, <2>2, Zenon DEF AtMost
<1>3. CASE r.seq <= min
  <2>1. r \in below
    BY <1>1, <1>3 DEF AtMost
  <2>2. PICK first \in below :
          /\ \A q \in below : q.seq <= first.seq
          /\ kept = IF above = {} /\ bottom /\ first.val = Tombstone
                    THEN {} ELSE above \cup {first}
    BY <2>1, Zenon DEF IsMerge
  <2>3. below \subseteq AtMost(Pool(ins), k, s)
    BY DEF AtMost, Record
  <2>4. first = r
    <3>1. first.seq \in Nat
      BY <2>2, Zenon DEF AtMost, Record
    <3>2. first.seq = r.seq
      BY <1>1, <2>1, <2>2, <2>3, <3>1
    <3> QED BY <2>2, <2>3, <3>2, Zenon
  <2>5. CASE kept = {}
    <3>1. AtMost(R, k, s) = {}
      BY <2>5, Zenon DEF AtMost
    <3> QED BY <1>3, <2>2, <2>4, <2>5, <3>1
  <2>6. CASE first \in kept
    BY <1>1, <2>4, <2>6 DEF AtMost
  <2> QED BY <2>2, <2>5, <2>6, Zenon
<1> QED BY <1>1, <1>2, <1>3

\* A read at s, not older than the oldest pinned Seq, returns the same value
\* whether it consults the inputs of a compaction pass or its output: runCompaction
\* may swap one for the other under e.mu while snapshots at or above min are open.
THEOREM MergePreservesReads ==
  ASSUME NEW ins, Pool(ins) \subseteq Record, NEW R, NEW min \in Nat, NEW bottom \in BOOLEAN,
         IsMerge(R, ins, min, bottom),
         NEW k \in Keys, NEW s \in Nat, min <= s,
         NEW others \in SUBSET [rank : Int, rec : Entry],
         \A c \in others : c.rec # NoRecord => c.rec.key = k /\ c.rec.seq <= s,
         VersionsUnique(ins, others, k),
         bottom => NothingDeeper(ins, others, k, min),
         NEW rank \in [DOMAIN ins -> Int], NEW newRank \in Int
  PROVE  ReadOf(others \cup {Candidate(rank[i], TableGet(ins[i], k, s)) : i \in DOMAIN ins})
           = ReadOf(others \cup {Candidate(newRank, TableGet(R, k, s))})
<1> DEFINE Old == {Candidate(rank[i], TableGet(ins[i], k, s)) : i \in DOMAIN ins}
           new == Candidate(newRank, TableGet(R, k, s))
           V == AtMost(Pool(ins), k, s)
           O == {c \in others : c.rec # NoRecord}
<1>1. R \subseteq Pool(ins) /\ R \in SUBSET Record /\ AtMost(R, k, s) \subseteq V
  BY DEF IsMerge, AtMost
<1>2. \A i \in DOMAIN ins : ins[i] \in SUBSET Record /\ AtMost(ins[i], k, s) \subseteq V
  BY DEF Pool, AtMost
<1>3. \A c \in O : c.rec \in Record /\ c.rec.seq \in Nat /\ c.rank \in Int
  BY Zenon DEF Entry, Record
<1>4. \A r \in V : r \in Record /\ r.seq \in Nat /\ r.key = k /\ r.seq <= s /\ r \in Pool(ins)
  BY Zenon DEF AtMost, Record
<1>5. \A r, q \in V : r.seq = q.seq => r = q
  BY DEF VersionsUnique, Pool, AtMost
<1>6. \A i \in DOMAIN ins : TableGet(ins[i], k, s) \in V \cup {NoRecord}
  <2> SUFFICES ASSUME NEW i \in DOMAIN ins PROVE TableGet(ins[i], k, s) \in V \cup {NoRecord}
    BY Zenon
  <2>1. CASE AtMost(ins[i], k, s) = {}
    BY <2>1 DEF TableGet, Newest
  <2>2. CASE AtMost(ins[i], k, s) # {}
    BY <1>2, <2>2, TableGetNewest, Zenon
  <2> QED BY <2>1, <2>2, Zenon
<1>7. new.rec = TableGet(R, k, s) /\ new.rank = newRank
  BY DEF Candidate
<1>8. CASE V = {}
  <2>1. new.rec = NoRecord
    BY <1>1, <1>7, <1>8, Zenon DEF TableGet, Newest
  <2>2. \A d \in Old : d.rec = NoRecord
    BY <1>6, <1>8 DEF Candidate
  <2>3. {c \in others \cup Old : c.rec # NoRecord} = {c \in others \cup {new} : c.rec # NoRecord}
    BY <2>1, <2>2, Zenon
  <2> HIDE DEF Old, new
  <2>4. ReadOf(others \cup Old) = ReadOf(others \cup {new})
    BY <2>3, Zenon DEF ReadOf
  <2> QED BY <2>4, Zenon DEF Old, new
<1>9. CASE V # {}
  <2>1. PICK r \in V : \A q \in V : q.seq <= r.seq
    <3> HIDE DEF V
    <3>1. V \in SUBSET Record
      BY <1>4
    <3> QED BY <1>4, <1>9, <3>1, NewestExists, Zenon
  <2>2. PICK i \in DOMAIN ins : r \in ins[i]
    BY <1>4, <2>1 DEF Pool
  <2> DEFINE old == Candidate(rank[i], r)
  <2>3. \A j \in DOMAIN ins : TableGet(ins[j], k, s) = r <=> j = i
    <3> SUFFICES ASSUME NEW j \in DOMAIN ins PROVE TableGet(ins[j], k, s) = r <=> j = i
      BY Zenon
    <3>1. CASE j = i
      <4>1. r \in AtMost(ins[i], k, s)
        BY <1>4, <2>1, <2>2, Zenon DEF AtMost
      <4>2. TableGet(ins[i], k, s) \in V /\ r.seq <= TableGet(ins[i], k, s).seq
        BY <1>2, <2>2, <4>1, TableGetNewest, Zenon
      <4> QED BY <1>4, <1>5, <2>1, <3>1, <4>2
    <3>2. CASE TableGet(ins[j], k, s) = r
      <4>1. AtMost(ins[j], k, s) # {}
        BY <1>4, <2>1, <3>2, NoRecordAssumption, Zenon DEF TableGet, Newest
      <4>2. r \in ins[j]
        BY <1>2, <3>2, <4>1, TableGetNewest, Zenon DEF AtMost
      <4>3. r.key = k
        BY <1>4, <2>1
      <4>4. j = i
        BY <2>2, <4>2, <4>3, Zenon DEF VersionsUnique
      <4> QED BY <3>2, <4>4
    <3> QED BY <3>1, <3>2
  <2>4. old \in Old /\ old.rec = r /\ old.rank \in Int
    BY <2>2, <2>3, Zenon DEF Candidate
  <2>5. \A d \in Old : d.rec # NoRecord /\ d # old => d.rec.seq \in Nat /\ d.rec.seq < r.seq
    <3> SUFFICES ASSUME NEW j \in DOMAIN ins, TableGet(ins[j], k, s) # NoRecord, j # i
                 PROVE  TableGet(ins[j], k, s).seq \in Nat /\ TableGet(ins[j], k, s).seq < r.seq
      BY <2>3 DEF Candidate
    <3>1. TableGet(ins[j], k, s) \in V
      BY <1>6
    <3> QED BY <1>4, <1>5, <2>1, <2>3, <3>1
  <2>6. \/ new.rec = r
        \/ new.rec = NoRecord /\ r.val = Tombstone /\ \A c \in O : r.seq < c.rec.seq
    <3>1. CASE r \in AtMost(R, k, s)
      <4>1. TableGet(R, k, s) \in V /\ r.seq <= TableGet(R, k, s).seq
        BY <1>1, <3>1, TableGetNewest
      <4> QED BY <1>4, <1>5, <1>7, <2>1, <4>1
    <3>2. CASE bottom /\ r.val = Tombstone /\ r.seq <= min /\ AtMost(R, k, s) = {}
      <4>1. new.rec = NoRecord
        BY <1>7, <3>2, Zenon DEF TableGet, Newest
      <4>2. r \in AtMost(Pool(ins), k, min)
        BY <1>4, <2>1, <3>2, Zenon DEF AtMost
      <4> QED BY <3>2, <4>1, <4>2, Zenon DEF NothingDeeper
    <3> QED BY <1>5, <2>1, <3>1, <3>2, MergeKeepsNewest
  <2>7. r \in Record /\ r.seq \in Nat /\ r # NoRecord
    BY <1>4, <2>1, NoRecordAssumption, Zenon
  <2>8. \A c \in O : c.rec.seq # r.seq
    BY <1>4, <2>1, Zenon DEF VersionsUnique
  <2> HIDE DEF Old, new, old, V
  <2>9. CASE \E c \in O : r.seq < c.rec.seq
    <3>1. PICK c \in O : \A d \in O : d.rec.seq <= c.rec.seq
      <4> DEFINE Recs == {d.rec : d \in O}
      <4>1. Recs \in SUBSET Record /\ Recs # {} /\ \A q \in Recs : q.seq <= s
        BY <1>3, <2>9
      <4>2. \E q \in Recs : \A p \in Recs : p.seq <= q.seq
        <5> HIDE DEF Recs
        <5> QED BY <4>1, NewestExists, Zenon
      <4> QED BY <4>2, Zenon
    <3>2. r.seq < c.rec.seq /\ \A d \in O : d # c => d.rec.seq < c.rec.seq
      BY <1>3, <2>7, <2>9, <3>1 DEF VersionsUnique
    <3>3. \A d \in others \cup Old : d.rec # NoRecord /\ d # c
            => d.rec.seq \in Nat /\ d.rec.seq < c.rec.seq
      BY <1>3, <2>4, <2>5, <2>7, <3>1, <3>2
    <3>4. \A d \in others \cup {new} : d.rec # NoRecord /\ d # c
            => d.rec.seq \in Nat /\ d.rec.seq < c.rec.seq
      BY <1>3, <2>6, <2>7, <3>2, Zenon
    <3>5. ReadOf(others \cup Old) = c.rec.val /\ ReadOf(others \cup {new}) = c.rec.val
      BY <1>3, <3>1, <3>3, <3>4, ReadIsNewest, Zenon
    <3> QED BY <3>5, Zenon DEF Old, new
  <2>10. CASE \A c \in O : ~(r.seq < c.rec.seq)
    <3>1. \A d \in O : d.rec.seq \in Nat /\ d.rec.seq < r.seq
      BY <1>3, <2>7, <2>8, <2>10
    <3>2. ReadOf(others \cup Old) = r.val
      <4>1. \A d \in others \cup Old : d.rec # NoRecord /\ d # old
              => d.rec.seq \in Nat /\ d.rec.seq < old.rec.seq
        BY <2>4, <2>5, <3>1, Zenon
      <4> QED BY <2>4, <2>7, <4>1, ReadIsNewest, Zenon
    <3>3. ReadOf(others \cup {new}) = r.val
      <4>1. CASE new.rec = r
        <5>1. \A d \in others \cup {new} : d.rec # NoRecord /\ d # new
                => d.rec.seq \in Nat /\ d.rec.seq < new.rec.seq
          BY <3>1, <4>1, Zenon
        <5> QED BY <1>7, <2>7, <4>1, <5>1, ReadIsNewest, Zenon
      <4>2. CASE new.rec = NoRecord /\ r.val = Tombstone /\ \A c \in O : r.seq < c.rec.seq
        <5>1. {c \in others \cup {new} : c.rec # NoRecord} = {}
          BY <2>10, <4>2, Zenon
        <5> QED BY <4>2, <5>1, Zenon DEF ReadOf
      <4> QED BY <2>6, <4>1, <4>2, Zenon
    <3> QED BY <3>2, <3>3, Zenon DEF Old, new
  <2> QED BY <2>9, <2>10, Zenon
<1> QED BY <1>8, <1>9, Zenon

-----------------------------------------------------------------------------
(* What a read returns.                                                    *)

\* The newest of some versions, if their Seqs differ.
LEMMA NewestIs ==
  ASSUME NEW V \in SUBSET Record, \A r, q \in V : r.seq = q.seq => r = q,
         NEW n \in V, \A q \in V : q.seq <= n.seq
  PROVE  Newest(V) = n
<1>1. Newest(V) \in V /\ \A q \in V : q.seq <= Newest(V).seq
  BY Zenon DEF Newest
<1>2. \A r \in V : r.seq \in Nat
  BY Zenon DEF Record
<1>3. Newest(V).seq = n.seq
  BY <1>1, <1>2
<1> QED BY <1>1, <1>3, Zenon

\* The sources together offer the newest version, whatever their order.
LEMMA ReadNewest ==
  ASSUME NEW Off, NEW V \in SUBSET Record, NEW s \in Nat,
         \A r \in V : r.seq <= s, \A r, q \in V : r.seq = q.seq => r = q,
         \A c \in Off : c.rec # NoRecord => c.rec \in V /\ c.rank \in Nat,
         \A r \in V : \E c \in Off : c.rec # NoRecord /\ r.seq <= c.rec.seq
  PROVE  ReadOf(Off) = ValueOf(Newest(V))
<1> DEFINE C == {c \in Off : c.rec # NoRecord}
<1>1. /\ \A c \in C : c.rec \in V /\ c.rank \in Nat
      /\ \A r \in V : \E c \in C : r.seq <= c.rec.seq
      /\ \A r \in V : r.seq \in Nat
  BY Zenon DEF Record
<1>2. ReadOf(Off) = IF C = {} THEN Tombstone ELSE Best(C).rec.val
  BY Zenon DEF ReadOf
<1> HIDE DEF C
<1>3. CASE V = {}
  <2>1. C = {}
    BY <1>1, <1>3, Zenon
  <2> QED BY <1>2, <1>3, <2>1, Zenon DEF Newest, ValueOf
<1>4. CASE V # {}
  <2>1. PICK n \in V : \A q \in V : q.seq <= n.seq
    BY <1>4, NewestExists, Zenon
  <2>2. Newest(V) = n /\ n # NoRecord
    BY <2>1, NewestIs, NoRecordAssumption, Zenon
  <2>3. \A c \in C : n.seq <= c.rec.seq => c.rec = n
    <3> SUFFICES ASSUME NEW c \in C, n.seq <= c.rec.seq PROVE c.rec = n
      BY Zenon
    <3>1. c.rec \in V /\ c.rec.seq \in Nat /\ n.seq \in Nat /\ c.rec.seq <= n.seq
      BY <1>1, <2>1, Zenon
    <3>2. c.rec.seq = n.seq
      BY <3>1
    <3> QED BY <3>1, <3>2, Zenon
  <2> DEFINE Ranks == {c.rank : c \in {d \in C : d.rec = n}}
  <2>4. Ranks \in SUBSET Nat /\ Ranks # {}
    <3>1. PICK c \in C : c.rec = n
      BY <1>1, <2>3
    <3> QED BY <1>1, <3>1
  <2>5. PICK m \in Ranks : \A y \in Ranks : m <= y
    <3> HIDE DEF Ranks
    <3> QED BY <2>4, LeastExists, Zenon
  <2>6. PICK b \in C : b.rec = n /\ b.rank = m
    BY <2>5, Zenon
  <2>7. \A d \in C : d.rec.seq < n.seq \/ (d.rec.seq = n.seq /\ b.rank <= d.rank)
    <3> SUFFICES ASSUME NEW d \in C PROVE d.rec.seq < n.seq \/ (d.rec.seq = n.seq /\ b.rank <= d.rank)
      BY Zenon
    <3>1. CASE d.rec = n
      BY <2>5, <2>6, <3>1
    <3>2. CASE d.rec # n
      BY <1>1, <2>1, <2>3, <3>2
    <3> QED BY <3>1, <3>2
  <2>8. \A d \in C : b.rec.seq > d.rec.seq \/ (b.rec.seq = d.rec.seq /\ b.rank <= d.rank)
    BY <1>1, <2>6, <2>7, Zenon
  <2>9. Best(C) \in C /\ (Best(C).rec.seq > b.rec.seq \/ Best(C).rec.seq = b.rec.seq)
    <3>1. /\ Best(C) \in C
          /\ \A d \in C : \/ Best(C).rec.seq > d.rec.seq
                          \/ Best(C).rec.seq = d.rec.seq /\ Best(C).rank <= d.rank
      BY <2>6, <2>8, Zenon DEF Best
    <3> QED BY <2>6, <3>1, Zenon
  <2>10. n.seq <= Best(C).rec.seq
    BY <1>1, <2>6, <2>9
  <2>11. Best(C).rec = n /\ C # {}
    BY <2>3, <2>9, <2>10, Zenon
  <2> QED BY <1>2, <2>2, <2>11, Zenon DEF ValueOf
<1> QED BY <1>3, <1>4

\* The versions of a key that a read finds are held and have their own Seqs.
LEMMA VersionsHeld ==
  ASSUME Known, StoreInv, Running, NEW k
  PROVE  /\ VersionsOf(k) \in SUBSET Record
         /\ \A r \in VersionsOf(k) : r \in Held /\ r.seq \in Nat /\ r.seq <= seq
         /\ \A r, q \in VersionsOf(k) : r.seq = q.seq => r = q
<1>1. InTables \subseteq OnFile
  BY SourcesThere, Zenon DEF InTables, OnFile
<1>2. \A r \in VersionsOf(k) : r \in Held
  BY <1>1 DEF VersionsOf, Held
<1>3. Unique
  BY DEF StoreInv
<1> QED BY <1>2, <1>3, Zenon DEF Unique, Record

\* A read that is not pinned returns the newest version, wherever it is.
NewestIsRead == Store = [k \in Keys |-> ValueOf(Newest(VersionsOf(k)))]

LEMMA StoreIs == Known /\ StoreInv /\ Running => NewestIsRead
<1> SUFFICES ASSUME Known, StoreInv, Running, NEW k \in Keys
             PROVE  GetNow(k, UnboundedSeq) = ValueOf(Newest(VersionsOf(k)))
  BY DEF NewestIsRead, Store
<1> DEFINE Off == Offered(mem, imm, GensOf(tables), k, UnboundedSeq)
           V == VersionsOf(k)
           InMem(g) == Candidate(mem - g, MemGet(mts[g].data, k, UnboundedSeq))
           Recs(i) == ssts[tables[i].gen].recs
           InTab(i) == Candidate(mem + i, TableGet(Recs(i), k, UnboundedSeq))
<1>1. Off = {InMem(g) : g \in imm \cup {mem}} \cup {InTab(i) : i \in DOMAIN tables}
  BY Zenon DEF Offered, GensOf
<1>2. /\ V \in SUBSET Record /\ \A r \in V : r.seq \in Nat /\ r.seq <= seq
      /\ \A r, q \in V : r.seq = q.seq => r = q
  BY VersionsHeld, Zenon
<1>3. \A r \in V : r.seq <= UnboundedSeq
  BY <1>2, SourcesThere
<1>4. ASSUME NEW g \in imm \cup {mem}
      PROVE  /\ InMem(g).rec # NoRecord => InMem(g).rec \in V /\ InMem(g).rank \in Nat
             /\ \A r \in RecordsOf(mts[g]) : r.key = k => InMem(g).rec = r
  <2>1. InMem(g).rank = mem - g /\ InMem(g).rec = MemGet(mts[g].data, k, UnboundedSeq)
    BY DEF Candidate
  <2>2. mem - g \in Nat
    BY SourcesThere
  <2>3. mts[g].data[k] # NoRecord => mts[g].data[k] \in V
    <3>1. mts[g].data[k] # NoRecord => mts[g].data[k] \in RecordsOf(mts[g]) /\ mts[g].data[k].key = k
      BY Zenon DEF RecordsOf, StoreInv, Keyed
    <3> QED BY <3>1, Zenon DEF VersionsOf, InMemory
  <2>4. \A r \in RecordsOf(mts[g]) : r.key = k => r = mts[g].data[k] /\ r # NoRecord
    BY Zenon DEF RecordsOf, StoreInv, Keyed
  <2>5. MemGet(mts[g].data, k, UnboundedSeq) = mts[g].data[k]
    BY <1>3, <2>3, Zenon DEF MemGet
  <2> QED BY <2>1, <2>2, <2>3, <2>4, <2>5, Zenon
<1>5. ASSUME NEW i \in DOMAIN tables
      PROVE  /\ InTab(i).rec # NoRecord => InTab(i).rec \in V /\ InTab(i).rank \in Nat
             /\ \A r \in Recs(i) : r.key = k =>
                  InTab(i).rec # NoRecord /\ r.seq <= InTab(i).rec.seq
  <2>1. InTab(i).rank = mem + i /\ InTab(i).rec = TableGet(Recs(i), k, UnboundedSeq)
    BY Zenon DEF Candidate
  <2>2. mem + i \in Nat
    <3>1. mem \in Nat /\ tables \in Seq(TableEntry)
      BY SourcesThere, Zenon
    <3> QED BY <3>1
  <2>3. Recs(i) \in SUBSET Record
    BY SourcesThere, Zenon
  <2>4. \A r \in Recs(i) : r.key = k => r \in V
    BY Zenon DEF VersionsOf, InTables
  <2>5. \A r \in Recs(i) : r.key = k => r \in AtMost(Recs(i), k, UnboundedSeq)
    BY <1>3, <2>4, Zenon DEF AtMost
  <2>6. AtMost(Recs(i), k, UnboundedSeq) = {} => InTab(i).rec = NoRecord
    BY <2>1, Zenon DEF TableGet, Newest
  <2>7. AtMost(Recs(i), k, UnboundedSeq) # {} =>
          /\ InTab(i).rec \in AtMost(Recs(i), k, UnboundedSeq)
          /\ \A q \in AtMost(Recs(i), k, UnboundedSeq) : q.seq <= InTab(i).rec.seq
    <3>1. UnboundedSeq \in Nat
      BY SourcesThere
    <3> HIDE DEF Recs, InTab
    <3> QED BY <2>1, <2>3, <3>1, TableGetNewest, Zenon
  <2>8. \A r \in AtMost(Recs(i), k, UnboundedSeq) : r \in V /\ r # NoRecord
    BY <2>3, <2>4, NoRecordAssumption, Zenon DEF AtMost
  <2> HIDE DEF Recs, InTab, V
  <2> QED BY <2>1, <2>2, <2>5, <2>6, <2>7, <2>8, Zenon
<1> HIDE DEF InMem, InTab
<1>6. \A c \in Off : c.rec # NoRecord => c.rec \in V /\ c.rank \in Nat
  BY <1>1, <1>4, <1>5, Zenon
<1>7. \A r \in V : \E c \in Off : c.rec # NoRecord /\ r.seq <= c.rec.seq
  <2> SUFFICES ASSUME NEW r \in V PROVE \E c \in Off : c.rec # NoRecord /\ r.seq <= c.rec.seq
    BY Zenon
  <2>1. CASE r \in InMemory
    <3>1. PICK g \in imm \cup {mem} : r \in RecordsOf(mts[g])
      BY <2>1 DEF InMemory
    <3>2. r.key = k /\ r \in Record /\ r.seq <= r.seq
      BY <1>2 DEF VersionsOf
    <3>3. InMem(g).rec = r /\ InMem(g) \in Off
      BY <1>1, <1>4, <3>1, <3>2, Zenon
    <3> QED BY <3>2, <3>3, NoRecordAssumption, Zenon
  <2>2. CASE r \in InTables
    <3>1. PICK i \in DOMAIN tables : r \in Recs(i)
      BY <2>2 DEF InTables
    <3>2. r.key = k /\ InTab(i) \in Off
      BY <1>1 DEF VersionsOf
    <3> QED BY <1>5, <3>1, <3>2, Zenon
  <2> QED BY <2>1, <2>2, Zenon DEF VersionsOf
<1> HIDE DEF Off, V
<1>8. ReadOf(Off) = ValueOf(Newest(V))
  BY <1>2, <1>3, <1>6, <1>7, SourcesThere, ReadNewest, Zenon
<1> QED BY <1>8 DEF GetNow, ReadAt, Off, V

\* The store is the same if the versions to be found are.
LEMMA StoreSame ==
  ASSUME Known, StoreInv, Running, Known', StoreInv', Running',
         \A k \in Keys : ValueOf(Newest(VersionsOf(k)')) = ValueOf(Newest(VersionsOf(k)))
  PROVE  Store' = Store
<1>1. Known' /\ StoreInv' /\ Running' => NewestIsRead'
  BY StoreIs, PTL
<1> QED BY <1>1, StoreIs, Zenon DEF NewestIsRead

-----------------------------------------------------------------------------
(* What a step leaves alone.                                               *)

\* The tables in the making.
LEMMA MakingKept ==
  ASSUME StoreInv,
         fl'.pc = "commit" => UNCHANGED fl /\ mts'[fl.job] = mts[fl.job] /\ ssts'[fl.gen] = ssts[fl.gen],
         cp'.pc = "commit" => \/ cp'.result = "failed"
                              \/ /\ UNCHANGED cp
                                 /\ \A i \in DOMAIN cp.inputs : ssts'[cp.inputs[i]] = ssts[cp.inputs[i]]
                                 /\ cp.result = "ok" => ssts'[cp.gen] = ssts[cp.gen]
  PROVE  Flushed' /\ Merged'
<1>1. Flushed /\ Merged
  BY Zenon DEF StoreInv
<1>2. Flushed'
  BY <1>1, Zenon DEF Flushed
<1>3. ASSUME UNCHANGED cp, cp.pc = "commit",
             \A i \in DOMAIN cp.inputs : ssts'[cp.inputs[i]] = ssts[cp.inputs[i]],
             cp.result = "ok" => ssts'[cp.gen] = ssts[cp.gen]
      PROVE  Merged'
  <2>1. InputRecords' = InputRecords
    BY <1>3, Zenon DEF InputRecords
  <2> QED BY <1>1, <1>3, <2>1, Zenon DEF Merged
<1>4. cp'.result = "failed" \/ cp'.pc # "commit" => Merged'
  BY Zenon DEF Merged
<1> QED BY <1>2, <1>3, <1>4, Zenon

\* Steps that put nothing new into memory, and into files what is held.
LEMMA HeldMoves ==
  ASSUME StoreInv, Running, Running', Keyed', InMemory' \subseteq InMemory, UNCHANGED seq,
         \A w \in Writers : Pending(w)' => Pending(w) /\ wr'[w].rec = wr[w].rec,
         \A r \in OnFile' : \/ r \in OnFile
                            \/ /\ r \in InMemory
                               /\ \A w \in Writers : Pending(w)' => r.seq < wr[w].rec.seq,
         Flushed', Merged'
  PROVE  StoreInv'
<1>1. Unique /\ Ahead
  BY Zenon DEF StoreInv
<1>2. Blank'
  BY Zenon DEF Blank
<1>3. InHand' \subseteq InHand
  BY Zenon DEF InHand
<1>4. Held' \subseteq Held
  BY <1>3, Zenon DEF Held
<1>5. Unique'
  BY <1>1, <1>4, Zenon DEF Unique
<1>6. Ahead'
  BY <1>1, Zenon DEF Ahead
<1> QED BY <1>2, <1>5, <1>6, Zenon DEF StoreInv

\* Steps that leave the MemTables alone.
LEMMA HeldKept ==
  ASSUME StoreInv, Running, Running', UNCHANGED <<seq, mem, imm, mts>>,
         \A w \in Writers : Pending(w)' => Pending(w) /\ wr'[w].rec = wr[w].rec,
         \A r \in OnFile' : \/ r \in OnFile
                            \/ /\ r \in InMemory
                               /\ \A w \in Writers : Pending(w)' => r.seq < wr[w].rec.seq,
         Flushed', Merged'
  PROVE  StoreInv'
<1>1. Keyed
  BY Zenon DEF StoreInv
<1>2. Keyed'
  BY <1>1, Zenon DEF Keyed
<1>3. InMemory' = InMemory
  BY Zenon DEF InMemory
<1> QED BY <1>2, <1>3, HeldMoves, Zenon

\* Steps that leave the MemTables, the list and the files alone.
LEMMA QuietStep ==
  ASSUME Known, Known', StoreInv, Running, Running', UNCHANGED <<seq, mem, imm, mts, tables, ssts>>,
         \A w \in Writers : Pending(w)' => Pending(w) /\ wr'[w].rec = wr[w].rec,
         fl'.pc = "commit" => UNCHANGED fl,
         cp'.pc = "commit" => UNCHANGED cp \/ cp'.result = "failed"
  PROVE  StoreInv' /\ Store' = Store
<1>1. Flushed' /\ Merged'
  BY MakingKept, Zenon
<1>2. OnFile' = OnFile
  BY Zenon DEF OnFile
<1>3. StoreInv'
  BY <1>1, <1>2, HeldKept, Zenon
<1>4. InMemory' = InMemory /\ InTables' = InTables
  BY DEF InMemory, InTables
<1>5. \A k \in Keys : VersionsOf(k)' = VersionsOf(k)
  BY <1>4, Zenon DEF VersionsOf
<1> QED BY <1>3, <1>5, StoreSame, Zenon

\* Before Open returns there is nothing to be found.
NothingIsRead == Store = [k \in Keys |-> Tombstone]

LEMMA LoggedNothing ==
  ASSUME DOMAIN wals = {}, NEW k PROVE Logged(k) = NoRecord
<1> DEFINE Slots == UNION {{<<g, i>> : i \in DOMAIN wals[g].recs} : g \in DOMAIN wals}
           At == {p \in Slots : wals[p[1]].recs[p[2]].key = k}
<1>1. \A p : p \notin Slots
  BY Zenon
<1>2. At = {}
  BY <1>1, Zenon
<1> QED BY <1>2, Zenon DEF Logged

LEMMA StoreBlank == StoreInv /\ ~Running => NothingIsRead
<1> SUFFICES ASSUME StoreInv, ~Running, NEW k \in Keys PROVE GetFromDisk(k) = Tombstone
  BY Zenon DEF NothingIsRead, Store
<1>1. DOMAIN ssts = {} /\ DOMAIN wals = {}
  BY Zenon DEF StoreInv, Blank
<1>2. Logged(k) = NoRecord
  BY <1>1, LoggedNothing
<1> DEFINE newGen == Max({0} \cup DOMAIN ssts) + 1
           Off == {Candidate(newGen, Logged(k))} \cup
                    {Candidate(g, TableGet(ssts[g].recs, k, UnboundedSeq)) : g \in DOMAIN ssts}
<1>3. {c \in Off : c.rec # NoRecord} = {}
  <2>1. Candidate(newGen, Logged(k)).rec = NoRecord
    BY <1>2, Zenon DEF Candidate
  <2>2. \A c \in Off : c = Candidate(newGen, Logged(k))
    BY <1>1, Zenon
  <2> QED BY <2>1, <2>2, Zenon
<1>4. GetFromDisk(k) = ReadOf(Off)
  BY Zenon DEF GetFromDisk
<1> QED BY <1>3, <1>4, Zenon DEF ReadOf

\* Nothing is held before Open returns.
LEMMA DownStep ==
  ASSUME Known', StoreInv, ~Running, ~Running',
         DOMAIN ssts' = {}, DOMAIN wals' = {}, tables' = <<>>
  PROVE  StoreInv' /\ Store' = Store
<1>1. Blank' /\ Keyed' /\ Unique' /\ Ahead'
  BY Zenon DEF Blank, Keyed, Unique, Ahead
<1>2. fl' = IdleFlush /\ cp' = IdleCompaction
  BY Zenon DEF Known, IInv, Quiet, FileInv, Stages, Running
<1>3. Flushed' /\ Merged'
  BY <1>2, Zenon DEF Flushed, Merged, IdleFlush, IdleCompaction
<1>4. StoreInv'
  BY <1>1, <1>3, Zenon DEF StoreInv
<1>5. StoreInv' /\ ~Running' => NothingIsRead'
  BY StoreBlank, PTL
<1> QED BY <1>4, <1>5, StoreBlank, Zenon DEF NothingIsRead

\* The steps of Put and Delete beside the Seq, the MemTable and its rotation.
LEMMA WriterQuiet ==
  ASSUME Known, Known', StoreInv, NEW w \in Writers,
         \/ WriteAppend(w) \/ WriteAppendError(w) \/ WriteCheck(w)
         \/ RotateSkip(w) \/ RotateError(w) \/ RotateSend(w)
  PROVE  StoreInv' /\ Store' = Store
<1>1. WriterNext
  BY Zenon DEF WriterNext
<1>2. Running /\ UNCHANGED <<phase, tables, ssts, fl, cp>>
  BY <1>1, ActorsRun, WriterTouches DEF Known, lifeVars, tblVars
<1>3. Running'
  BY <1>2 DEF Running
<1>4. UNCHANGED <<seq, mem, imm, mts>>
  BY Zenon DEF WriteAppend, WriteAppendError, WriteCheck, RotateSkip, RotateError, RotateSend, memVars
<1>5. wr \in [Writers -> [pc : WriterPCs, rec : Entry, job : Nat]]
  BY Zenon DEF Known, IInv, Typed
<1>6. \A u \in Writers : u # w => wr'[u] = wr[u]
  BY <1>5, Zenon DEF WriteAppend, WriteAppendError, WriteCheck, RotateSkip, RotateError, RotateSend
<1>7. Pending(w)' => Pending(w) /\ wr'[w].rec = wr[w].rec
  <2>1. CASE WriteAppend(w)
    BY <1>5, <2>1 DEF WriteAppend, Pending
  <2>2. ASSUME ~WriteAppend(w) PROVE wr'[w].pc \in {"idle", "rotate"}
    BY <1>5, <2>2 DEF WriteAppendError, WriteCheck, RotateSkip, RotateError, RotateSend, IdleWriter
  <2> QED BY <2>1, <2>2, Zenon DEF Pending
<1>8. \A u \in Writers : Pending(u)' => Pending(u) /\ wr'[u].rec = wr[u].rec
  BY <1>6, <1>7, Zenon DEF Pending
<1> QED BY <1>2, <1>3, <1>4, <1>8, QuietStep, Zenon

\* The steps of the workers beside those that change a file or the list.
LEMMA WorkerQuiet ==
  ASSUME Known, Known', StoreInv,
         \/ FlushTake \/ FlushStop \/ FlushRemoveWAL \/ FlushTrigger
         \/ CompactionWake \/ CompactionStop \/ CompactionPick \/ CompactionPin
         \/ CompactionMergeError \/ CompactionChain
  PROVE  StoreInv' /\ Store' = Store
<1>1. FlushNext \/ CompactionNext
  BY Zenon DEF FlushNext, CompactionNext
<1>2. phase \in {"up", "closing"} /\ UNCHANGED phase
  BY <1>1, WorkersRun, FlushTouches, CompactionTouches, Zenon DEF Known, FileInv, lifeVars
<1>3. Running /\ Running'
  BY <1>2 DEF Running
<1>4. UNCHANGED <<seq, mem, imm, mts, tables, ssts, wr>>
  BY Zenon DEF FlushTake, FlushStop, FlushRemoveWAL, FlushTrigger, CompactionWake, CompactionStop,
        CompactionPick, CompactionPin, CompactionMergeError, CompactionChain, memVars, tblVars, diskVars
<1>5. \A u \in Writers : Pending(u)' => Pending(u) /\ wr'[u].rec = wr[u].rec
  BY <1>4, Zenon DEF Pending
<1>6. fl \in [pc : FlushPCs, job : Nat, gen : Nat] /\ DOMAIN cp = CompactionFields
  BY Zenon DEF Known, IInv, Typed
<1>7. CASE FlushTake \/ FlushStop \/ FlushRemoveWAL \/ FlushTrigger
  <2>1. UNCHANGED cp
    BY <1>7, FlushTouches, Zenon DEF FlushNext
  <2>2. fl'.pc # "commit"
    BY <1>6, <1>7 DEF FlushTake, FlushStop, FlushRemoveWAL, FlushTrigger, IdleFlush
  <2> QED BY <1>3, <1>4, <1>5, <2>1, <2>2, QuietStep, Zenon
<1>8. CASE \/ CompactionWake \/ CompactionStop \/ CompactionPick \/ CompactionPin
           \/ CompactionMergeError \/ CompactionChain
  <2>1. UNCHANGED fl
    BY <1>8, CompactionTouches, Zenon DEF CompactionNext
  <2>2. CASE CompactionMergeError
    <3>1. cp'.result = "failed"
      BY <1>6, <2>2 DEF CompactionMergeError, CompactionFields
    <3> QED BY <1>3, <1>4, <1>5, <2>1, <3>1, QuietStep, Zenon
  <2>3. CASE CompactionWake \/ CompactionStop \/ CompactionPick \/ CompactionPin \/ CompactionChain
    <3>1. CompactionPin => cp'.pc = "merge"
      BY <1>6 DEF CompactionPin, CompactionFields
    <3>2. CompactionWake \/ CompactionStop \/ CompactionChain => cp'.pc # "commit"
      BY DEF CompactionWake, CompactionStop, CompactionChain, IdleCompaction
    <3>3. CompactionPick => cp'.pc \in {"idle", "pin"}
      BY DEF CompactionPick, IdleCompaction
    <3>4. cp'.pc # "commit"
      BY <2>3, <3>1, <3>2, <3>3
    <3> QED BY <1>3, <1>4, <1>5, <2>1, <3>4, QuietStep, Zenon
  <2> QED BY <1>8, <2>2, <2>3
<1> QED BY <1>7, <1>8

\* The versions of a key are those of the MemTables and of the listed files.
LEMMA SourcesSame ==
  ASSUME UNCHANGED <<mem, imm, mts, tables>>,
         \A i \in DOMAIN tables : ssts'[tables[i].gen] = ssts[tables[i].gen]
  PROVE  \A k \in Keys : VersionsOf(k)' = VersionsOf(k)
<1>1. InMemory' = InMemory
  BY DEF InMemory
<1>2. InTables' = InTables
  BY DEF InTables
<1> QED BY <1>1, <1>2, Zenon DEF VersionsOf

\* Giving up a reference deletes no file that is listed or about to be.
LEMMA ReleaseStep ==
  ASSUME Known, Known', StoreInv, Running, Running',
         UNCHANGED <<seq, mem, imm, mts, tables, fl, wr>>, cp'.pc = "commit" => UNCHANGED cp,
         NEW g, NEW retire \in BOOLEAN, Release(g, retire)
  PROVE  StoreInv' /\ Store' = Store
<1>1. \A h \in DOMAIN ssts' : h \in DOMAIN ssts /\ ssts'[h] = ssts[h]
  <2>1. TableTypes
    BY DEF Known, Types
  <2> QED BY <2>1, ReleaseEffect, Zenon
<1>2. /\ \A h : InList(h)' => h \in DOMAIN ssts'
      /\ fl'.pc = "commit" => fl'.gen \in DOMAIN ssts'
      /\ cp'.pc = "commit" /\ cp'.result = "ok" => cp'.gen \in DOMAIN ssts'
      /\ cp'.pc \in {"pin", "merge", "commit"} => \A h : Input(h)' => InList(h)'
  BY Zenon DEF Known, FileInv, Shelved
<1>3. \A i \in DOMAIN tables : ssts'[tables[i].gen] = ssts[tables[i].gen]
  BY <1>1, <1>2, Zenon DEF InList
<1>4. cp'.pc = "commit" => \A i \in DOMAIN cp.inputs : ssts'[cp.inputs[i]] = ssts[cp.inputs[i]]
  <2> SUFFICES ASSUME cp'.pc = "commit", NEW i \in DOMAIN cp.inputs
               PROVE  ssts'[cp.inputs[i]] = ssts[cp.inputs[i]]
    BY Zenon
  <2>1. Input(cp.inputs[i])'
    BY Zenon DEF Input
  <2>2. cp.inputs[i] \in DOMAIN ssts'
    BY <1>2, <2>1, Zenon
  <2> QED BY <1>1, <2>2, Zenon
<1>5. Flushed' /\ Merged'
  BY <1>1, <1>2, <1>4, MakingKept, Zenon
<1>6. \A w \in Writers : Pending(w)' => Pending(w) /\ wr'[w].rec = wr[w].rec
  BY Zenon DEF Pending
<1>7. OnFile' \subseteq OnFile
  BY <1>1, Zenon DEF OnFile
<1>8. StoreInv'
  BY <1>5, <1>6, <1>7, HeldKept, Zenon
<1>9. \A k \in Keys : VersionsOf(k)' = VersionsOf(k)
  BY <1>3, SourcesSame, Zenon
<1> QED BY <1>8, <1>9, StoreSame, Zenon

LEMMA RetireStep ==
  ASSUME Known, Known', StoreInv, CompactionRetire
  PROVE  StoreInv' /\ Store' = Store
<1>1. phase \in {"up", "closing"} /\ UNCHANGED phase
  BY WorkersRun, CompactionTouches DEF Known, FileInv, lifeVars, CompactionNext
<1>2. Running /\ Running'
  BY <1>1 DEF Running
<1>3. UNCHANGED <<seq, mem, imm, mts, tables, fl, wr>> /\ Release(Head(cp.inputs), TRUE)
  BY Zenon DEF CompactionRetire, memVars
<1>4. DOMAIN cp = CompactionFields
  BY Zenon DEF Known, IInv, Typed
<1>5. cp'.pc # "commit"
  BY <1>4 DEF CompactionRetire, CompactionFields
<1> QED BY <1>2, <1>3, <1>5, ReleaseStep, Zenon

LEMMA ReaderStep ==
  ASSUME Known, Known', StoreInv, ReaderNext
  PROVE  StoreInv' /\ Store' = Store
<1>1. UNCHANGED <<phase, tables, wals, fl, cp>>
  BY ReaderTouches, Zenon DEF lifeVars
<1>2. PICK r \in Readers :
        \/ \E k \in Keys : Get(r, k)
        \/ Scan(r)
        \/ \E s \in Snapshots : SnapshotScan(r, s)
        \/ ReadResolve(r) \/ ReadRelease(r) \/ ReadReturn(r)
  BY Zenon DEF ReaderNext
<1>3. Running /\ Running'
  <2>1. phase \in {"down", "recovering"} => rd[r] = IdleReader
    BY Zenon DEF Known, FileInv, Stages
  <2>2. phase = "up" \/ rd[r].pc = "read" \/ rd[r].pc = "release"
    BY <1>2, Zenon DEF Get, Scan, SnapshotScan, ReadBegin, ReadResolve, ReadRelease, ReadReturn
  <2>3. IdleReader.pc = "idle"
    BY Zenon DEF IdleReader
  <2>4. phase \notin {"down", "recovering"}
    BY <2>1, <2>2, <2>3
  <2> QED BY <1>1, <2>4, Zenon DEF Running
<1>4. \A u \in Writers : UNCHANGED wr => (Pending(u)' => Pending(u) /\ wr'[u].rec = wr[u].rec)
  BY Zenon DEF Pending
<1>5. CASE ReadRelease(r)
  <2>1. UNCHANGED <<seq, mem, imm, mts, wr>> /\ Release(Head(rd[r].tbs), FALSE)
    BY <1>5, Zenon DEF ReadRelease, memVars
  <2> QED BY <1>1, <1>3, <2>1, ReleaseStep, Zenon
<1>6. CASE ~ReadRelease(r)
  <2>1. UNCHANGED <<seq, mem, imm, mts, wr, ssts>>
    BY <1>2, <1>6, Zenon DEF Get, Scan, SnapshotScan, ReadBegin, ReadResolve, ReadReturn, memVars, diskVars
  <2> QED BY <1>1, <1>3, <1>4, <2>1, QuietStep, Zenon
<1> QED BY <1>5, <1>6

\* The steps of the snapshots and those of Close beside its flush, and no step.
LEMMA OtherStep ==
  ASSUME Known, Known', StoreInv,
         \/ SnapshotNext \/ UNCHANGED vars
         \/ CloseBegin \/ CloseWALError \/ CloseFinish
  PROVE  StoreInv' /\ Store' = Store
<1>1. UNCHANGED <<seq, mem, imm, mts, wr, tables, ssts, fl, cp>>
  BY Zenon DEF SnapshotNext, SnapshotLoad, SnapshotRegister, SnapshotClose, vars, CloseBegin,
        CloseWALError, CloseFinish, memVars, tblVars, diskVars
<1>2. \A u \in Writers : Pending(u)' => Pending(u) /\ wr'[u].rec = wr[u].rec
  BY <1>1, Zenon DEF Pending
<1>3. \/ Running /\ Running'
      \/ ~Running /\ ~Running' /\ UNCHANGED wals
  <2>1. SnapshotNext \/ UNCHANGED vars => UNCHANGED <<phase, wals>>
    BY SnapshotTouches, Zenon DEF lifeVars, diskVars, vars
  <2>2. CloseBegin \/ CloseWALError \/ CloseFinish =>
          phase \in {"up", "locked"} /\ phase' \in {"closing", "closed"}
    BY Zenon DEF CloseBegin, CloseWALError, CloseFinish
  <2>3. CASE SnapshotNext \/ UNCHANGED vars
    BY <2>1, <2>3, Zenon DEF Running
  <2>4. CASE CloseBegin \/ CloseWALError \/ CloseFinish
    BY <2>2, <2>4 DEF Running
  <2> QED BY <2>3, <2>4
<1>4. CASE Running /\ Running'
  BY <1>1, <1>2, <1>4, QuietStep, Zenon
<1>5. CASE ~Running /\ ~Running' /\ UNCHANGED wals
  <2>1. DOMAIN ssts' = {} /\ DOMAIN wals' = {} /\ tables' = <<>>
    BY <1>1, <1>5, Zenon DEF StoreInv, Blank
  <2> QED BY <1>5, <2>1, DownStep, Zenon
<1> QED BY <1>3, <1>4, <1>5, Zenon

-----------------------------------------------------------------------------
(* The steps that write a file.                                            *)

\* A new file holds what is held already.
LEMMA FileAdded ==
  ASSUME Known, Known', StoreInv, Running, Running', UNCHANGED <<seq, mem, imm, mts, tables>>,
         \A w \in Writers : Pending(w)' => Pending(w) /\ wr'[w].rec = wr[w].rec,
         NEW x, NEW file, ~InList(x), UNCHANGED ssts \/ ssts' = With(ssts, x, file),
         \A r \in file.recs : \/ r \in OnFile
                              \/ /\ r \in InMemory
                                 /\ \A w \in Writers : Pending(w)' => r.seq < wr[w].rec.seq,
         Flushed', Merged'
  PROVE  StoreInv' /\ Store' = Store
<1>1. \A h \in DOMAIN ssts : h # x => ssts'[h] = ssts[h]
  BY Zenon DEF With
<1>2. \A h \in DOMAIN ssts' : ssts'[h] = file \/ (h \in DOMAIN ssts /\ ssts'[h] = ssts[h])
  BY Zenon DEF With
<1>3. \A r \in OnFile' : r \in OnFile \/ r \in file.recs
  BY <1>2, Zenon DEF OnFile
<1>4. StoreInv'
  BY <1>3, HeldKept, Zenon
<1>5. \A i \in DOMAIN tables : tables[i].gen \in DOMAIN ssts /\ tables[i].gen # x
  BY SourcesThere, Zenon DEF InList
<1>6. \A i \in DOMAIN tables : ssts'[tables[i].gen] = ssts[tables[i].gen]
  BY <1>1, <1>5, Zenon
<1>7. \A k \in Keys : VersionsOf(k)' = VersionsOf(k)
  BY <1>6, SourcesSame, Zenon
<1> QED BY <1>4, <1>7, StoreSame, Zenon

\* What is being flushed is older than every write under way.
LEMMA FlushedOlder ==
  ASSUME Known, Running, fl.pc \in {"write", "commit"}, NEW r \in RecordsOf(mts[fl.job])
  PROVE  /\ fl.job \in imm /\ r \in InMemory
         /\ \A w \in Writers : Pending(w) => r.seq < wr[w].rec.seq
<1>1. fl.job \in imm
  BY Zenon DEF Known, JobsInv, Owners
<1>2. r \in InMemory
  BY <1>1, Zenon DEF InMemory
<1>3. Ordering
  BY Zenon DEF Known, IInv
<1> QED BY <1>1, <1>2, <1>3, Zenon DEF Ordering, Pending

\* doFlush writes the table.
LEMMA FlushWriteStep ==
  ASSUME Known, Known', StoreInv, FlushWrite \/ FlushError
  PROVE  StoreInv' /\ Store' = Store
<1>1. FlushNext
  BY Zenon DEF FlushNext
<1>2. phase \in {"up", "closing"} /\ UNCHANGED <<phase, cp>>
  BY <1>1, WorkersRun, FlushTouches DEF Known, FileInv, lifeVars
<1>3. Running /\ Running'
  BY <1>2 DEF Running
<1>4. /\ UNCHANGED <<seq, mem, imm, mts, tables, wr>> /\ fl.pc = "write"
      /\ UNCHANGED ssts \/ ssts' = FlushFile
  BY Zenon DEF FlushWrite, FlushError, memVars, tblVars
<1>5. fl \in [pc : FlushPCs, job : Nat, gen : Nat]
  BY Zenon DEF Known, IInv, Typed
<1> DEFINE file == [level |-> 0, recs |-> RecordsOf(mts[fl.job])]
<1>6. ssts' = ssts \/ ssts' = With(ssts, fl.gen, file)
  BY <1>4, Zenon DEF FlushFile
<1>7. file.recs = RecordsOf(mts[fl.job])
  BY Zenon
<1>8. /\ ~InList(fl.gen) /\ ~Input(fl.gen) /\ (cp.pc = "commit" => cp.gen # fl.gen)
      /\ \A g : InList(g) => g \in DOMAIN ssts
      /\ cp.pc = "commit" => \A g : Input(g) => InList(g)
      /\ cp.pc = "commit" /\ cp.result = "ok" => cp.gen \in DOMAIN ssts
  BY <1>4, Zenon DEF Known, FileInv, Fresh, Shelved
<1> HIDE DEF file
<1>9. \A h \in DOMAIN ssts : h # fl.gen => ssts'[h] = ssts[h]
  BY <1>6 DEF With
<1>10. Merged'
  <2>1. cp.pc = "commit" => \A i \in DOMAIN cp.inputs : ssts'[cp.inputs[i]] = ssts[cp.inputs[i]]
    <3>1. \A i \in DOMAIN cp.inputs : Input(cp.inputs[i])
      BY Zenon DEF Input
    <3> QED BY <1>8, <1>9, <3>1, Zenon
  <2>2. cp.pc = "commit" => InputRecords' = InputRecords
    BY <1>2, <2>1, Zenon DEF InputRecords
  <2>3. Merged
    BY Zenon DEF StoreInv
  <2>4. cp.pc = "commit" /\ cp.result = "ok" => ssts'[cp.gen] = ssts[cp.gen]
    BY <1>8, <1>9, Zenon
  <2> QED BY <1>2, <2>2, <2>3, <2>4, Zenon DEF Merged
<1>11. Flushed'
  <2>1. CASE FlushWrite
    <3>1. ssts' = With(ssts, fl.gen, file)
      BY <2>1, Zenon DEF FlushWrite, FlushFile, file
    <3>2. ssts'[fl.gen].recs = RecordsOf(mts[fl.job])
      BY <1>7, <3>1, Zenon DEF With
    <3>3. fl'.gen = fl.gen /\ fl'.job = fl.job
      BY <1>5, <2>1 DEF FlushWrite
    <3> QED BY <1>4, <3>2, <3>3, Zenon DEF Flushed
  <2>2. CASE FlushError
    BY <2>2, Zenon DEF FlushError, IdleFlush, Flushed
  <2> QED BY <2>1, <2>2
<1>12. \A w \in Writers : Pending(w)' => Pending(w) /\ wr'[w].rec = wr[w].rec
  BY <1>4, Zenon DEF Pending
<1>13. \A r \in file.recs : /\ r \in InMemory
                            /\ \A w \in Writers : Pending(w)' => r.seq < wr[w].rec.seq
  BY <1>3, <1>4, <1>7, <1>12, FlushedOlder, Zenon
<1> QED BY <1>3, <1>4, <1>6, <1>8, <1>10, <1>11, <1>12, <1>13, FileAdded, Zenon

\* sstable.Merge writes the output.
LEMMA MergeStep ==
  ASSUME Known, Known', StoreInv, CompactionMerge
  PROVE  StoreInv' /\ Store' = Store
<1>1. phase \in {"up", "closing"} /\ UNCHANGED <<phase, fl>>
  BY WorkersRun, CompactionTouches, Zenon DEF Known, FileInv, lifeVars, CompactionNext
<1>2. Running /\ Running'
  BY <1>1 DEF Running
<1>3. UNCHANGED <<seq, mem, imm, mts, tables, wr>> /\ cp.pc = "merge"
  BY Zenon DEF CompactionMerge, memVars, tblVars
<1>4. PICK R \in SUBSET Pool(InputRecords) :
        /\ IsMerge(R, InputRecords, cp.min, cp.bottom)
        /\ ssts' = IF R = {} THEN ssts
                   ELSE With(ssts, cp.gen, [level |-> cp.target, recs |-> R])
        /\ cp' = [cp EXCEPT !.pc = "commit", !.result = IF R = {} THEN "empty" ELSE "ok"]
  BY Zenon DEF CompactionMerge
<1> DEFINE file == [level |-> cp.target, recs |-> R]
<1>5. ssts' = ssts \/ ssts' = With(ssts, cp.gen, file)
  BY <1>4, Zenon
<1>6. file.recs = R
  BY Zenon
<1>7. /\ cp'.inputs = cp.inputs /\ cp'.min = cp.min /\ cp'.bottom = cp.bottom
      /\ cp'.gen = cp.gen /\ cp'.result = IF R = {} THEN "empty" ELSE "ok"
  <2>1. DOMAIN cp = CompactionFields
    BY Zenon DEF Known, IInv, Typed
  <2> QED BY <1>4, <2>1 DEF CompactionFields
<1>8. \A i \in DOMAIN cp.inputs : cp.inputs[i] \in DOMAIN ssts /\ cp.inputs[i] # cp.gen
  BY <1>3, InputsOnFile, Zenon
<1> HIDE DEF file
<1>9. \A h \in DOMAIN ssts : h # cp.gen => ssts'[h] = ssts[h]
  BY <1>5 DEF With
<1>10. Merged'
  <2>1. InputRecords' = InputRecords
    BY <1>7, <1>8, <1>9, Zenon DEF InputRecords
  <2>2. R # {} => ssts'[cp.gen].recs = R
    <3>1. R # {} => ssts' = With(ssts, cp.gen, file)
      BY <1>4, Zenon DEF file
    <3> QED BY <1>6, <3>1, Zenon DEF With
  <2>3. CASE R = {}
    BY <1>4, <1>7, <2>1, <2>3 DEF Merged
  <2>4. CASE R # {}
    BY <1>4, <1>7, <2>1, <2>2, <2>4 DEF Merged
  <2> QED BY <2>3, <2>4
<1>11. Flushed'
  <2>1. fl.pc = "commit" => fl.gen # cp.gen /\ fl.gen \in DOMAIN ssts
    BY <1>3, Zenon DEF Known, FileInv, Fresh, Shelved
  <2>2. Flushed
    BY DEF StoreInv
  <2> QED BY <1>1, <1>3, <1>9, <2>1, <2>2, Zenon DEF Flushed
<1>12. \A w \in Writers : Pending(w)' => Pending(w) /\ wr'[w].rec = wr[w].rec
  BY <1>3, Zenon DEF Pending
<1>13. \A r \in file.recs : r \in OnFile
  BY <1>3, <1>4, <1>6, InputsOnFile, Zenon
<1>14. ~InList(cp.gen)
  BY <1>3, Zenon DEF Known, FileInv, Fresh
<1> QED BY <1>2, <1>3, <1>5, <1>10, <1>11, <1>12, <1>13, <1>14, FileAdded, Zenon

\* The final flush of Close, and its failure.
LEMMA CloseFlushStep ==
  ASSUME Known, Known', StoreInv, CloseFlush \/ CloseFlushError
  PROVE  StoreInv' /\ Store' = Store
<1> DEFINE new == genCounter + 1
           file == [level |-> 0, recs |-> RecordsOf(mts[mem])]
<1>1. /\ UNCHANGED <<seq, mem, imm, mts, wr, fl, cp>> /\ WorkersExited /\ LockFree
      /\ phase = "closing" /\ phase' \in {"locked", "closed"}
  BY Zenon DEF CloseFlush, CloseFlushError, memVars
<1>2. Running /\ Running'
  BY <1>1 DEF Running
<1>3. ssts' = ssts \/ ssts' = With(ssts, new, file)
  BY Zenon DEF CloseFlush, CloseFlushError
<1>4. \/ tables' = tables
      \/ tables' = Append(tables, [level |-> 0, gen |-> new]) /\ ssts' = With(ssts, new, file)
  BY Zenon DEF CloseFlush, CloseFlushError, tblVars
<1>5. file.recs = RecordsOf(mts[mem]) /\ \A r \in file.recs : r \in InMemory
  BY Zenon DEF InMemory
<1>6. \A w \in Writers : ~Pending(w) /\ ~Pending(w)'
  BY <1>1, Zenon DEF LockFree, HoldsRLock, Pending
<1>7. ~InList(new)
  BY <1>1, NextName, Zenon
<1>8. Flushed' /\ Merged'
  BY <1>1, Zenon DEF WorkersExited, Flushed, Merged
<1> HIDE DEF new, file
<1>9. CASE tables' = tables
  BY <1>1, <1>2, <1>3, <1>5, <1>6, <1>7, <1>8, <1>9, FileAdded, Zenon
<1>10. CASE tables' = Append(tables, [level |-> 0, gen |-> new]) /\ ssts' = With(ssts, new, file)
  <2>1. \A h \in DOMAIN ssts' : ssts'[h] = file \/ (h \in DOMAIN ssts /\ ssts'[h] = ssts[h])
    BY <1>10, Zenon DEF With
  <2>2. \A r \in OnFile' : r \in OnFile \/ r \in InMemory
    BY <1>5, <2>1, Zenon DEF OnFile
  <2>3. StoreInv'
    BY <1>1, <1>2, <1>6, <1>8, <2>2, HeldKept, Zenon
  <2>4. InMemory' = InMemory
    BY <1>1 DEF InMemory
  <2>5. \A h \in DOMAIN ssts : h # new => ssts'[h] = ssts[h]
    BY <1>10 DEF With
  <2>6. tables \in Seq(TableEntry) /\ \A i \in DOMAIN tables : tables[i].gen \in DOMAIN ssts /\ tables[i].gen # new
    BY <1>2, <1>7, SourcesThere, Zenon DEF InList
  <2>7. /\ \A i \in DOMAIN tables : i \in DOMAIN tables' /\ tables'[i] = tables[i]
        /\ \A i \in DOMAIN tables' : (i \in DOMAIN tables /\ tables'[i] = tables[i]) \/ tables'[i].gen = new
    BY <1>10, <2>6
  <2>8. ssts'[new].recs \subseteq InMemory
    BY <1>5, <1>10, Zenon DEF With
  <2>9. InTables \subseteq InTables' /\ InTables' \subseteq InTables \cup InMemory
    <3>1. \A i \in DOMAIN tables : ssts'[tables'[i].gen] = ssts[tables[i].gen]
      BY <2>5, <2>6, <2>7, Zenon
    <3>2. \A i \in DOMAIN tables' : \/ i \in DOMAIN tables /\ ssts'[tables'[i].gen] = ssts[tables[i].gen]
                                    \/ ssts'[tables'[i].gen].recs \subseteq InMemory
      BY <2>7, <2>8, <3>1, Zenon
    <3>3. InTables \subseteq InTables'
      <4> SUFFICES ASSUME NEW r \in InTables PROVE r \in InTables'
        BY Zenon
      <4>1. PICK i \in DOMAIN tables : r \in ssts[tables[i].gen].recs
        BY Zenon DEF InTables
      <4>2. i \in DOMAIN tables' /\ r \in ssts'[tables'[i].gen].recs
        BY <2>7, <3>1, <4>1, Zenon
      <4> QED BY <4>2, Zenon DEF InTables
    <3>4. InTables' \subseteq InTables \cup InMemory
      BY <3>2, Zenon DEF InTables
    <3> QED BY <3>3, <3>4
  <2>10. \A k \in Keys : VersionsOf(k)' = VersionsOf(k)
    BY <2>4, <2>9, Zenon DEF VersionsOf
  <2> QED BY <1>2, <2>3, <2>10, StoreSame, Zenon
<1> QED BY <1>4, <1>9, <1>10, Zenon

-----------------------------------------------------------------------------
(* The steps that move the MemTables.                                      *)

\* Open finds an empty directory and starts with an empty MemTable.
LEMMA OpenStep ==
  ASSUME Known, Known', StoreInv, OpenRecover \/ OpenRemoveWAL \/ OpenFinish
  PROVE  StoreInv' /\ Store' = Store
<1>1. phase \in {"down", "recovering"} /\ ~Running
  BY Zenon DEF OpenRecover, OpenRemoveWAL, OpenFinish, Running
<1>2. DOMAIN ssts = {} /\ DOMAIN wals = {} /\ tables = <<>>
  BY <1>1, Zenon DEF StoreInv, Blank
<1>3. CASE OpenRecover
  <2>1. LoggedRecords = {}
    BY <1>2, LoggedNothing, Zenon DEF LoggedRecords
  <2>2. ssts' = ssts /\ tables' = Found /\ wals' = wals /\ phase' = "recovering"
    BY <1>3, <2>1, Zenon DEF OpenRecover
  <2>3. Found = <<>>
    <3>1. Files /\ FileTypes
      BY Zenon DEF Known, IInv, Types
    <3>2. Found \in Seq(TableEntry) /\ \A i \in DOMAIN Found : Found[i].gen \in DOMAIN ssts
      BY <3>1, FoundLists, Zenon
    <3> QED BY <1>2, <3>2
  <2>4. ~Running'
    BY <2>2 DEF Running
  <2> QED BY <1>1, <1>2, <2>2, <2>3, <2>4, DownStep, Zenon
<1>4. CASE OpenRemoveWAL
  <2>1. redo \subseteq DOMAIN wals
    BY Zenon DEF Known, Types, RedoTypes
  <2> QED BY <1>2, <1>4, <2>1, Zenon DEF OpenRemoveWAL
<1>5. CASE OpenFinish
  <2> DEFINE new == genCounter + 1
  <2>1. /\ phase' = "up" /\ mem' = new /\ mts' = With(mts, new, EmptyMem)
        /\ UNCHANGED <<imm, tables, ssts, wr, fl, cp>>
    BY <1>5, Zenon DEF OpenFinish, tblVars
  <2>2. imm = {} /\ fl = IdleFlush /\ cp = IdleCompaction /\ \A w \in Writers : wr[w] = IdleWriter
    BY <1>1, Zenon DEF Known, IInv, Quiet, FileInv, Stages
  <2>3. Running'
    BY <2>1 DEF Running
  <2>4. mts'[mem'] = EmptyMem
    BY <2>1 DEF With
  <2>5. InMemory' = {} /\ InTables' = {} /\ OnFile' = {}
    <3>1. InMemory' = {}
      <4>1. RecordsOf(mts'[mem']) = {} /\ imm' \cup {mem'} = {mem'}
        BY <2>1, <2>2, <2>4, EmptyMemRecords
      <4> QED BY <4>1 DEF InMemory
    <3>2. InTables' = {}
      BY <1>2, <2>1 DEF InTables
    <3>3. OnFile' = {}
      BY <1>2, <2>1, Zenon DEF OnFile
    <3> QED BY <3>1, <3>2, <3>3
  <2>6. \A w \in Writers : ~Pending(w)'
    BY <2>1, <2>2 DEF Pending, IdleWriter
  <2>7. Held' = {}
    BY <2>5, <2>6, Zenon DEF Held, InHand
  <2>8. Keyed'
    <3>1. \A k \in Keys : EmptyMem.data[k] = NoRecord
      BY Zenon DEF EmptyMem
    <3> QED BY <2>1, <2>2, <2>4, <3>1, Zenon DEF Keyed
  <2>9. Flushed' /\ Merged'
    BY <2>1, <2>2, Zenon DEF Flushed, Merged, IdleFlush, IdleCompaction
  <2>10. StoreInv'
    BY <2>3, <2>5, <2>6, <2>7, <2>8, <2>9, Zenon DEF StoreInv, Blank, Unique, Ahead
  <2>11. \A k \in Keys : VersionsOf(k)' = {}
    BY <2>5, Zenon DEF VersionsOf
  <2>12. Known' /\ StoreInv' /\ Running' => NewestIsRead'
    BY StoreIs, PTL
  <2>13. ValueOf(Newest({})) = Tombstone
    BY Zenon DEF ValueOf, Newest
  <2>14. Store' = [k \in Keys |-> Tombstone]
    BY <2>3, <2>10, <2>11, <2>12, <2>13, Zenon DEF NewestIsRead
  <2> QED BY <1>1, <2>10, <2>14, StoreBlank, Zenon DEF NothingIsRead
<1> QED BY <1>3, <1>4, <1>5, Zenon

\* rotate moves the active MemTable among the immutable ones.
LEMMA RotateStep ==
  ASSUME Known, Known', StoreInv, NEW w \in Writers, RotateSwap(w)
  PROVE  StoreInv' /\ Store' = Store
<1> DEFINE new == genCounter + 1
<1>1. /\ mem' = new /\ imm' = imm \cup {mem} /\ mts' = With(mts, new, EmptyMem) /\ LockFree
      /\ wr' = [wr EXCEPT ![w] = [pc |-> "send", rec |-> NoRecord, job |-> mem]]
      /\ UNCHANGED <<phase, seq, tables, ssts, fl, cp>>
  BY Zenon DEF RotateSwap, lifeVars, tblVars
<1>2. WriterNext
  BY Zenon DEF WriterNext
<1>3. Running /\ Running'
  BY <1>1, <1>2, ActorsRun, Zenon DEF Known, Running
<1>4. /\ imm \cup {mem} \subseteq DOMAIN mts
      /\ \A g \in imm \cup {mem} : g # new
  <2>1. Queued /\ Typed
    BY Zenon DEF Known, IInv
  <2>2. mem \in Nat /\ mem <= genCounter /\ genCounter \in Nat
    BY <1>3, <2>1, Zenon DEF Queued, Typed
  <2>3. \A g \in imm \cup {mem} : g \in Nat /\ g <= mem
    BY <1>3, SourcesThere, Zenon
  <2>4. \A g \in imm \cup {mem} : g # new
    BY <2>2, <2>3
  <2> QED BY <1>3, <2>1, <2>4, Zenon DEF Queued
<1>5. /\ \A g \in imm \cup {mem} : mts'[g] = mts[g]
      /\ mts'[new] = EmptyMem
  BY <1>1, <1>4, Zenon DEF With
<1> HIDE DEF new
<1>6. InMemory' = InMemory
  <2>1. \A g \in imm' \cup {mem'} : g = new \/ (g \in imm \cup {mem} /\ mts'[g] = mts[g])
    BY <1>1, <1>5, Zenon
  <2>2. \A g \in imm \cup {mem} : g \in imm' \cup {mem'} /\ mts'[g] = mts[g]
    BY <1>1, <1>5, Zenon
  <2>3. RecordsOf(mts'[new]) = {}
    BY <1>5, EmptyMemRecords, Zenon
  <2> QED BY <2>1, <2>2, <2>3, Zenon DEF InMemory
<1>7. Keyed'
  <2>1. Keyed
    BY Zenon DEF StoreInv
  <2>2. \A k \in Keys : EmptyMem.data[k] = NoRecord
    BY Zenon DEF EmptyMem
  <2>3. \A g \in imm' \cup {mem'} : mts'[g] = EmptyMem \/ (g \in imm \cup {mem} /\ mts'[g] = mts[g])
    BY <1>1, <1>5, Zenon
  <2>4. \A g \in imm \cup {mem} : \A k \in Keys :
          mts[g].data[k] # NoRecord => mts[g].data[k].key = k
    BY <1>3, <2>1, Zenon DEF Keyed
  <2>5. \A g \in imm' \cup {mem'} : \A k \in Keys :
          mts'[g].data[k] # NoRecord => mts'[g].data[k].key = k
    BY <2>2, <2>3, <2>4
  <2> QED BY <2>5, Zenon DEF Keyed
<1>8. \A u \in Writers : ~Pending(u)'
  <2>1. wr \in [Writers -> [pc : WriterPCs, rec : Entry, job : Nat]]
    BY Zenon DEF Known, IInv, Typed
  <2>2. \A u \in Writers : ~Pending(u)
    BY <1>1, Zenon DEF LockFree, HoldsRLock, Pending
  <2> QED BY <1>1, <2>1, <2>2, Zenon DEF Pending
<1>9. OnFile' = OnFile /\ InTables' = InTables
  BY <1>1, Zenon DEF OnFile, InTables
<1>10. Flushed' /\ Merged'
  <2>1. fl.pc = "commit" => fl.job \in imm
    BY Zenon DEF Known, JobsInv, Owners
  <2> QED BY <1>1, <1>5, <2>1, MakingKept, Zenon
<1>11. StoreInv'
  BY <1>1, <1>3, <1>6, <1>7, <1>8, <1>9, <1>10, HeldMoves, Zenon
<1>12. \A k \in Keys : VersionsOf(k)' = VersionsOf(k)
  BY <1>6, <1>9 DEF VersionsOf
<1> QED BY <1>3, <1>11, <1>12, StoreSame, Zenon

\* The table takes the place of the MemTable it was written from.
LEMMA FlushCommitStep ==
  ASSUME Known, Known', StoreInv, FlushCommit
  PROVE  StoreInv' /\ Store' = Store
<1>1. /\ tables' = Append(tables, [level |-> 0, gen |-> fl.gen])
      /\ imm' = imm \ {fl.job} /\ mts' = Restrict(mts, DOMAIN mts \cap Reachable(RemainingImm))
      /\ fl' = [fl EXCEPT !.pc = "remove"] /\ fl.pc = "commit"
      /\ UNCHANGED <<seq, mem, ssts, wr, cp>>
  BY Zenon DEF FlushCommit, RemainingImm, diskVars
<1>2. phase \in {"up", "closing"} /\ UNCHANGED phase
  BY WorkersRun, FlushTouches, Zenon DEF Known, FileInv, lifeVars, FlushNext
<1>3. Running /\ Running'
  BY <1>2 DEF Running
<1>4. \A g \in imm' \cup {mem'} : g \in imm \cup {mem} /\ mts'[g] = mts[g]
  <2>1. imm \cup {mem} \subseteq DOMAIN mts
    BY <1>3, Zenon DEF Known, IInv, Queued
  <2>2. \A g \in imm' \cup {mem'} : g \in imm \cup {mem} /\ g \in Reachable(RemainingImm)
    BY <1>1, Zenon DEF Reachable, RemainingImm
  <2> QED BY <1>1, <2>1, <2>2 DEF Restrict
<1>5. fl.job \in imm /\ ssts[fl.gen].recs = RecordsOf(mts[fl.job])
  BY <1>1, Zenon DEF Known, JobsInv, Owners, StoreInv, Flushed
<1>6. /\ InMemory' \subseteq InMemory
      /\ InMemory \subseteq InMemory' \cup RecordsOf(mts[fl.job])
      /\ RecordsOf(mts[fl.job]) \subseteq InMemory
  <2>1. InMemory' \subseteq InMemory
    BY <1>4, Zenon DEF InMemory
  <2>2. RecordsOf(mts[fl.job]) \subseteq InMemory
    BY <1>5 DEF InMemory
  <2>3. \A g \in imm \cup {mem} : g = fl.job \/ (g \in imm' \cup {mem'} /\ mts'[g] = mts[g])
    BY <1>1, <1>4, Zenon
  <2>4. InMemory \subseteq InMemory' \cup RecordsOf(mts[fl.job])
    BY <2>3 DEF InMemory
  <2> QED BY <2>1, <2>2, <2>4, Zenon
<1>7. InTables' = InTables \cup RecordsOf(mts[fl.job])
  <2>1. tables \in Seq(TableEntry)
    BY <1>3, SourcesThere, Zenon
  <2>2. /\ \A i \in DOMAIN tables : i \in DOMAIN tables' /\ tables'[i] = tables[i]
        /\ \A i \in DOMAIN tables' : (i \in DOMAIN tables /\ tables'[i] = tables[i]) \/ tables'[i].gen = fl.gen
        /\ \E i \in DOMAIN tables' : tables'[i].gen = fl.gen
    BY <1>1, <2>1
  <2> DEFINE new == RecordsOf(mts[fl.job])
             was(i) == ssts[tables[i].gen].recs
             now(i) == ssts'[tables'[i].gen].recs
  <2>3. /\ \A i \in DOMAIN tables : i \in DOMAIN tables' /\ now(i) = was(i)
        /\ \A i \in DOMAIN tables' : (i \in DOMAIN tables /\ now(i) = was(i)) \/ now(i) = new
        /\ \E i \in DOMAIN tables' : now(i) = new
    BY <1>1, <1>5, <2>2, Zenon
  <2>4. InTables = UNION {was(i) : i \in DOMAIN tables} /\ InTables' = UNION {now(i) : i \in DOMAIN tables'}
    BY Zenon DEF InTables
  <2> HIDE DEF new, was, now
  <2>5. InTables' = InTables \cup new
    BY <2>3, <2>4, Zenon
  <2> QED BY <2>5, Zenon DEF new
<1>8. Keyed'
  <2>1. \A g \in imm \cup {mem} : \A k \in Keys :
          mts[g].data[k] # NoRecord => mts[g].data[k].key = k
    BY <1>3, Zenon DEF StoreInv, Keyed
  <2>2. \A g \in imm' \cup {mem'} : \A k \in Keys :
          mts'[g].data[k] # NoRecord => mts'[g].data[k].key = k
    BY <1>4, <2>1
  <2> QED BY <2>2, Zenon DEF Keyed
<1>9. Flushed' /\ Merged'
  <2>1. fl'.pc = "remove"
    <3>1. fl \in [pc : FlushPCs, job : Nat, gen : Nat]
      BY Zenon DEF Known, IInv, Typed
    <3> QED BY <1>1, <3>1
  <2> QED BY <1>1, <2>1, MakingKept
<1>10. OnFile' = OnFile
  BY <1>1 DEF OnFile
<1>11. \A u \in Writers : Pending(u)' => Pending(u) /\ wr'[u].rec = wr[u].rec
  BY <1>1, Zenon DEF Pending
<1>12. StoreInv'
  BY <1>1, <1>3, <1>6, <1>8, <1>9, <1>10, <1>11, HeldMoves, Zenon
<1>13. \A k \in Keys : VersionsOf(k)' = VersionsOf(k)
  BY <1>6, <1>7, Zenon DEF VersionsOf
<1> QED BY <1>3, <1>12, <1>13, StoreSame, Zenon

-----------------------------------------------------------------------------
(* The steps of a write.                                                   *)

\* A write gets the next Seq.
LEMMA BeginStep ==
  ASSUME Known, Known', StoreInv, NEW w \in Writers, NEW k \in Keys, NEW v \in Values \cup {Tombstone},
         DeleteKeys = {} => v # Tombstone, WriteBegin(w, k, v)
  PROVE  StoreInv' /\ Store' = Store
<1> DEFINE rec == [key |-> k, seq |-> seq + 1, val |-> v]
<1>1. /\ phase = "up" /\ seq' = seq + 1 /\ wr[w].pc = "idle"
      /\ wr' = [wr EXCEPT ![w] = [pc |-> "append", rec |-> rec, job |-> 0]]
      /\ UNCHANGED <<phase, mem, imm, mts, tables, ssts, fl, cp>>
  BY Zenon DEF WriteBegin, lifeVars, tblVars, diskVars
<1>2. Running /\ Running' /\ seq \in Nat
  <2>1. Running /\ Running'
    BY <1>1, Zenon DEF Running
  <2>2. seq \in 0..MaxSeq
    BY Zenon DEF Known, IInv, Typed
  <2> QED BY <2>1, <2>2
<1>3. rec \in Record /\ rec.seq = seq + 1 /\ rec.val = v
  BY <1>2 DEF Record
<1>4. wr \in [Writers -> [pc : WriterPCs, rec : Entry, job : Nat]]
  BY Zenon DEF Known, IInv, Typed
<1> HIDE DEF rec
<1>5. /\ wr'[w].rec = rec /\ Pending(w)' /\ ~Pending(w)
      /\ \A u \in Writers : u # w => wr'[u] = wr[u]
  BY <1>1, <1>4, Zenon DEF Pending
<1>6. \A u \in Writers : u # w => (Pending(u)' <=> Pending(u))
  BY <1>5, Zenon DEF Pending
<1>7. InMemory' = InMemory /\ InTables' = InTables /\ OnFile' = OnFile
  BY <1>1, Zenon DEF InMemory, InTables, OnFile
<1>8. \A r \in Held' : r \in Held \/ r = rec
  <2>1. \A r \in InHand' : r \in InHand \/ r = rec
    BY <1>5, <1>6, Zenon DEF InHand
  <2> QED BY <1>7, <2>1 DEF Held
<1>9. Unique
  BY DEF StoreInv
<1>10. \A r \in Held : r \in Record /\ r.seq \in Nat /\ r.seq <= seq
  BY <1>2, <1>9, Zenon DEF Unique, Record
<1>11. \A r \in Held : r.seq < rec.seq /\ r.seq <= seq' /\ r.seq # rec.seq
  BY <1>1, <1>2, <1>3, <1>10
<1>12. Unique'
  <2>1. \A r \in Held' : r \in Record /\ r.seq <= seq'
    <3>1. rec.seq <= seq'
      BY <1>1, <1>2, <1>3
    <3> QED BY <1>3, <1>8, <1>10, <1>11, <3>1, Zenon
  <2>2. \A r, q \in Held' : r.seq = q.seq => r = q
    <3>1. \A r, q \in Held : r.seq = q.seq => r = q
      BY <1>2, <1>9, Zenon DEF Unique
    <3>2. \A r \in Held : r.seq # rec.seq /\ rec.seq # r.seq
      BY <1>11, Zenon
    <3> QED BY <1>8, <3>1, <3>2, Zenon
  <2>3. DeleteKeys = {} => \A r \in Held' : r.val # Tombstone
    BY <1>2, <1>3, <1>8, <1>9, Zenon DEF Unique
  <2> QED BY <2>1, <2>2, <2>3, Zenon DEF Unique
<1>13. Ahead'
  <2>1. \A r \in OnFile : r.seq < rec.seq
    BY <1>11, Zenon DEF Held
  <2>2. Ahead
    BY Zenon DEF StoreInv
  <2> SUFFICES ASSUME NEW u \in Writers, Pending(u)', NEW r \in OnFile
               PROVE  r.seq < wr'[u].rec.seq
    BY <1>7, Zenon DEF Ahead
  <2>3. CASE u = w
    BY <1>5, <2>1, <2>3, Zenon
  <2>4. CASE u # w
    BY <1>2, <1>5, <1>6, <2>2, <2>4, Zenon DEF Ahead
  <2> QED BY <2>3, <2>4, Zenon
<1>14. Keyed' /\ Blank'
  BY <1>1, <1>2, Zenon DEF StoreInv, Keyed, Blank
<1>15. Flushed' /\ Merged'
  BY <1>1, MakingKept, Zenon
<1>16. StoreInv'
  BY <1>12, <1>13, <1>14, <1>15, Zenon DEF StoreInv
<1>17. \A i \in Keys : VersionsOf(i)' = VersionsOf(i)
  BY <1>7, Zenon DEF VersionsOf
<1> QED BY <1>2, <1>16, <1>17, StoreSame, Zenon

\* The write that is applied becomes the newest version of its key, and no other
\* key changes.
LEMMA ApplyStep ==
  ASSUME Known, Known', StoreInv, NEW w \in Writers, WriteApply(w)
  PROVE  StoreInv' /\ Store' = [Store EXCEPT ![wr[w].rec.key] = wr[w].rec.val]
<1>0. PICK rec : rec = wr[w].rec
  OBVIOUS
<1> DEFINE mt == mts[mem]
<1>1. /\ mts' = [mts EXCEPT ![mem] = Apply(mts[mem], rec)] /\ wr[w].pc = "apply"
      /\ wr' = [wr EXCEPT ![w] = [pc |-> "check", rec |-> NoRecord, job |-> 0]]
      /\ UNCHANGED <<phase, seq, mem, imm, tables, ssts, fl, cp>>
  BY <1>0, Zenon DEF WriteApply, lifeVars, tblVars, diskVars
<1>2. Pending(w)
  BY <1>1, Zenon DEF Pending
<1>3. rec \in Record /\ Running
  BY <1>0, <1>2, PendingWrite, Zenon DEF Known, Pending
<1>4. Running'
  BY <1>1, <1>3, Zenon DEF Running
<1>5. /\ mem \in DOMAIN mts /\ imm \subseteq DOMAIN mts /\ mem \notin imm /\ mt \in MemTables
  <2>1. Queued /\ mem \in Nat
    BY Zenon DEF Known, IInv, Typed
  <2>2. \A g \in imm : g < mem
    BY <1>3, <2>1, Zenon DEF Queued
  <2>3. mem \notin imm
    BY <2>1, <2>2
  <2> QED BY <1>3, <2>1, <2>3, Zenon DEF Queued
<1>6. mts'[mem] = Apply(mt, rec) /\ \A g \in imm : mts'[g] = mts[g]
  BY <1>1, <1>5, Zenon
<1>7. \A k \in Keys : /\ k = rec.key => mts'[mem].data[k] = rec
                      /\ k # rec.key => mts'[mem].data[k] = mt.data[k]
  <2>1. mt.data \in [Keys -> Entry]
    BY <1>5, Zenon DEF MemTables
  <2> QED BY <1>6, <2>1 DEF Apply
<1>8. rec.key \in Keys /\ rec # NoRecord /\ rec.seq \in Nat
  BY <1>3, NoRecordAssumption DEF Record
<1>9. \A g \in imm \cup {mem} : \A k \in Keys :
        mts[g].data[k] # NoRecord => mts[g].data[k].key = k
  BY <1>3, Zenon DEF StoreInv, Keyed
<1>10. \A k \in Keys : mts'[mem].data[k] # NoRecord => mts'[mem].data[k].key = k
  <2> SUFFICES ASSUME NEW k \in Keys, mts'[mem].data[k] # NoRecord PROVE mts'[mem].data[k].key = k
    BY Zenon
  <2>1. CASE k = rec.key
    BY <1>7, <2>1, Zenon
  <2>2. CASE k # rec.key
    BY <1>7, <1>9, <2>2, Zenon
  <2> QED BY <2>1, <2>2, Zenon
<1>11. Keyed'
  <2>1. \A g \in imm' \cup {mem'} : \A k \in Keys :
          mts'[g].data[k] # NoRecord => mts'[g].data[k].key = k
    <3> SUFFICES ASSUME NEW g \in imm \cup {mem}, NEW k \in Keys, mts'[g].data[k] # NoRecord
                 PROVE  mts'[g].data[k].key = k
      BY <1>1, Zenon
    <3>1. CASE g = mem
      BY <1>10, <3>1, Zenon
    <3>2. CASE g \in imm
      BY <1>6, <1>9, <3>2, Zenon
    <3> QED BY <3>1, <3>2, Zenon
  <2> QED BY <2>1 DEF Keyed
<1> HIDE DEF mt
<1> DEFINE Older == UNION {RecordsOf(mts[g]) : g \in imm}
<1>12. InMemory = Older \cup RecordsOf(mt) /\ InMemory' = Older \cup RecordsOf(mts'[mem])
  <2>1. InMemory = Older \cup RecordsOf(mt)
    BY DEF InMemory, mt
  <2>2. \A g \in imm' \cup {mem'} : (g \in imm /\ mts'[g] = mts[g]) \/ g = mem
    BY <1>1, <1>6, Zenon
  <2>3. mem \in imm' \cup {mem'} /\ \A g \in imm : g \in imm' \cup {mem'} /\ mts'[g] = mts[g]
    BY <1>1, <1>6, Zenon
  <2>4. InMemory' = Older \cup RecordsOf(mts'[mem])
    BY <2>2, <2>3, Zenon DEF InMemory
  <2> QED BY <2>1, <2>4, Zenon
<1> HIDE DEF Older
<1>13. /\ \A r \in RecordsOf(mts'[mem]) : r.key = rec.key => r = rec
       /\ \A r \in RecordsOf(mts'[mem]) : r = rec \/ r \in RecordsOf(mt)
       /\ \A r \in RecordsOf(mt) : r.key # rec.key => r \in RecordsOf(mts'[mem])
       /\ rec \in RecordsOf(mts'[mem])
  <2>1. \A k \in Keys : mt.data[k] # NoRecord => mt.data[k].key = k
    BY <1>9, Zenon DEF mt
  <2>2. \A r : r \in RecordsOf(mt) <=> \E k \in Keys : r = mt.data[k] /\ r # NoRecord
    BY Zenon DEF RecordsOf
  <2>3. \A r : r \in RecordsOf(mts'[mem]) <=> \E k \in Keys : r = mts'[mem].data[k] /\ r # NoRecord
    BY Zenon DEF RecordsOf
  <2>4. ASSUME NEW r \in RecordsOf(mts'[mem])
        PROVE  (r.key = rec.key => r = rec) /\ (r = rec \/ r \in RecordsOf(mt))
    <3>1. PICK k \in Keys : r = mts'[mem].data[k] /\ r # NoRecord
      BY <2>3
    <3>2. r.key = k
      BY <1>10, <3>1, Zenon
    <3>3. CASE k = rec.key
      BY <1>7, <3>1, <3>3, Zenon
    <3>4. CASE k # rec.key
      BY <1>7, <2>2, <3>1, <3>2, <3>4, Zenon
    <3> QED BY <3>3, <3>4, Zenon
  <2>6. ASSUME NEW r \in RecordsOf(mt), r.key # rec.key PROVE r \in RecordsOf(mts'[mem])
    <3>1. PICK k \in Keys : r = mt.data[k] /\ r # NoRecord
      BY <2>2
    <3>2. k # rec.key
      BY <2>1, <2>6, <3>1, Zenon
    <3> QED BY <1>7, <2>3, <3>1, <3>2, Zenon
  <2>7. rec \in RecordsOf(mts'[mem])
    BY <1>7, <1>8, <2>3, Zenon
  <2> QED BY <2>4, <2>6, <2>7, Zenon
<1>14. wr \in [Writers -> [pc : WriterPCs, rec : Entry, job : Nat]]
  BY Zenon DEF Known, IInv, Typed
<1>15. \A u \in Writers : Pending(u)' => Pending(u) /\ wr'[u] = wr[u]
  <2>1. ~Pending(w)' /\ \A u \in Writers : u # w => wr'[u] = wr[u]
    BY <1>1, <1>14, Zenon DEF Pending
  <2> QED BY <2>1, Zenon DEF Pending
<1>16. OnFile' = OnFile /\ InTables' = InTables
  BY <1>1, Zenon DEF OnFile, InTables
<1>17. Held' \subseteq Held
  <2>1. rec \in InHand
    BY <1>0, <1>2, Zenon DEF InHand
  <2>2. InHand' \subseteq InHand
    BY <1>15, Zenon DEF InHand
  <2>3. InMemory' \subseteq InMemory \cup {rec}
    BY <1>12, <1>13, Zenon
  <2> QED BY <1>16, <2>1, <2>2, <2>3, Zenon DEF Held
<1>18. Unique' /\ Ahead'
  <2>1. Unique /\ Ahead
    BY DEF StoreInv
  <2>2. Unique'
    BY <1>1, <1>3, <1>17, <2>1, Zenon DEF Unique
  <2>3. Ahead'
    BY <1>3, <1>15, <1>16, <2>1, Zenon DEF Ahead
  <2> QED BY <2>2, <2>3, Zenon
<1>19. Flushed' /\ Merged'
  <2>1. fl.pc = "commit" => fl.job \in imm
    BY Zenon DEF Known, JobsInv, Owners
  <2> QED BY <1>1, <1>6, <2>1, MakingKept, Zenon
<1>20. StoreInv'
  BY <1>4, <1>11, <1>18, <1>19, Zenon DEF StoreInv, Blank
<1>21. \A k \in Keys : k # rec.key => VersionsOf(k)' = VersionsOf(k)
  <2> SUFFICES ASSUME NEW k \in Keys, k # rec.key PROVE VersionsOf(k)' = VersionsOf(k)
    BY Zenon
  <2>1. \A r : r.key = k => (r \in InMemory' <=> r \in InMemory)
    BY <1>12, <1>13, Zenon
  <2> QED BY <1>16, <2>1, Zenon DEF VersionsOf
<1>22. /\ rec \in VersionsOf(rec.key)'
       /\ \A r \in VersionsOf(rec.key)' : r = rec \/ r.seq < rec.seq
  <2>1. \A r \in Older : r.seq < rec.seq
    <3>1. Ordering
      BY Zenon DEF Known, IInv
    <3>2. \A g \in imm : \A r \in RecordsOf(mts[g]) : r.seq < rec.seq
      BY <1>0, <1>1, <1>3, <3>1, Zenon DEF Ordering
    <3> QED BY <3>2, Zenon DEF Older
  <2>2. \A r \in InTables : r.seq < rec.seq
    <3>1. InTables \subseteq OnFile
      BY <1>3, SourcesThere, Zenon DEF InTables, OnFile
    <3> QED BY <1>0, <1>2, <1>3, <3>1, Zenon DEF StoreInv, Ahead
  <2>3. \A r \in VersionsOf(rec.key)' : r.key = rec.key /\ (r \in InMemory' \/ r \in InTables)
    BY <1>16, Zenon DEF VersionsOf
  <2>4. rec \in VersionsOf(rec.key)'
    BY <1>12, <1>13, Zenon DEF VersionsOf
  <2> QED BY <1>12, <1>13, <2>1, <2>2, <2>3, <2>4, Zenon
<1>23. Newest(VersionsOf(rec.key)') = rec
  <2>1. Unique'
    BY <1>18
  <2>2. \A r \in VersionsOf(rec.key)' : r \in Held'
    <3>1. InTables' \subseteq OnFile'
      BY <1>3, <1>16, SourcesThere, Zenon DEF InTables, OnFile
    <3> QED BY <3>1, Zenon DEF VersionsOf, Held
  <2>3. /\ VersionsOf(rec.key)' \in SUBSET Record
        /\ \A r, q \in VersionsOf(rec.key)' : r.seq = q.seq => r = q
    BY <1>4, <2>1, <2>2, Zenon DEF Unique
  <2>4. \A r \in VersionsOf(rec.key)' : r.seq \in Nat
    BY <2>3, Zenon DEF Record
  <2>5. \A r \in VersionsOf(rec.key)' : r.seq <= rec.seq
    BY <1>8, <1>22, <2>4
  <2> QED BY <1>22, <2>3, <2>5, NewestIs, Zenon
<1>24. Known' /\ StoreInv' /\ Running' => NewestIsRead'
  BY StoreIs, PTL
<1>25. Store' = [k \in Keys |-> ValueOf(Newest(VersionsOf(k)'))]
  BY <1>4, <1>20, <1>24, Zenon DEF NewestIsRead
<1>26. Store = [k \in Keys |-> ValueOf(Newest(VersionsOf(k)))]
  BY <1>3, StoreIs, Zenon DEF NewestIsRead
<1>27. ValueOf(rec) = rec.val
  BY <1>8, Zenon DEF ValueOf
<1>28. Store' = [Store EXCEPT ![rec.key] = rec.val]
  <2>1. \A k \in Keys : Store'[k] = IF k = rec.key THEN rec.val ELSE Store[k]
    BY <1>21, <1>23, <1>25, <1>26, <1>27, Zenon
  <2>2. Store' = [k \in Keys |-> Store'[k]] /\ DOMAIN Store = Keys
    BY <1>25, <1>26
  <2>3. Store' = [k \in Keys |-> IF k = rec.key THEN rec.val ELSE Store[k]]
    BY <2>1, <2>2, Zenon
  <2> QED BY <2>2, <2>3, Zenon
<1> QED BY <1>0, <1>20, <1>28, Zenon

-----------------------------------------------------------------------------
(* The commit of a compaction pass.                                        *)

\* The tombstone that a bottommost pass drops has no older version beside the
\* inputs.
LEMMA NothingResurfaces ==
  ASSUME Known, OrderInv, cp.pc = "commit", cp.bottom, phase \in {"up", "closing"},
         NEW n \in Pool(InputRecords), NEW r, n.seq \in Nat, r.seq \in Nat,
         \/ r \in InMemory
         \/ \E j \in DOMAIN tables : ~InputAt(j) /\ r \in RecsAt(j)
  PROVE  n.seq < r.seq
<1>1. PICK i \in DOMAIN tables : InputAt(i) /\ n \in RecsAt(i)
  <2>1. PICK p \in DOMAIN cp.inputs : n \in ssts[cp.inputs[p]].recs
    BY Zenon DEF Pool, InputRecords
  <2>2. InList(cp.inputs[p]) /\ Input(cp.inputs[p])
    BY InputsOnFile, Zenon
  <2> QED BY <2>1, <2>2, Zenon DEF InList, InputAt, RecsAt
<1>2. MemoryNewer /\ LevelsOrdered /\ InputsTaken
  BY Zenon DEF OrderInv
<1>3. CASE r \in InMemory
  BY <1>1, <1>2, <1>3, Zenon DEF MemoryNewer, Before
<1>4. ASSUME NEW j \in DOMAIN tables, ~InputAt(j), r \in RecsAt(j)
      PROVE  n.seq < r.seq
  <2>1. /\ tables[i].level \in {cp.target - 1, cp.target} /\ tables[j].level # cp.target
        /\ tables[j].level = cp.target - 1 => Before(RecsAt(i), RecsAt(j))
        /\ tables[j].level <= cp.target
    BY <1>1, <1>2, <1>4, Zenon DEF InputsTaken
  <2>2. tables[i].level \in Nat /\ tables[j].level \in Nat /\ cp.target \in Nat
    <3>1. tables \in Seq(TableEntry) /\ cp.target \in Nat
      BY Zenon DEF Known, Types, TableTypes, CompactionTypes
    <3>2. tables[i] \in TableEntry /\ tables[j] \in TableEntry
      BY <3>1
    <3> QED BY <3>1, <3>2, Zenon DEF TableEntry
  <2>3. tables[j].level = cp.target - 1 \/ tables[i].level > tables[j].level
    BY <2>1, <2>2
  <2>4. Before(RecsAt(i), RecsAt(j))
    BY <1>2, <2>1, <2>3, Zenon DEF LevelsOrdered
  <2> QED BY <1>1, <1>4, <2>4, Zenon DEF Before
<1> QED BY <1>3, <1>4, Zenon

\* The listed tables before and after: the output replaces the inputs.
LEMMA CommitTables ==
  ASSUME Known, StoreInv, CompactionCommit
  PROVE  \E R : /\ IsMerge(R, InputRecords, cp.min, cp.bottom)
                /\ \A r : r \in InTables <=> \/ r \in Pool(InputRecords)
                                             \/ \E j \in DOMAIN tables : ~InputAt(j) /\ r \in RecsAt(j)
                /\ \A r : r \in InTables' <=> \/ r \in R
                                              \/ \E j \in DOMAIN tables : ~InputAt(j) /\ r \in RecsAt(j)
<1>1. cp.pc = "commit" /\ cp.result \in {"ok", "empty"} /\ UNCHANGED ssts
  BY Zenon DEF CompactionCommit, diskVars
<1>2. tables \in Seq(TableEntry) /\ cp.target \in Nat /\ cp.gen \in Nat
  BY Zenon DEF Known, Types, TableTypes, CompactionTypes, IInv, Typed
<1> DEFINE R == IF cp.result = "ok" THEN ssts[cp.gen].recs ELSE {}
           Rest(r) == \E j \in DOMAIN tables : ~InputAt(j) /\ r \in RecsAt(j)
<1>3. IsMerge(R, InputRecords, cp.min, cp.bottom)
  <2>1. Merged
    BY DEF StoreInv
  <2>2. CASE cp.result = "ok"
    BY <1>1, <2>1, <2>2, Zenon DEF Merged
  <2>3. CASE cp.result = "empty"
    BY <1>1, <2>1, <2>3, Zenon DEF Merged
  <2> QED BY <1>1, <2>2, <2>3, Zenon
<1>4. \A r : r \in InTables <=> r \in Pool(InputRecords) \/ Rest(r)
  <2>1. \A r : r \in Pool(InputRecords) <=> \E p \in DOMAIN cp.inputs : r \in ssts[cp.inputs[p]].recs
    BY Zenon DEF Pool, InputRecords
  <2>2. \A p \in DOMAIN cp.inputs : \E i \in DOMAIN tables : tables[i].gen = cp.inputs[p]
    BY <1>1, InputsOnFile, Zenon DEF InList
  <2>3. \A i \in DOMAIN tables : InputAt(i) => \E p \in DOMAIN cp.inputs : cp.inputs[p] = tables[i].gen
    BY Zenon DEF InputAt, Input
  <2>4. \A r : r \in InTables <=> \E i \in DOMAIN tables : r \in ssts[tables[i].gen].recs
    BY Zenon DEF InTables
  <2>5. \A i \in DOMAIN tables : RecsAt(i) = ssts[tables[i].gen].recs
    BY Zenon DEF RecsAt
  <2>6. \A r : r \in InTables => r \in Pool(InputRecords) \/ Rest(r)
    BY <2>1, <2>3, <2>4, <2>5, Zenon
  <2>7. \A r : r \in Pool(InputRecords) => r \in InTables
    BY <2>1, <2>2, <2>4
  <2>8. \A r : Rest(r) => r \in InTables
    BY <2>4, <2>5, Zenon
  <2> QED BY <2>6, <2>7, <2>8, Zenon
<1>5. \A r : r \in InTables' <=> r \in R \/ Rest(r)
  <2>1. \A r : r \in InTables' <=> \E g : InList(g)' /\ r \in ssts[g].recs
    BY <1>1 DEF InTables, InList
  <2>2. \A r : Rest(r) <=> \E g : InList(g) /\ ~Input(g) /\ r \in ssts[g].recs
    BY Zenon DEF InList, InputAt, RecsAt
  <2>3. CASE cp.result = "ok"
    <3>1. \A g : InList(g)' <=> cp.gen = g \/ (InList(g) /\ ~Input(g))
      BY <1>2, <2>3, CommitEffect, Zenon
    <3>2. R = ssts[cp.gen].recs
      BY <2>3, Zenon
    <3> HIDE DEF R, Rest
    <3> QED BY <2>1, <2>2, <3>1, <3>2, Zenon
  <2>4. CASE cp.result # "ok"
    <3>1. \A g : InList(g)' <=> (InList(g) /\ ~Input(g))
      BY <1>2, <2>4, CommitEffect, Zenon
    <3>2. R = {}
      BY <2>4
    <3> HIDE DEF R, Rest
    <3> QED BY <2>1, <2>2, <3>1, <3>2, Zenon
  <2> QED BY <2>3, <2>4, Zenon
<1> HIDE DEF R
<1> QED BY <1>3, <1>4, <1>5, Zenon

\* The swap of the inputs for the output changes no key.
LEMMA CommitStep ==
  ASSUME Known, Known', StoreInv, DeleteKeys = {} \/ OrderInv, CompactionCommit
  PROVE  StoreInv' /\ Store' = Store
<1>1. UNCHANGED <<phase, seq, mem, imm, mts, ssts, wr, fl>> /\ cp.pc = "commit"
  BY Zenon DEF CompactionCommit, memVars, lifeVars, diskVars
<1>2. phase \in {"up", "closing"}
  BY WorkersRun, Zenon DEF Known, FileInv, CompactionNext
<1>3. Running /\ Running'
  BY <1>1, <1>2, Zenon DEF Running
<1>4. cp'.pc = "retire"
  <2>1. DOMAIN cp = CompactionFields
    BY Zenon DEF Known, IInv, Typed
  <2> QED BY <2>1, Zenon DEF CompactionCommit, CompactionFields
<1>5. Flushed' /\ Merged'
  BY <1>1, <1>4, MakingKept, Zenon
<1>6. \A w \in Writers : Pending(w)' => Pending(w) /\ wr'[w].rec = wr[w].rec
  BY <1>1, Zenon DEF Pending
<1>7. OnFile' = OnFile /\ InMemory' = InMemory
  BY <1>1 DEF OnFile, InMemory
<1>8. StoreInv'
  BY <1>1, <1>3, <1>5, <1>6, <1>7, HeldKept, Zenon
<1> DEFINE P == Pool(InputRecords)
           Rest(r) == \E j \in DOMAIN tables : ~InputAt(j) /\ r \in RecsAt(j)
<1>9. PICK R : /\ IsMerge(R, InputRecords, cp.min, cp.bottom)
               /\ \A r : r \in InTables <=> r \in P \/ Rest(r)
               /\ \A r : r \in InTables' <=> r \in R \/ Rest(r)
  BY CommitTables, Zenon
<1>10. R \subseteq P /\ P \subseteq Record
  <2>1. R \subseteq P
    BY <1>9, Zenon DEF IsMerge
  <2>2. P \subseteq OnFile
    BY <1>1, InputsOnFile, Zenon
  <2>3. OnFile \subseteq Record
    BY <1>3, SourcesThere, Zenon DEF OnFile
  <2> QED BY <2>1, <2>2, <2>3, Zenon
<1> SUFFICES ASSUME NEW k \in Keys
             PROVE  ValueOf(Newest(VersionsOf(k)')) = ValueOf(Newest(VersionsOf(k)))
  BY <1>3, <1>8, StoreSame, Zenon
<1>11. PICK V : V = VersionsOf(k)
  OBVIOUS
<1>12. PICK W : W = VersionsOf(k)'
  OBVIOUS
<1>13. /\ V \in SUBSET Record /\ \A r \in V : r \in Held /\ r.seq \in Nat /\ r.seq <= seq
       /\ \A r, q \in V : r.seq = q.seq => r = q
  BY <1>3, <1>11, VersionsHeld, Zenon
<1>14. /\ \A r : r \in V <=> r.key = k /\ (r \in InMemory \/ r \in P \/ Rest(r))
       /\ \A r : r \in W <=> r.key = k /\ (r \in InMemory \/ r \in R \/ Rest(r))
  BY <1>7, <1>9, <1>11, <1>12, Zenon DEF VersionsOf
<1> HIDE DEF P, Rest
<1>15. W \subseteq V
  BY <1>10, <1>14, Zenon
<1>16. CASE V = {}
  BY <1>11, <1>12, <1>15, <1>16, Zenon
<1>17. CASE V # {}
  <2>1. seq \in Nat /\ cp.min \in Nat
    BY <1>3, SourcesThere, Zenon DEF Known, Types, CompactionTypes
  <2>2. PICK n \in V : \A q \in V : q.seq <= n.seq
    BY <1>13, <1>17, <2>1, NewestExists, Zenon
  <2>3. Newest(V) = n
    BY <1>13, <2>2, NewestIs, Zenon
  <2>4. CASE n \in W
    <3>1. W \in SUBSET Record /\ (\A r, q \in W : r.seq = q.seq => r = q) /\ \A q \in W : q.seq <= n.seq
      BY <1>13, <1>15, <2>2, Zenon
    <3>2. Newest(W) = n
      BY <2>4, <3>1, NewestIs, Zenon
    <3> QED BY <1>11, <1>12, <2>3, <3>2, Zenon
  <2>5. CASE n \notin W
    <3> DEFINE s == cp.min + seq
    <3>1. s \in Nat /\ cp.min <= s /\ \A r \in V : r.seq <= s
      BY <1>13, <2>1
    <3>2. n \in P /\ n.key = k /\ n \notin R
      BY <1>14, <2>5, Zenon
    <3>3. AtMost(P, k, s) \subseteq V /\ n \in AtMost(P, k, s)
      BY <1>14, <3>1, <3>2, Zenon DEF AtMost
    <3> HIDE DEF s
    <3>4. /\ \A q \in AtMost(P, k, s) : q.seq <= n.seq
          /\ \A q \in AtMost(P, k, s) : q.seq = n.seq => q = n
      BY <1>13, <2>2, <3>3, Zenon
    <3>5. cp.bottom /\ n.val = Tombstone /\ AtMost(R, k, s) = {}
      <4>1. n \notin AtMost(R, k, s)
        BY <3>2, Zenon DEF AtMost
      <4> QED BY <1>9, <1>10, <2>1, <3>1, <3>3, <3>4, <4>1, MergeKeepsNewest DEF P
    <3>6. OrderInv
      <4>1. DeleteKeys = {} => n.val # Tombstone
        BY <1>3, <1>13, <2>2, Zenon DEF StoreInv, Unique
      <4> QED BY <3>5, <4>1, Zenon
    <3>7. W = {}
      <4> SUFFICES ASSUME NEW r \in W PROVE FALSE
        OBVIOUS
      <4>1. r \in V /\ r.seq \in Nat /\ n.seq \in Nat /\ r.seq <= n.seq
        BY <1>13, <1>15, <2>2, Zenon
      <4>2. r.key = k /\ (r \in InMemory \/ r \in R \/ Rest(r))
        BY <1>14, Zenon
      <4>3. r \notin R
        BY <3>1, <3>5, <4>1, <4>2, Zenon DEF AtMost
      <4>4. n.seq < r.seq
        BY <1>1, <1>2, <3>2, <3>5, <3>6, <4>1, <4>2, <4>3, NothingResurfaces, Zenon DEF P, Rest
      <4> QED BY <4>1, <4>4
    <3> QED BY <1>11, <1>12, <2>2, <2>3, <3>5, <3>7, <1>13, NoRecordAssumption, Zenon DEF ValueOf, Newest
  <2> QED BY <2>4, <2>5, Zenon
<1> QED BY <1>16, <1>17, Zenon

\* Every step but the end of the process and a failed commit keeps the invariant;
\* only a write that is applied changes what reads return.
LEMMA StoreStep ==
  ASSUME Known, Known', StoreInv, DeleteKeys = {} \/ OrderInv,
         [Next]_vars, [~CompactionAbort /\ ~Exit]_vars
  PROVE  StoreInv' /\ (Store' = Store \/ \E w \in Writers : WriteApply(w))
<1>1. CASE UNCHANGED vars
  BY <1>1, OtherStep, Zenon
<1>2. CASE Next /\ ~CompactionAbort /\ ~Exit
  <2>1. ASSUME WriterNext PROVE StoreInv' /\ (Store' = Store \/ \E w \in Writers : WriteApply(w))
    <3>1. PICK w \in Writers :
            \/ \E k \in Keys : Delete(w, k) \/ \E v \in Values : Put(w, k, v)
            \/ WriteAppend(w) \/ WriteAppendError(w) \/ WriteApply(w) \/ WriteCheck(w)
            \/ RotateSkip(w) \/ RotateSwap(w) \/ RotateError(w) \/ RotateSend(w)
      BY <2>1, Zenon DEF WriterNext
    <3>2. ASSUME NEW k \in Keys, Delete(w, k) PROVE StoreInv' /\ Store' = Store
      BY <3>2, BeginStep, Zenon DEF Delete
    <3>3. ASSUME NEW k \in Keys, NEW v \in Values, Put(w, k, v) PROVE StoreInv' /\ Store' = Store
      <4>1. v # Tombstone
        BY ConstantsAssumption, Zenon
      <4> QED BY <3>3, <4>1, BeginStep, Zenon DEF Put
    <3>4. WriteApply(w) => StoreInv'
      BY ApplyStep, Zenon
    <3> QED BY <3>1, <3>2, <3>3, <3>4, WriterQuiet, RotateStep, Zenon
  <2>2. FlushNext => StoreInv' /\ Store' = Store
    BY WorkerQuiet, FlushWriteStep, FlushCommitStep, Zenon DEF FlushNext
  <2>3. CompactionNext => StoreInv' /\ Store' = Store
    BY <1>2, WorkerQuiet, MergeStep, CommitStep, RetireStep, Zenon DEF CompactionNext
  <2>4. LifecycleNext => StoreInv' /\ Store' = Store
    BY <1>2, OpenStep, OtherStep, CloseFlushStep, Zenon DEF LifecycleNext
  <2> QED BY <1>2, <2>1, <2>2, <2>3, <2>4, ReaderStep, OtherStep, Zenon DEF Next
<1> QED BY <1>1, <1>2

-----------------------------------------------------------------------------
(* A record is in one table.                                               *)

\* A flushed table is younger than the others; a merged one takes its records
\* from the tables it replaces.
LEMMA AddedApart ==
  ASSUME Known, OrderInv, Apart, phase \in {"up", "closing"},
         NEW g \in Nat, tables' = Append(tables, [level |-> 0, gen |-> g]),
         \A i \in DOMAIN tables : ssts'[tables[i].gen] = ssts[tables[i].gen],
         ssts'[g].recs \subseteq InMemory
  PROVE  Apart'
<1>2. tables \in Seq(TableEntry) /\ \A i \in DOMAIN tables : tables[i].gen \in DOMAIN ssts
  BY Zenon DEF Known, Types, TableTypes, FileInv, Shelved, InList
<1>3. PICK n : /\ DOMAIN tables' = DOMAIN tables \cup {n}
               /\ \A i \in DOMAIN tables : tables'[i] = tables[i]
               /\ tables'[n].gen = g
  <2>1. PICK e \in TableEntry : e = [level |-> 0, gen |-> g] /\ e.level = 0 /\ e.gen = g
    BY FlushedEntry, Zenon
  <2>2. tables' = Append(tables, e)
    BY <2>1, Zenon
  <2>3. PICK n : /\ DOMAIN tables' = DOMAIN tables \cup {n} /\ n \notin DOMAIN tables
                 /\ \A i \in DOMAIN tables : tables[i] \in TableEntry /\ tables'[i] = tables[i]
                 /\ tables'[n] = e
    BY <1>2, <2>2, TablesAppend, Zenon
  <2> QED BY <2>1, <2>3, Zenon
<1>4. \A i \in DOMAIN tables : RecsAt(i)' = RecsAt(i)
  BY <1>3, Zenon DEF RecsAt
<1>5. ASSUME NEW i \in DOMAIN tables, NEW r \in RecsAt(i), r \in RecsAt(n)' PROVE FALSE
  <2>1. r \in InMemory
    BY <1>3, <1>5, Zenon DEF RecsAt
  <2>2. r.seq < r.seq
    BY <1>5, <2>1, Zenon DEF OrderInv, MemoryNewer, Before
  <2>3. r.seq \in Nat
    <3>1. r \in Record
      BY <1>2, Zenon DEF RecsAt, Known, Types, FileTypes
    <3> QED BY <3>1, Zenon DEF Record
  <2> QED BY <2>2, <2>3
<1> SUFFICES ASSUME NEW i \in DOMAIN tables', NEW j \in DOMAIN tables', i # j,
                    NEW r \in RecsAt(i)', r \in RecsAt(j)'
             PROVE  FALSE
  BY Zenon DEF Apart
<1>6. CASE i = n \/ j = n
  BY <1>3, <1>4, <1>5, <1>6, Zenon
<1>7. CASE i # n /\ j # n
  <2>1. i \in DOMAIN tables /\ j \in DOMAIN tables
    BY <1>3, <1>7, Zenon
  <2>2. r \in RecsAt(i) /\ r \in RecsAt(j)
    BY <1>4, <2>1, Zenon
  <2> QED BY <2>1, <2>2, Zenon DEF Apart
<1> QED BY <1>6, <1>7, Zenon

LEMMA CommitApart ==
  ASSUME Known, StoreInv, OrderInv, Apart, Once', CompactionCommit
  PROVE  Apart'
<1> SUFFICES ASSUME NEW i \in DOMAIN tables', NEW j \in DOMAIN tables', i # j,
                    NEW r \in RecsAt(i)', r \in RecsAt(j)'
             PROVE  FALSE
  BY Zenon DEF Apart
<1>1. PICK R : R = RecsAt(i)' /\ (Stays(tables'[i], R) \/ Comes(tables'[i], R))
  BY CommitList, Zenon
<1>2. PICK Q : Q = RecsAt(j)' /\ (Stays(tables'[j], Q) \/ Comes(tables'[j], Q))
  BY CommitList, Zenon
<1>3. tables'[i].gen # tables'[j].gen /\ r \in R /\ r \in Q
  BY <1>1, <1>2, Zenon DEF Once
<1>4. \A p, q \in DOMAIN tables : r \in RecsAt(p) /\ r \in RecsAt(q) => p = q
  BY Zenon DEF Apart
<1>5. CASE Comes(tables'[i], R) /\ Comes(tables'[j], Q)
  BY <1>3, <1>5, Zenon DEF Comes
<1>6. CASE Stays(tables'[i], R) /\ Stays(tables'[j], Q)
  BY <1>3, <1>4, <1>6, Zenon DEF Stays
<1>7. CASE Stays(tables'[i], R) /\ Comes(tables'[j], Q)
  BY <1>3, <1>4, <1>7, Zenon DEF Stays, Comes
<1>8. CASE Comes(tables'[i], R) /\ Stays(tables'[j], Q)
  BY <1>3, <1>4, <1>8, Zenon DEF Stays, Comes
<1> QED BY <1>1, <1>2, <1>5, <1>6, <1>7, <1>8, Zenon

LEMMA ApartStep ==
  ASSUME Known, Known', StoreInv, StoreInv', OrderInv, Apart, Once',
         [Next]_vars, [~CompactionAbort /\ ~Exit]_vars
  PROVE  Apart'
<1>1. CASE tables' = tables /\ \A i \in DOMAIN tables : RecsAt(i)' = RecsAt(i)
  BY <1>1, Zenon DEF Apart
<1>2. CASE tables' = <<>>
  BY <1>2 DEF Apart
<1>3. CASE UNCHANGED vars
  BY <1>1, <1>3, Zenon DEF vars, tblVars, diskVars, RecsAt
<1>4. CASE FlushCommit
  <2>1. /\ tables' = Append(tables, [level |-> 0, gen |-> fl.gen])
        /\ fl.pc = "commit" /\ UNCHANGED ssts
    BY <1>4 DEF FlushCommit, diskVars
  <2>2. phase \in {"up", "closing"}
    BY <1>4, WorkersRun, Zenon DEF Known, FileInv, FlushNext
  <2>3. fl.job \in imm /\ ssts[fl.gen].recs = RecordsOf(mts[fl.job]) /\ fl.gen \in Nat
    BY <2>1, Zenon DEF Known, JobsInv, Owners, StoreInv, Flushed, IInv, Typed
  <2>4. ssts'[fl.gen].recs \subseteq InMemory
    BY <2>1, <2>3, Zenon DEF InMemory
  <2> QED BY <2>1, <2>2, <2>3, <2>4, AddedApart, Zenon
<1>5. CASE CompactionCommit
  BY <1>5, CommitApart, Zenon
<1>6. CASE CloseFlush
  <2> DEFINE new == genCounter + 1
             file == [level |-> 0, recs |-> RecordsOf(mts[mem])]
  <2>1. /\ phase = "closing"
        /\ \/ tables' = tables /\ ssts' = ssts
           \/ tables' = Append(tables, [level |-> 0, gen |-> new]) /\ ssts' = With(ssts, new, file)
    BY <1>6, Zenon DEF CloseFlush, tblVars
  <2>2. CASE tables' = tables /\ ssts' = ssts
    BY <1>1, <2>2, Zenon DEF RecsAt
  <2>3. CASE tables' = Append(tables, [level |-> 0, gen |-> new]) /\ ssts' = With(ssts, new, file)
    <3>1. new \in Nat /\ \A g \in DOMAIN ssts : g # new
      BY <2>1, NextName, Zenon
    <3>2. \A i \in DOMAIN tables : tables[i].gen \in DOMAIN ssts
      BY Zenon DEF Known, FileInv, Shelved, InList
    <3> HIDE DEF new
    <3>3. ssts'[new].recs = RecordsOf(mts[mem]) /\ \A g \in DOMAIN ssts : ssts'[g] = ssts[g]
      BY <2>3, <3>1, Zenon DEF With
    <3>4. ssts'[new].recs \subseteq InMemory
      BY <3>3, Zenon DEF InMemory
    <3> QED BY <2>1, <2>3, <3>1, <3>2, <3>3, <3>4, AddedApart, Zenon
  <2> QED BY <2>1, <2>2, <2>3, Zenon
<1>7. CASE OpenRecover
  <2>1. phase' = "recovering"
    BY <1>7, Zenon DEF OpenRecover
  <2>2. ~Running'
    BY <2>1 DEF Running
  <2> QED BY <1>2, <2>2, Zenon DEF StoreInv, Blank
<1>8. CASE Next /\ ~FlushCommit /\ ~CompactionCommit /\ ~CloseFlush /\ ~OpenRecover
           /\ ~CompactionAbort /\ ~Exit
  BY <1>1, <1>8, ListSame, Zenon
<1> QED BY <1>3, <1>4, <1>5, <1>6, <1>7, <1>8, Zenon

\* So no merge meets a version twice.
LEMMA NoClash ==
  ASSUME Known, StoreInv, Apart, Once, cp.pc = "merge"
  PROVE  ~MergeClash(InputRecords, cp.min)
<1> SUFFICES ASSUME NEW i \in DOMAIN InputRecords, NEW j \in DOMAIN InputRecords, i # j,
                    NEW r \in InputRecords[i], NEW q \in InputRecords[j], r.seq = q.seq
             PROVE  FALSE
  BY Zenon DEF MergeClash
<1>1. /\ i \in DOMAIN cp.inputs /\ j \in DOMAIN cp.inputs
      /\ InputRecords[i] = ssts[cp.inputs[i]].recs /\ InputRecords[j] = ssts[cp.inputs[j]].recs
  BY Zenon DEF InputRecords
<1>2. cp.inputs[i] # cp.inputs[j]
  BY <1>1, Zenon DEF Once
<1>3. InList(cp.inputs[i]) /\ InList(cp.inputs[j])
  BY <1>1, InputsOnFile, Zenon
<1>4. PICK p \in DOMAIN tables : tables[p].gen = cp.inputs[i]
  BY <1>3, Zenon DEF InList
<1>5. PICK h \in DOMAIN tables : tables[h].gen = cp.inputs[j]
  BY <1>3, Zenon DEF InList
<1>6. r \in RecsAt(p) /\ q \in RecsAt(h) /\ p # h
  BY <1>1, <1>2, <1>4, <1>5, Zenon DEF RecsAt
<1>7. phase \notin {"down", "recovering"}
  <2>1. IdleCompaction.pc # "merge"
    BY Zenon DEF IdleCompaction
  <2>2. cp # IdleCompaction
    BY <2>1, Zenon
  <2> QED BY <2>2, Zenon DEF Known, FileInv, Stages
<1>8. Running
  BY <1>7, Zenon DEF Running
<1>9. r \in Held /\ q \in Held
  <2>1. RecsAt(p) \subseteq OnFile /\ RecsAt(h) \subseteq OnFile
    BY <1>8, SourcesThere, Zenon DEF RecsAt, OnFile
  <2> QED BY <1>6, <2>1, Zenon DEF Held
<1>10. r = q
  BY <1>8, <1>9, Zenon DEF StoreInv, Unique
<1> QED BY <1>6, <1>10, Zenon DEF Apart
=============================================================================
