---------------------------- MODULE TableProofs -----------------------------
(***************************************************************************)
(* Table.Get, for every table, key and bound: the search over the index,   *)
(* the walk over the versions of a key and the two filters in front of     *)
(* them find the newest visible version.                                   *)
(***************************************************************************)
EXTENDS MergeScan, WellFoundedInduction, TLAPS

\* A set of natural numbers has a least element.
LEMMA LeastExists ==
  ASSUME NEW S \in SUBSET Nat, S # {}
  PROVE  \E m \in S : \A y \in S : m <= y
<1> DEFINE R == {p \in Nat \X Nat : p[1] < p[2]}
<1>1. IsWellFoundedOn(R, Nat)
  BY NatLessThanWellFounded, Zenon DEF OpToRel
<1>2. PICK m \in S : \A y \in S : <<y, m>> \notin R
  <2> HIDE DEF R
  <2> QED BY <1>1, WFMin
<1>3. \A y \in S : ~(y < m)
  BY <1>2
<1> QED BY <1>3

\* Min returns the least element of a set of natural numbers.
LEMMA LeastNatural ==
  ASSUME NEW S \in SUBSET Nat, S # {}
  PROVE  Min(S) \in S /\ \A y \in S : Min(S) <= y
  BY LeastExists, Zenon DEF Min

\* The filter of a table turns away no key that was added to it.
THEOREM FilterKnowsItsKeys ==
  ASSUME NEW added, NEW numBits, NEW key \in added
  PROVE  MayContain(FilterOf(added, numBits), key)
  BY DEF MayContain, FilterOf

\* A table as the argument takes it: what Write writes, with records whose
\* sequence numbers are natural numbers.
OpenTable(t) ==
  /\ t.index \in Seq([key : Int, offset : Nat])
  /\ WellFormedTable(t)
  /\ \A i \in DOMAIN t.index : RecordAt(t, t.index[i].offset).seq \in Nat

\* The index entries of the versions a read may see.
Seen(t, key, max) ==
  {i \in DOMAIN t.index :
     t.index[i].key = key /\ RecordAt(t, t.index[i].offset).seq <= max}

\* The order of the index, and what it leads to.
LEMMA IndexOrder ==
  ASSUME NEW t, OpenTable(t)
  PROVE  /\ Len(t.index) \in Nat /\ DOMAIN t.index = 1..Len(t.index)
         /\ \A i \in DOMAIN t.index :
              /\ t.index[i].key \in Int
              /\ RecordAt(t, t.index[i].offset).key = t.index[i].key
         /\ \A i, j \in DOMAIN t.index :
              i <= j => t.index[i].key <= t.index[j].key
         /\ \A i, j \in DOMAIN t.index :
              i < j /\ t.index[i].key = t.index[j].key =>
                RecordAt(t, t.index[i].offset).seq > RecordAt(t, t.index[j].offset).seq
<1> DEFINE R(i) == RecordAt(t, t.index[i].offset)
<1>1. Len(t.index) \in Nat /\ DOMAIN t.index = 1..Len(t.index)
  BY DEF OpenTable
<1>2. \A i \in DOMAIN t.index : t.index[i].key \in Int /\ R(i).key = t.index[i].key
  <2>1. \A i \in DOMAIN t.index : t.index[i] \in [key : Int, offset : Nat]
    <3> DEFINE D == [key : Int, offset : Nat]
               s == t.index
    <3>1. s \in Seq(D)
      BY Zenon DEF OpenTable
    <3> HIDE DEF D, s
    <3>2. \A i \in DOMAIN s : s[i] \in D
      BY <3>1
    <3> QED BY <3>2 DEF D, s
  <2>2. \A i \in DOMAIN t.index : R(i).key = t.index[i].key
    BY Zenon DEF OpenTable, WellFormedTable
  <2> QED BY <2>1, <2>2
<1>3. \A i, j \in DOMAIN t.index :
        i < j => R(i).key < R(j).key \/ (R(i).key = R(j).key /\ R(i).seq > R(j).seq)
  BY Zenon DEF OpenTable, WellFormedTable, Descends
<1> HIDE DEF R
<1>4. \A i, j \in DOMAIN t.index : i <= j => t.index[i].key <= t.index[j].key
  <2> SUFFICES ASSUME NEW i \in DOMAIN t.index, NEW j \in DOMAIN t.index, i <= j
               PROVE  t.index[i].key <= t.index[j].key
    BY Zenon
  <2>1. CASE i = j
    BY <2>1, <1>2
  <2>2. CASE i < j
    BY <2>2, <1>2, <1>3
  <2> QED BY <1>1, <2>1, <2>2
<1>5. \A i, j \in DOMAIN t.index :
        i < j /\ t.index[i].key = t.index[j].key => R(i).seq > R(j).seq
  BY <1>2, <1>3
<1> QED BY <1>1, <1>2, <1>4, <1>5 DEF R

\* sort.Search returns the first entry at or after the key, or one past all.
LEMMA SearchFinds ==
  ASSUME NEW t, OpenTable(t), NEW key \in Int
  PROVE  /\ SearchIndex(t, key) \in 1..(Len(t.index) + 1)
         /\ \A i \in DOMAIN t.index :
              t.index[i].key >= key => SearchIndex(t, key) <= i
         /\ SearchIndex(t, key) \in DOMAIN t.index =>
              t.index[SearchIndex(t, key)].key >= key
<1> DEFINE S == {i \in DOMAIN t.index : t.index[i].key >= key} \cup {Len(t.index) + 1}
<1>1. Len(t.index) \in Nat /\ DOMAIN t.index = 1..Len(t.index)
  BY IndexOrder
<1>2. S \in SUBSET Nat /\ S # {} /\ \A i \in S : i \in 1..(Len(t.index) + 1)
  BY <1>1
<1>3. SearchIndex(t, key) = Min(S)
  BY Zenon DEF SearchIndex
<1>4. Min(S) \in S /\ \A y \in S : Min(S) <= y
  <2> HIDE DEF S
  <2> QED BY <1>2, LeastNatural
<1>5. Min(S) \in DOMAIN t.index => t.index[Min(S)].key >= key
  BY <1>1, <1>4
<1> QED BY <1>2, <1>3, <1>4, <1>5, Zenon

\* The walk from where the search ends reaches the visible versions, all of
\* them and no others.
LEMMA WalkSees ==
  ASSUME NEW t, OpenTable(t), NEW key \in Int, NEW max \in Nat
  PROVE  Visible(t, SearchIndex(t, key), key, max) = Seen(t, key, max)
<1> DEFINE m == SearchIndex(t, key)
           K(i) == t.index[i].key
           n == Len(t.index)
<1>1. n \in Nat /\ DOMAIN t.index = 1..n
  BY IndexOrder
<1>2. /\ \A i \in 1..n : K(i) \in Int
      /\ \A i, j \in 1..n : i <= j => K(i) <= K(j)
  BY <1>1, IndexOrder
<1>3. /\ m \in 1..(n + 1)
      /\ \A i \in 1..n : K(i) >= key => m <= i
      /\ m \in 1..n => K(m) >= key
  BY <1>1, SearchFinds
<1> HIDE DEF m, K, n
<1>4. {j \in m..n : \A h \in m..j : K(h) = key} = {i \in 1..n : K(i) = key}
  <2>1. ASSUME NEW j \in m..n, \A h \in m..j : K(h) = key
        PROVE  j \in 1..n /\ K(j) = key
    BY <1>1, <1>3, <2>1
  <2>2. ASSUME NEW i \in 1..n, K(i) = key
        PROVE  i \in m..n /\ \A h \in m..i : K(h) = key
    <3>1. m <= i /\ m \in 1..n /\ i \in m..n
      BY <1>1, <1>2, <1>3, <2>2
    <3>2. ASSUME NEW h \in m..i PROVE K(h) = key
      <4>1. h \in 1..n /\ m <= h /\ h <= i
        BY <1>1, <3>1
      <4>2. K(m) <= K(h) /\ K(h) <= K(i) /\ K(m) >= key
        BY <1>2, <1>3, <3>1, <4>1
      <4> QED BY <1>2, <2>2, <3>1, <4>1, <4>2
    <3> QED BY <3>1, <3>2
  <2> QED BY <2>1, <2>2
<1>5. GroupFrom(t, m, key) = {i \in DOMAIN t.index : K(i) = key}
  BY <1>1, <1>4 DEF GroupFrom, K, n
<1> QED BY <1>5 DEF Visible, Seen, K, m

\* Table.Get returns the newest version of the key with Seq at or below the
\* bound, or nothing if there is none: the abstraction of a table as a set of
\* records, with TableGet, is what the file answers.
THEOREM LookupIsExact ==
  ASSUME NEW t, OpenTable(t), NEW key \in Int, NEW max \in Nat
  PROVE  LookupExact(t, key, max)
<1> DEFINE R(i) == RecordAt(t, t.index[i].offset)
           V == Seen(t, key, max)
           A == AtMost(TableRecords(t), key, max)
<1>1. /\ Len(t.index) \in Nat /\ DOMAIN t.index = 1..Len(t.index)
      /\ \A i \in DOMAIN t.index : t.index[i].key \in Int /\ R(i).key = t.index[i].key
      /\ \A i, j \in DOMAIN t.index : i <= j => t.index[i].key <= t.index[j].key
      /\ \A i, j \in DOMAIN t.index :
           i < j /\ t.index[i].key = t.index[j].key => R(i).seq > R(j).seq
      /\ \A i \in DOMAIN t.index : R(i).seq \in Nat
  BY IndexOrder, Zenon DEF OpenTable
<1>2. A = {R(i) : i \in V}
  <2>1. ASSUME NEW q \in A PROVE \E i \in V : q = R(i)
    <3>1. q \in TableRecords(t) /\ q.key = key /\ q.seq <= max
      BY Zenon DEF AtMost
    <3>2. PICK i \in DOMAIN t.index : q = R(i)
      BY <3>1, Zenon DEF TableRecords
    <3>3. i \in V
      BY <1>1, <3>1, <3>2, Zenon DEF Seen
    <3> QED BY <3>2, <3>3, Zenon
  <2>2. ASSUME NEW i \in V PROVE R(i) \in A
    <3>1. i \in DOMAIN t.index /\ R(i) \in TableRecords(t) /\ R(i).seq <= max /\ R(i).key = key
      BY <1>1, Zenon DEF TableRecords, Seen
    <3> QED BY <3>1, Zenon DEF AtMost
  <2> HIDE DEF A, V, R
  <2> QED BY <2>1, <2>2
<1>3. Visible(t, SearchIndex(t, key), key, max) = V
  BY WalkSees
<1>4. V \subseteq DOMAIN t.index /\ \A i \in V : t.index[i].key = key
  BY Zenon DEF Seen
<1>5. CASE V = {}
  <2>1. A = {}
    BY <1>2, <1>5
  <2>2. Lookup(t, key, max) = NoRecord
    BY <1>3, <1>5 DEF Lookup, FirstVisible
  <2> QED BY <2>1, <2>2 DEF LookupExact, TableGet, Newest
<1>6. CASE V # {}
  <2> DEFINE v == Min(V)
  <2>1. v \in V /\ \A i \in V : v <= i
    <3>1. V \in SUBSET Nat
      BY <1>1, <1>4
    <3> HIDE DEF V
    <3> QED BY <1>6, <3>1, LeastNatural
  <2> HIDE DEF v
  <2>2. MayContainRange(t, key) /\ MayContain(t.filter, key)
    <3>1. v \in DOMAIN t.index /\ t.index[v].key = key
      BY <1>4, <2>1
    <3>2. MayContain(t.filter, key)
      BY <3>1 DEF OpenTable, WellFormedTable
    <3>3. 1 \in DOMAIN t.index /\ Len(t.index) \in DOMAIN t.index
          /\ 1 <= v /\ v <= Len(t.index) /\ t.index # << >>
      BY <1>1, <3>1
    <3>4. t.index[1].key <= key /\ key <= t.index[Len(t.index)].key
      BY <1>1, <3>1, <3>3
    <3> QED BY <3>2, <3>3, <3>4 DEF MayContainRange
  <2>3. Lookup(t, key, max) = R(v)
    BY <1>3, <1>6, <2>2 DEF Lookup, FirstVisible, v
  <2>4. \A i \in V : i = v \/ R(i).seq < R(v).seq
    BY <1>1, <1>4, <2>1
  <2>5. R(v) \in A /\ \A q \in A : q.seq <= R(v).seq
    <3>1. R(v).seq \in Nat /\ \A i \in V : R(i).seq \in Nat
      BY <1>1, <1>4, <2>1
    <3> QED BY <1>2, <2>1, <2>4, <3>1
  <2>6. \A r \in A : (\A q \in A : q.seq <= r.seq) => r = R(v)
    <3> SUFFICES ASSUME NEW i \in V, \A q \in A : q.seq <= R(i).seq
                 PROVE  R(i) = R(v)
      BY <1>2
    <3>1. R(v).seq \in Nat /\ R(i).seq \in Nat /\ R(v).seq <= R(i).seq
      BY <1>1, <1>4, <2>1, <2>5
    <3> QED BY <2>4, <3>1
  <2> HIDE DEF A, V, R
  <2>7. Newest(A) = R(v)
    BY <2>5, <2>6 DEF Newest
  <2> QED BY <2>3, <2>7 DEF LookupExact, TableGet, A
<1> QED BY <1>5, <1>6

\* In every state in which the files are well formed, with an index of keys and
\* offsets and records with natural Seqs, Table.Get on any of them is exact.
THEOREM WellFormedTablesAnswer ==
  ASSUME TablesWellFormed,
         \A i \in DOMAIN files :
           /\ files[i].index \in Seq([key : Int, offset : Nat])
           /\ \A j \in DOMAIN files[i].index :
                RecordAt(files[i], files[i].index[j].offset).seq \in Nat
  PROVE  TablesAnswer
<1>1. \A i \in DOMAIN files : OpenTable(files[i])
  BY Zenon DEF OpenTable, TablesWellFormed
<1>2. \A k \in Keys, max \in 0..Unbounded : k \in Int /\ max \in Nat
  BY StorageAssumption DEF Unbounded
<1> QED BY <1>1, <1>2, LookupIsExact DEF TablesAnswer
=============================================================================
