------------------------------ MODULE SkipList ------------------------------
(***************************************************************************)
(* skiplist.SkipList, the ordered map under a MemTable.  A list is a       *)
(* record: next gives the tower of every node, level by level, val the     *)
(* value of every node.  Keys are positive integers in the order of        *)
(* bytes.Compare and name their nodes.  The methods hold s.mu, so each is  *)
(* one operator.  Level i of the code is level i + 1 here.                 *)
(***************************************************************************)
EXTENDS Versions, Sequences, FiniteSets

CONSTANT MaxLevel   \* maxLevel

HeadNode == 0
NilNode == -1

NewList ==
  [next |-> [n \in {HeadNode} |-> [i \in 1..MaxLevel |-> NilNode]],
   val |-> <<>>, level |-> 1, length |-> 0]

ListKeys(s) == DOMAIN s.next \ {HeadNode}

\* The last node before key on level i, walking from a node before it.
Advance(s, key, i, from) ==
  LET walk[n \in DOMAIN s.next] ==
        LET m == s.next[n][i] IN IF m # NilNode /\ m < key THEN walk[m] ELSE n
  IN  walk[from]

\* update: where the search for key leaves each level on its way down.
Path(s, key) ==
  LET down[i \in 1..s.level] ==
        Advance(s, key, i, IF i = s.level THEN HeadNode ELSE down[i + 1])
  IN  down

\* The first node at or after key.
Seek(s, key) == s.next[Path(s, key)[1]][1]

\* Faulty variant: the head is not linked on the levels the list grows by.
ListPutKeepsLevel(s, key, value, lvl) ==
  LET update == Path(s, key)
      links  == {i \in 1..lvl : i <= s.level}
  IN  IF Seek(s, key) = key THEN [s EXCEPT !.val[key] = value]
      ELSE [next   |-> [n \in DOMAIN s.next \cup {key} |->
                          IF n = key
                          THEN [i \in 1..lvl |-> IF i \in links THEN s.next[update[i]][i] ELSE NilNode]
                          ELSE [i \in DOMAIN s.next[n] |->
                                  IF i \in links /\ update[i] = n THEN key ELSE s.next[n][i]]],
            val    |-> [k \in ListKeys(s) \cup {key} |-> IF k = key THEN value ELSE s.val[k]],
            level  |-> IF lvl > s.level THEN lvl ELSE s.level,
            length |-> s.length + 1]

\* Put with lvl from randomLevel, any number in 1..MaxLevel: overwrite the value
\* of the key's node, or splice a new node in after update[i] on each level.
ListPut(s, key, value, lvl) ==
  LET path   == Path(s, key)
      update == [i \in 1..MaxLevel |-> IF i <= s.level THEN path[i] ELSE HeadNode]
  IN  IF Seek(s, key) = key THEN [s EXCEPT !.val[key] = value]
      ELSE [next   |-> [n \in DOMAIN s.next \cup {key} |->
                          IF n = key THEN [i \in 1..lvl |-> s.next[update[i]][i]]
                          ELSE [i \in DOMAIN s.next[n] |->
                                  IF i <= lvl /\ update[i] = n THEN key ELSE s.next[n][i]]],
            val    |-> [k \in ListKeys(s) \cup {key} |-> IF k = key THEN value ELSE s.val[k]],
            level  |-> IF lvl > s.level THEN lvl ELSE s.level,
            length |-> s.length + 1]

\* Get, with the answer for a key that is not there.
ListGet(s, key, missing) == IF Seek(s, key) = key THEN s.val[key] ELSE missing

\* The nodes of level 1 from n on that come before end.
Chain(s, n, end) ==
  LET from[m \in ListKeys(s) \cup {NilNode}] ==
        IF m = NilNode \/ (end # NoBound /\ m >= end) THEN <<>>
        ELSE <<m>> \o from[s.next[m][1]]
  IN  from[n]

\* All and Range, as sequences of keys; the entries are their values.
ListAll(s) == Chain(s, s.next[HeadNode][1], NoBound)

ListRange(s, start, end) ==
  Chain(s, IF start = NoBound THEN s.next[HeadNode][1] ELSE Seek(s, start), end)

-----------------------------------------------------------------------------
\* Every level links, in key order, the nodes whose tower reaches it, the level
\* in use covers the towers, and the length counts the nodes.
ListWellFormed(s) ==
  LET Reaching(i) == {k \in ListKeys(s) : i \in DOMAIN s.next[k]}
      After(n, i) == {k \in Reaching(i) : n < k}
  IN  /\ s.length = Cardinality(ListKeys(s))
      /\ s.level \in 1..MaxLevel
      /\ \A n \in DOMAIN s.next : \A i \in DOMAIN s.next[n] :
           /\ n # HeadNode => i <= s.level
           /\ IF After(n, i) = {} THEN s.next[n][i] = NilNode
              ELSE s.next[n][i] \in After(n, i) /\ \A k \in After(n, i) : s.next[n][i] <= k
=============================================================================
