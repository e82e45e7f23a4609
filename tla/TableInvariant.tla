--------------------------- MODULE TableInvariant ---------------------------
(***************************************************************************)
(* The inductive invariants about the tables: the types of all variables,  *)
(* the files behind e.tables, the references on the handles, and the files *)
(* that no handle knows.                                                   *)
(***************************************************************************)
EXTENDS EngineInvariant

(* The types of the variables that Typed leaves out.                       *)

TableEntry == [level : Nat, gen : Nat]
Handle == [refCount : Nat, removeOnZero : BOOLEAN]
ReaderFields == {"pc", "keys", "max", "mem", "imm", "tbs", "out"}

\* The types that IInv does not give.
MemTypes == \A g \in DOMAIN mts : mts[g] \in MemTables

TableTypes ==
  tables \in Seq(TableEntry) /\ \A g \in DOMAIN handles : handles[g] \in Handle

FileTypes == \A g \in DOMAIN ssts : ssts[g].level \in Nat /\ ssts[g].recs \subseteq Record
RedoTypes == redo \subseteq DOMAIN wals /\ (Running => redo = {})

CompactionTypes ==
  /\ compactCh \in BOOLEAN
  /\ cp.pc \in CompactionPCs /\ cp.inputs \in Seq(Nat) /\ cp.min \in Nat
  /\ cp.target \in Nat

ReaderTypes ==
  /\ DOMAIN rd = Readers
  /\ \A r \in Readers : DOMAIN rd[r] = ReaderFields
                        /\ rd[r].pc \in ReaderPCs /\ rd[r].tbs \in Seq(Nat)

Types == MemTypes /\ TableTypes /\ FileTypes /\ RedoTypes /\ CompactionTypes /\ ReaderTypes

-----------------------------------------------------------------------------
(* The files behind the list.                                              *)

InList(g) == \E i \in DOMAIN tables : tables[i].gen = g
Input(g) == \E i \in DOMAIN cp.inputs : cp.inputs[i] = g
HasHandle(g) == g \in DOMAIN handles

\* Before Open returns nobody reads or compacts, and Close waits for the workers.
Stages ==
  /\ phase = "down" => tables = <<>> /\ handles = <<>>
  /\ phase \in {"down", "recovering"} =>
       cp = IdleCompaction /\ \A r \in Readers : rd[r] = IdleReader
  /\ phase \in {"locked", "closed"} => WorkersExited

\* genCounter is ahead of every table's name.
Named ==
  /\ phase # "down" => \A g \in DOMAIN ssts : g <= genCounter
  /\ \A g : HasHandle(g) \/ Input(g) => g \in Nat /\ g <= genCounter
  /\ fl.gen <= genCounter /\ cp.gen <= genCounter

\* The name of a table in the making is nobody else's.
Fresh ==
  /\ fl.pc \in {"write", "commit"} =>
       ~HasHandle(fl.gen) /\ ~InList(fl.gen) /\ ~Input(fl.gen)
  /\ cp.pc \in {"merge", "commit"} =>
       ~HasHandle(cp.gen) /\ ~InList(cp.gen) /\ ~Input(cp.gen)
  /\ fl.pc \in {"write", "commit"} /\ cp.pc \in {"merge", "commit"} => fl.gen # cp.gen

\* A listed table has its file, as has one about to be listed; the inputs of a
\* pass are listed until its commit and never again.
Shelved ==
  /\ \A g : InList(g) => g \in DOMAIN ssts
  /\ fl.pc = "commit" => fl.gen \in DOMAIN ssts
  /\ cp.pc = "commit" /\ cp.result = "ok" => cp.gen \in DOMAIN ssts
  /\ cp.pc \in {"pin", "merge", "commit"} => \A g : Input(g) => InList(g)
  /\ cp.pc = "retire" => \A g : Input(g) => ~InList(g)
  /\ cp.pc \in {"idle", "pick", "exited"} => \A g : ~Input(g)
  /\ \A g \in DOMAIN handles : handles[g].removeOnZero => ~InList(g)

FileInv == Stages /\ Named /\ Fresh /\ Shelved

\* What the listed tables and the inputs of a merge are read from is on disk.
ListedHaveFiles ==
  /\ \A i \in DOMAIN tables : tables[i].gen \in DOMAIN ssts
  /\ cp.pc \in {"pin", "merge", "commit"} =>
       \A i \in DOMAIN cp.inputs : cp.inputs[i] \in DOMAIN ssts

Known == IInv /\ JobsInv /\ SnapshotCounts /\ Types /\ FileInv

-----------------------------------------------------------------------------
(* The references.                                                         *)

Holds(r, g) == \E i \in DOMAIN rd[r].tbs : rd[r].tbs[i] = g
Holders(g) == {r \in Readers : Holds(r, g)}

\* The engine's own reference: on a listed table, or on one being retired.
Owned(g) == InList(g) \/ (cp.pc = "retire" /\ Input(g))

\* A list names a table once.
Once ==
  /\ \A i, j \in DOMAIN tables : tables[i].gen = tables[j].gen => i = j
  /\ \A i, j \in DOMAIN cp.inputs : cp.inputs[i] = cp.inputs[j] => i = j
  /\ \A r \in Readers : \A i, j \in DOMAIN rd[r].tbs : rd[r].tbs[i] = rd[r].tbs[j] => i = j
  /\ \A r \in Readers : rd[r].pc = "idle" => rd[r].tbs = <<>>

\* What somebody refers to is open, and an open table has its file.
Opened ==
  /\ \A g \in DOMAIN handles : g \in DOMAIN ssts
  /\ \A g : Holders(g) # {} => HasHandle(g)
  /\ phase # "closed" => \A g : Owned(g) => HasHandle(g)

\* The count of references; Close may have given up the engine's.
Counted ==
  \A g \in DOMAIN handles :
    /\ \/ handles[g].refCount = Cardinality(Holders(g))
       \/ handles[g].refCount = Cardinality(Holders(g)) + 1
    /\ handles[g].refCount >= 1
    /\ phase # "closed" => (Owned(g) <=> handles[g].refCount = Cardinality(Holders(g)) + 1)
    /\ handles[g].removeOnZero /\ ~Owned(g) => handles[g].refCount = Cardinality(Holders(g))

RefInv == Once /\ Opened /\ Counted

-----------------------------------------------------------------------------
(* No file is forgotten, while no I/O fails.                               *)

\* A table whose file is written and that is not listed yet.
Coming(g) == (fl.pc = "commit" /\ g = fl.gen) \/ (cp.pc = "commit" /\ g = cp.gen)

\* A retired table that a reader still holds.
Waiting(g) == g \in DOMAIN handles /\ handles[g].removeOnZero /\ Holders(g) # {}

Kept(g) == Owned(g) \/ Coming(g) \/ Waiting(g)

\* Every file has its place, and a merge without output leaves none.
FilesKept ==
  /\ phase # "down" => \A g \in DOMAIN ssts : Kept(g)
  /\ cp.pc = "merge" \/ (cp.pc = "commit" /\ cp.result # "ok") => cp.gen \notin DOMAIN ssts
=============================================================================
