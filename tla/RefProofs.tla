----------------------------- MODULE RefProofs ------------------------------
(***************************************************************************)
(* Every step keeps the files behind the list of tables, and the           *)
(* references on them: Acquire, Release and Retire, the latter over every  *)
(* run in which no compaction pass fails at its commit.                    *)
(***************************************************************************)
EXTENDS EngineProofs

(* Every step keeps the files behind e.tables: what is listed, being       *)
(* merged or being written has its handle and its file.                    *)

\* A flushed table at the end of the list.
LEMMA ListGrows ==
  ASSUME tables \in Seq(TableEntry), NEW g \in Nat,
         tables' = Append(tables, [level |-> 0, gen |-> g])
  PROVE  \A h : InList(h)' <=> InList(h) \/ h = g
<1>1. PICK e \in TableEntry : e = [level |-> 0, gen |-> g] /\ e.gen = g
  BY FlushedEntry, Zenon
<1>2. \A h : InList(h)' <=> e.gen = h \/ \E i \in DOMAIN tables : tables[i].gen = h
  BY <1>1, InListAppend
<1> QED BY <1>1, <1>2, Zenon DEF InList

\* A list that names its tables once still does with a table it did not name.
LEMMA OnceGrows ==
  ASSUME tables \in Seq(TableEntry), NEW g \in Nat,
         tables' = Append(tables, [level |-> 0, gen |-> g]), Once, ~InList(g)
  PROVE  \A i, j \in DOMAIN tables' : tables'[i].gen = tables'[j].gen => i = j
<1>1. PICK e \in TableEntry : e = [level |-> 0, gen |-> g] /\ e.gen = g
  BY FlushedEntry, Zenon
<1>2. tables' = Append(tables, e) /\ \A i \in DOMAIN tables : tables[i].gen # e.gen
  BY <1>1, Zenon DEF InList
<1> QED BY <1>2, OnceAppend, Zenon DEF Once

\* An empty data directory has no table.
LEMMA FileInvInit == Init => FileInv
<1> SUFFICES ASSUME Init PROVE FileInv
  OBVIOUS
<1>1. /\ tables = <<>> /\ handles = <<>> /\ ssts = <<>> /\ phase = "down" /\ genCounter = 0
      /\ fl = IdleFlush /\ cp = IdleCompaction /\ \A r \in Readers : rd[r] = IdleReader
  BY DEF Init
<1>2. \A g : ~InList(g) /\ ~Input(g) /\ ~HasHandle(g)
  BY <1>1 DEF InList, Input, HasHandle, IdleCompaction
<1>3. Stages
  BY <1>1 DEF Stages
<1>4. Named /\ Fresh /\ Shelved
  BY <1>1, <1>2 DEF Named, Fresh, Shelved, HasHandle, IdleFlush, IdleCompaction
<1> QED BY <1>3, <1>4 DEF FileInv

\* Steps that leave the list, the files and the compaction worker alone.
LEMMA FileFrame ==
  ASSUME IInv, FileInv, UNCHANGED <<phase, tables, ssts, cp>>,
         DOMAIN handles' = DOMAIN handles,
         \A g \in DOMAIN handles : handles'[g].removeOnZero = handles[g].removeOnZero,
         genCounter' \in Nat, genCounter <= genCounter',
         fl'.gen \in Nat, fl'.gen <= genCounter',
         fl'.pc \in {"write", "commit"} => fl'.gen = fl.gen /\ fl'.pc = fl.pc,
         phase \in {"locked", "closed"} => fl'.pc = fl.pc,
         phase \in {"down", "recovering"} => UNCHANGED <<handles, rd>>
  PROVE  FileInv'
<1>1. \A g : /\ InList(g)' <=> InList(g)
             /\ Input(g)' <=> Input(g)
             /\ HasHandle(g)' <=> HasHandle(g)
  BY DEF InList, Input, HasHandle
<1>2. genCounter \in Nat /\ cp.gen \in Nat /\ DOMAIN ssts \in SUBSET Nat
  BY DEF IInv, Typed, Files
<1>3. Stages'
  BY Zenon DEF FileInv, Stages, WorkersExited
<1>4. Named'
  BY <1>1, <1>2 DEF FileInv, Named
<1>5. Fresh'
  BY <1>1, Zenon DEF FileInv, Fresh
<1>6. Shelved'
  BY <1>1 DEF FileInv, Shelved
<1> QED BY <1>3, <1>4, <1>5, <1>6 DEF FileInv

\* rotate takes a new generation; no other step of a writer does.
LEMMA WriterGens == IInv /\ WriterNext => genCounter' \in {genCounter, genCounter + 1}
<1> SUFFICES ASSUME NEW w \in Writers,
                    \/ \E k \in Keys : Delete(w, k) \/ \E v \in Values : Put(w, k, v)
                    \/ WriteAppend(w) \/ WriteAppendError(w) \/ WriteApply(w) \/ WriteCheck(w)
                    \/ RotateSkip(w) \/ RotateSwap(w) \/ RotateError(w) \/ RotateSend(w)
             PROVE  genCounter' \in {genCounter, genCounter + 1}
  BY Zenon DEF WriterNext
<1>1. ASSUME \E k \in Keys : Delete(w, k) \/ \E v \in Values : Put(w, k, v)
      PROVE  genCounter' = genCounter
  BY <1>1, Zenon DEF Put, Delete, WriteBegin
<1>2. ASSUME WriteAppend(w) \/ WriteAppendError(w) \/ WriteApply(w) \/ WriteCheck(w)
      PROVE  genCounter' = genCounter
  BY <1>2, Zenon DEF WriteAppend, WriteAppendError, WriteApply, WriteCheck
<1>3. ASSUME RotateSkip(w) \/ RotateSwap(w) \/ RotateError(w) \/ RotateSend(w)
      PROVE  genCounter' \in {genCounter, genCounter + 1}
  BY <1>3, Zenon DEF RotateSkip, RotateSwap, RotateError, RotateSend
<1> QED BY <1>1, <1>2, <1>3

\* Writers and snapshots leave the tables alone.
LEMMA ClientFiles == IInv /\ FileInv /\ (WriterNext \/ SnapshotNext) => FileInv'
<1> SUFFICES ASSUME IInv, FileInv, WriterNext \/ SnapshotNext PROVE FileInv'
  OBVIOUS
<1>1. genCounter \in Nat /\ fl.gen \in Nat /\ fl.gen <= genCounter
  BY DEF IInv, Typed, FileInv, Named
<1>2. UNCHANGED <<phase, tables, handles, ssts, cp, fl, rd>>
  BY WriterTouches, SnapshotTouches DEF lifeVars, tblVars, diskVars
<1>3. genCounter' \in {genCounter, genCounter + 1}
  BY WriterGens, SnapshotTouches
<1> QED BY <1>1, <1>2, <1>3, FileFrame

\* doFlush takes a new name, writes the file and lists it.
LEMMA FlushFiles == IInv /\ Types /\ FileInv /\ FlushNext => FileInv'
<1> SUFFICES ASSUME IInv, Types, FileInv, FlushNext PROVE FileInv'
  OBVIOUS
<1>1. /\ genCounter \in Nat /\ fl.gen \in Nat /\ fl.gen <= genCounter /\ cp.gen \in Nat
      /\ cp.gen <= genCounter /\ DOMAIN ssts \in SUBSET Nat
      /\ DOMAIN fl = {"pc", "job", "gen"}
  BY Zenon DEF IInv, Typed, Files, FileInv, Named
<1>2. phase \in {"up", "closing"} /\ UNCHANGED <<phase, cp, rd>>
  BY WorkersRun, FlushTouches DEF FileInv, lifeVars
<1>3. Stages'
  BY <1>2, Zenon DEF Stages
<1>4. \A g : Input(g)' <=> Input(g)
  BY <1>2 DEF Input
<1>5. CASE FlushTake
  <2>1. /\ UNCHANGED <<tables, handles, ssts>> /\ genCounter' = genCounter + 1
        /\ fl' = [pc |-> "write", job |-> Head(flushCh), gen |-> genCounter + 1]
    BY <1>5 DEF FlushTake, tblVars, diskVars
  <2>2. fl'.pc = "write" /\ fl'.gen = genCounter + 1
    BY <2>1
  <2>3. \A g : (InList(g)' <=> InList(g)) /\ (HasHandle(g)' <=> HasHandle(g))
    BY <2>1 DEF InList, HasHandle
  <2>4. Named'
    BY <1>1, <1>2, <1>4, <2>1, <2>2, <2>3 DEF FileInv, Named
  <2>5. ~HasHandle(genCounter + 1) /\ ~Input(genCounter + 1) /\ cp.gen # genCounter + 1
    BY <1>1 DEF FileInv, Named
  <2>6. ~InList(genCounter + 1)
    BY <1>1, <1>2 DEF FileInv, Named, Shelved
  <2>7. Fresh'
    BY <1>2, <1>4, <2>2, <2>3, <2>5, <2>6, Zenon DEF FileInv, Fresh
  <2>8. Shelved'
    BY <1>2, <1>4, <2>1, <2>2, <2>3, Zenon DEF FileInv, Shelved
  <2> QED BY <1>3, <2>4, <2>7, <2>8 DEF FileInv
<1>6. CASE FlushWrite \/ FlushError
  <2>1. /\ UNCHANGED <<tables, handles, genCounter>> /\ fl.pc = "write"
        /\ ssts' \in {ssts, FlushFile}
        /\ \/ fl' = IdleFlush
           \/ fl' = [fl EXCEPT !.pc = "commit"] /\ ssts' = FlushFile
    BY <1>6 DEF FlushWrite, FlushError, tblVars
  <2>2. /\ DOMAIN ssts \subseteq DOMAIN ssts' /\ DOMAIN ssts' \subseteq DOMAIN ssts \cup {fl.gen}
        /\ ssts' = FlushFile => fl.gen \in DOMAIN ssts'
    BY <2>1 DEF FlushFile, With
  <2>3. \/ fl'.pc = "idle" /\ fl'.gen = 0
        \/ fl'.pc = "commit" /\ fl'.gen = fl.gen /\ fl.gen \in DOMAIN ssts'
    BY <1>1, <2>1, <2>2 DEF IdleFlush
  <2>4. \A g : (InList(g)' <=> InList(g)) /\ (HasHandle(g)' <=> HasHandle(g))
    BY <2>1 DEF InList, HasHandle
  <2>5. Named'
    BY <1>1, <1>2, <1>4, <2>1, <2>2, <2>3, <2>4 DEF FileInv, Named
  <2>6. Fresh'
    BY <1>2, <1>4, <2>1, <2>3, <2>4 DEF FileInv, Fresh
  <2>7. Shelved'
    BY <1>2, <1>4, <2>1, <2>2, <2>3, <2>4 DEF FileInv, Shelved
  <2> QED BY <1>3, <2>5, <2>6, <2>7 DEF FileInv
<1>7. CASE FlushCommit
  <2>1. /\ UNCHANGED <<ssts, genCounter>> /\ fl.pc = "commit"
        /\ tables' = Append(tables, [level |-> 0, gen |-> fl.gen])
        /\ handles' = With(handles, fl.gen, NewHandle)
        /\ fl' = [fl EXCEPT !.pc = "remove"]
    BY <1>7 DEF FlushCommit, diskVars
  <2>2. fl'.pc = "remove" /\ fl'.gen = fl.gen
    BY <1>1, <2>1
  <2>3. tables \in Seq(TableEntry)
    BY DEF Types, TableTypes
  <2>4. \A g : InList(g)' <=> InList(g) \/ g = fl.gen
    BY <1>1, <2>1, <2>3, ListGrows, Zenon
  <2>5. /\ \A g : HasHandle(g)' <=> fl.gen = g \/ HasHandle(g)
        /\ \A g \in DOMAIN handles' : g # fl.gen => handles'[g] = handles[g]
        /\ ~handles'[fl.gen].removeOnZero
    BY <2>1 DEF HasHandle, With, NewHandle
  <2>6. ~HasHandle(fl.gen) /\ ~InList(fl.gen) /\ ~Input(fl.gen) /\ fl.gen \in DOMAIN ssts
    BY <2>1, Zenon DEF FileInv, Fresh, Shelved
  <2>7. Named'
    BY <1>1, <1>2, <1>4, <2>1, <2>2, <2>5 DEF FileInv, Named
  <2>8. Fresh'
    BY <1>2, <1>4, <2>1, <2>2, <2>4, <2>5 DEF FileInv, Fresh
  <2>9. \A g \in DOMAIN handles' : handles'[g].removeOnZero => ~InList(g)'
    BY <2>4, <2>5, Zenon DEF FileInv, Shelved, HasHandle
  <2>10. Shelved'
    BY <1>2, <1>4, <2>1, <2>2, <2>4, <2>6, <2>9 DEF FileInv, Shelved
  <2> QED BY <1>3, <2>7, <2>8, <2>10 DEF FileInv
<1>8. CASE FlushStop \/ FlushRemoveWAL \/ FlushTrigger
  <2>1. UNCHANGED <<tables, handles, ssts, genCounter>>
    BY <1>8 DEF FlushStop, FlushRemoveWAL, FlushTrigger, tblVars, diskVars
  <2>2. \/ fl' = IdleFlush \/ fl' = [IdleFlush EXCEPT !.pc = "exited"]
        \/ fl' = [fl EXCEPT !.pc = "trigger"]
    BY <1>8 DEF FlushStop, FlushRemoveWAL, FlushTrigger
  <2>3. fl'.pc \in {"idle", "exited", "trigger"} /\ fl'.gen \in {0, fl.gen}
    BY <1>1, <2>2 DEF IdleFlush
  <2> QED BY <1>1, <1>2, <2>1, <2>3, FileFrame
<1> QED BY <1>5, <1>6, <1>7, <1>8 DEF FlushNext

\* Steps of the compaction worker that change nothing but itself.
LEMMA WorkerFiles ==
  ASSUME IInv, FileInv, UNCHANGED <<phase, tables, handles, ssts, fl, rd>>,
         phase \in {"up", "closing"},
         genCounter' \in Nat, genCounter <= genCounter',
         cp'.gen \in Nat, cp'.gen <= genCounter',
         \A g : Input(g)' => InList(g) \/ Input(g),
         cp'.pc \in {"merge", "commit"} =>
           /\ \A g : g = cp'.gen => ~HasHandle(g) /\ ~InList(g) /\ ~Input(g)'
           /\ fl.pc \in {"write", "commit"} => fl.gen # cp'.gen,
         fl.pc \in {"write", "commit"} => \A g : g = fl.gen => ~Input(g)',
         cp'.pc = "commit" => cp'.result # "ok",
         cp'.pc \in {"pin", "merge", "commit"} => \A g : Input(g)' => InList(g),
         cp'.pc = "retire" => \A g : Input(g)' => ~InList(g),
         cp'.pc \in {"idle", "pick", "exited"} => \A g : ~Input(g)'
  PROVE  FileInv'
<1>1. \A g : (InList(g)' <=> InList(g)) /\ (HasHandle(g)' <=> HasHandle(g))
  BY Zenon DEF InList, HasHandle
<1>2. genCounter \in Nat /\ fl.gen \in Nat /\ DOMAIN ssts \in SUBSET Nat
  BY Zenon DEF IInv, Typed, Files
<1>3. Stages'
  BY Zenon DEF Stages
<1>4. Named'
  <2>1. \A g : InList(g) => g \in Nat /\ g <= genCounter
    BY <1>2, Zenon DEF FileInv, Shelved, Named
  <2> QED BY <1>1, <1>2, <2>1 DEF FileInv, Named
<1>5. Fresh'
  BY <1>1, Zenon DEF FileInv, Fresh
<1>6. Shelved'
  BY <1>1, Zenon DEF FileInv, Shelved
<1> QED BY <1>3, <1>4, <1>5, <1>6 DEF FileInv

\* runCompaction up to its merge: the inputs are listed, the output is new.
LEMMA PlanFiles ==
  ASSUME IInv, Types, FileInv,
         CompactionWake \/ CompactionStop \/ CompactionPick \/ CompactionPin
           \/ CompactionMergeError \/ CompactionChain
  PROVE  FileInv'
<1> DEFINE A == CompactionWake \/ CompactionStop \/ CompactionPick \/ CompactionPin
                  \/ CompactionMergeError \/ CompactionChain
<1>1. /\ genCounter \in Nat /\ cp.gen \in Nat /\ cp.gen <= genCounter /\ fl.gen \in Nat
      /\ fl.gen <= genCounter /\ DOMAIN cp = CompactionFields /\ DOMAIN ssts \in SUBSET Nat
      /\ tables \in Seq(TableEntry)
  BY Zenon DEF IInv, Typed, Files, FileInv, Named, Types, TableTypes
<1>2. phase \in {"up", "closing"}
  BY WorkersRun DEF FileInv, CompactionNext
<1>3. UNCHANGED <<phase, tables, handles, ssts, fl, rd>>
  BY Zenon DEF CompactionWake, CompactionStop, CompactionPick, CompactionPin,
               CompactionMergeError, CompactionChain, lifeVars, tblVars, diskVars
<1>4. \A g : InList(g) => g \in Nat /\ g <= genCounter
  BY <1>1, <1>2, Zenon DEF FileInv, Shelved, Named
<1>5. CASE \/ cp' = IdleCompaction /\ UNCHANGED genCounter
           \/ \E pc \in {"pick", "exited"} : cp' = [IdleCompaction EXCEPT !.pc = pc]
                                             /\ UNCHANGED genCounter
  <2>1. cp'.pc \in {"idle", "pick", "exited"} /\ cp'.inputs = <<>> /\ cp'.gen = 0 /\ genCounter' = genCounter
    BY <1>5 DEF IdleCompaction
  <2>2. \A g : ~Input(g)'
    BY <2>1 DEF Input
  <2> QED BY <1>1, <1>2, <1>3, <2>1, <2>2, WorkerFiles
<1>6. CASE CompactionPick /\ PickCompaction # NoPlan
  <2>1. PICK lvl \in Nat : PickCompaction = Plan(lvl)
    BY <1>6, PickPlans
  <2>2. /\ cp' = [IdleCompaction EXCEPT !.pc = "pin", !.inputs = Plan(lvl).inputs,
                    !.target = Plan(lvl).target, !.bottom = IsBottommost(Plan(lvl).target)]
        /\ UNCHANGED genCounter
    BY <1>6, <2>1 DEF CompactionPick
  <2>3. cp'.pc = "pin" /\ cp'.inputs = Plan(lvl).inputs /\ cp'.gen = 0
    BY <2>2 DEF IdleCompaction
  <2>4. \A i \in DOMAIN Plan(lvl).inputs : \E p \in DOMAIN tables : tables[p].gen = Plan(lvl).inputs[i]
    BY <1>1, PlanLists, Zenon
  <2>5. \A g : Input(g)' => InList(g)
    BY <2>3, <2>4 DEF Input, InList
  <2>6. fl.pc \in {"write", "commit"} => \A g : g = fl.gen => ~Input(g)'
    BY <2>5, Zenon DEF FileInv, Fresh
  <2> QED BY <1>1, <1>2, <1>3, <2>2, <2>3, <2>5, <2>6, WorkerFiles
<1>7. CASE CompactionPin
  <2>1. PICK m : cp' = [cp EXCEPT !.pc = "merge", !.min = m, !.gen = genCounter + 1]
    BY <1>7, Zenon DEF CompactionPin
  <2>2. cp.pc = "pin" /\ genCounter' = genCounter + 1
    BY <1>7 DEF CompactionPin
  <2>3. cp'.pc = "merge" /\ cp'.inputs = cp.inputs /\ cp'.gen = genCounter + 1
    BY <1>1, <2>1 DEF CompactionFields
  <2>4. \A g : Input(g)' <=> Input(g)
    BY <2>3 DEF Input
  <2>5. ~HasHandle(genCounter + 1) /\ ~Input(genCounter + 1) /\ ~InList(genCounter + 1)
    BY <1>1, <1>4 DEF FileInv, Named
  <2>6. \A g : Input(g) => InList(g)
    BY <2>2, Zenon DEF FileInv, Shelved
  <2>7. fl.pc \in {"write", "commit"} => ~Input(fl.gen) /\ fl.gen # cp'.gen
    BY <1>1, <2>3 DEF FileInv, Fresh
  <2>8. genCounter' \in Nat /\ genCounter <= genCounter' /\ cp'.gen \in Nat /\ cp'.gen <= genCounter'
    BY <1>1, <2>2, <2>3
  <2> QED BY <1>2, <1>3, <2>3, <2>4, <2>5, <2>6, <2>7, <2>8, WorkerFiles, Zenon
<1>8. CASE CompactionMergeError
  <2>1. cp' = [cp EXCEPT !.pc = "commit", !.result = "failed"] /\ UNCHANGED genCounter /\ cp.pc = "merge"
    BY <1>8 DEF CompactionMergeError
  <2>2. cp'.pc = "commit" /\ cp'.inputs = cp.inputs /\ cp'.gen = cp.gen /\ cp'.result = "failed"
    BY <1>1, <2>1 DEF CompactionFields
  <2>3. \A g : Input(g)' <=> Input(g)
    BY <2>2 DEF Input
  <2>4. ~HasHandle(cp.gen) /\ ~InList(cp.gen) /\ ~Input(cp.gen)
    BY <2>1 DEF FileInv, Fresh
  <2>5. fl.pc \in {"write", "commit"} => ~Input(fl.gen) /\ fl.gen # cp.gen
    BY <2>1 DEF FileInv, Fresh
  <2>6. \A g : Input(g) => InList(g)
    BY <2>1 DEF FileInv, Shelved
  <2> QED BY <1>1, <1>2, <1>3, <2>1, <2>2, <2>3, <2>4, <2>5, <2>6, WorkerFiles
<1>9. \/ cp' = IdleCompaction /\ UNCHANGED genCounter
      \/ \E pc \in {"pick", "exited"} : cp' = [IdleCompaction EXCEPT !.pc = pc]
                                        /\ UNCHANGED genCounter
      \/ CompactionPick /\ PickCompaction # NoPlan
      \/ CompactionPin \/ CompactionMergeError
  BY DEF CompactionWake, CompactionStop, CompactionPick, CompactionChain
<1> QED BY <1>5, <1>6, <1>7, <1>8, <1>9

\* sstable.Merge writes its output under the new name.
LEMMA MergeFiles == IInv /\ FileInv /\ CompactionMerge => FileInv'
<1> SUFFICES ASSUME IInv, FileInv, CompactionMerge PROVE FileInv'
  OBVIOUS
<1>1. /\ genCounter \in Nat /\ cp.gen \in Nat /\ cp.gen <= genCounter /\ fl.gen \in Nat
      /\ DOMAIN cp = CompactionFields /\ DOMAIN ssts \in SUBSET Nat
  BY Zenon DEF IInv, Typed, Files, FileInv, Named
<1>2. phase \in {"up", "closing"}
  BY WorkersRun DEF FileInv, CompactionNext
<1>3. UNCHANGED <<phase, tables, handles, fl, rd, genCounter>> /\ cp.pc = "merge"
  BY DEF CompactionMerge, lifeVars, tblVars
<1>4. PICK R :
        /\ ssts' = IF R = {} THEN ssts
                   ELSE With(ssts, cp.gen, [level |-> cp.target, recs |-> R])
        /\ cp' = [cp EXCEPT !.pc = "commit", !.result = IF R = {} THEN "empty" ELSE "ok"]
  BY Zenon DEF CompactionMerge
<1>5. /\ cp'.pc = "commit" /\ cp'.inputs = cp.inputs /\ cp'.gen = cp.gen
      /\ cp'.result = IF R = {} THEN "empty" ELSE "ok"
  BY <1>1, <1>4 DEF CompactionFields
<1>6. /\ DOMAIN ssts \subseteq DOMAIN ssts' /\ DOMAIN ssts' \subseteq DOMAIN ssts \cup {cp.gen}
      /\ cp'.result = "ok" => cp.gen \in DOMAIN ssts'
  BY <1>4, <1>5 DEF With
<1>7. \A g : /\ InList(g)' <=> InList(g)
             /\ Input(g)' <=> Input(g)
             /\ HasHandle(g)' <=> HasHandle(g)
  BY <1>3, <1>5 DEF InList, Input, HasHandle
<1>8. Stages'
  BY <1>2, <1>3 DEF Stages
<1>9. Named'
  BY <1>1, <1>2, <1>3, <1>5, <1>6, <1>7, Zenon DEF FileInv, Named
<1>10. Fresh'
  BY <1>3, <1>5, <1>7, Zenon DEF FileInv, Fresh
<1>11. Shelved'
  BY <1>3, <1>5, <1>6, <1>7, Zenon DEF FileInv, Shelved
<1> QED BY <1>8, <1>9, <1>10, <1>11 DEF FileInv

\* The swap under e.mu takes the inputs off the list and puts the output on it.
LEMMA CommitFiles == IInv /\ Types /\ FileInv /\ CompactionCommit => FileInv'
<1> SUFFICES ASSUME IInv, Types, FileInv, CompactionCommit PROVE FileInv'
  OBVIOUS
<1>1. /\ genCounter \in Nat /\ cp.gen \in Nat /\ cp.gen <= genCounter /\ fl.gen \in Nat
      /\ DOMAIN cp = CompactionFields /\ cp.target \in Nat /\ tables \in Seq(TableEntry)
  BY Zenon DEF IInv, Typed, FileInv, Named, Types, CompactionTypes, TableTypes
<1>2. phase \in {"up", "closing"}
  BY WorkersRun DEF FileInv, CompactionNext
<1>3. /\ UNCHANGED <<phase, ssts, fl, rd, genCounter>> /\ cp.pc = "commit"
      /\ cp' = [cp EXCEPT !.pc = "retire"]
  BY DEF CompactionCommit, lifeVars, diskVars
<1>4. cp'.pc = "retire" /\ cp'.inputs = cp.inputs /\ cp'.gen = cp.gen
  BY <1>1, <1>3 DEF CompactionFields
<1>5. \A g : Input(g)' <=> Input(g)
  BY <1>4 DEF Input
<1>7. \/ /\ cp.result = "ok" /\ handles' = With(handles, cp.gen, NewHandle)
         /\ \A g : InList(g)' <=> cp.gen = g \/ (InList(g) /\ ~Input(g))
      \/ UNCHANGED handles /\ \A g : InList(g)' <=> InList(g) /\ ~Input(g)
  BY <1>1, CommitEffect, Zenon
<1>8. ~HasHandle(cp.gen) /\ ~InList(cp.gen) /\ ~Input(cp.gen)
  BY <1>3 DEF FileInv, Fresh
<1>9. /\ \A g : HasHandle(g)' => cp.gen = g \/ HasHandle(g)
      /\ \A g \in DOMAIN handles' : \/ g = cp.gen /\ ~handles'[g].removeOnZero
                                    \/ g \in DOMAIN handles /\ handles'[g] = handles[g] /\ g # cp.gen
  BY <1>7, <1>8 DEF HasHandle, With, NewHandle
<1>10. Stages'
  BY <1>2, <1>3, Zenon DEF Stages
<1>11. Named'
  BY <1>1, <1>2, <1>3, <1>4, <1>5, <1>9, Zenon DEF FileInv, Named
<1>12. \A g : InList(g)' => cp.gen = g \/ (InList(g) /\ ~Input(g))
  BY <1>7, Zenon
<1>13. Fresh'
  BY <1>3, <1>4, <1>5, <1>9, <1>12 DEF FileInv, Fresh
<1>14. \A g : InList(g)' => g \in DOMAIN ssts
  BY <1>3, <1>7, Zenon DEF FileInv, Shelved
<1>15. \A g : Input(g) => ~InList(g)'
  BY <1>8, <1>12
<1>16. \A g \in DOMAIN handles' : handles'[g].removeOnZero => ~InList(g)'
  BY <1>9, <1>12, Zenon DEF FileInv, Shelved
<1>17. Shelved'
  BY <1>3, <1>4, <1>5, <1>14, <1>15, <1>16 DEF FileInv, Shelved
<1> QED BY <1>10, <1>11, <1>13, <1>17 DEF FileInv

\* A pass that fails leaves a list of tables that were listed before.
LEMMA AbortFiles == IInv /\ Types /\ FileInv /\ CompactionAbort => FileInv'
<1> SUFFICES ASSUME IInv, Types, FileInv, CompactionAbort PROVE FileInv'
  OBVIOUS
<1>1. /\ genCounter \in Nat /\ fl.gen \in Nat /\ tables \in Seq(TableEntry)
      /\ DOMAIN ssts \in SUBSET Nat
  BY Zenon DEF IInv, Typed, Files, Types, TableTypes
<1>2. phase \in {"up", "closing"}
  BY WorkersRun DEF FileInv, CompactionNext
<1>3. /\ UNCHANGED <<phase, handles, ssts, fl, rd, genCounter>> /\ cp' = IdleCompaction
      /\ tables' = [i \in DOMAIN tables |-> IF i <= Len(Remaining) THEN Remaining[i] ELSE tables[i]]
  BY Zenon DEF CompactionAbort, lifeVars, diskVars
<1>4. cp'.pc = "idle" /\ cp'.inputs = <<>> /\ cp'.gen = 0
  BY <1>3, Zenon DEF IdleCompaction
<1>5. \A g : ~Input(g)'
  BY <1>4 DEF Input
<1>6. \A g : InList(g)' => InList(g)
  <2>1. /\ Remaining \in Seq(TableEntry)
        /\ \A i \in DOMAIN Remaining : \E p \in DOMAIN tables : Remaining[i] = tables[p]
    BY <1>1, RemainingList, Zenon
  <2>2. \A i \in DOMAIN tables : i <= Len(Remaining) => i \in DOMAIN Remaining
    BY <1>1, <2>1
  <2>3. DOMAIN tables' = DOMAIN tables
        /\ \A i \in DOMAIN tables : tables'[i] = IF i <= Len(Remaining) THEN Remaining[i] ELSE tables[i]
    BY <1>3
  <2> QED BY <2>1, <2>2, <2>3 DEF InList
<1>7. \A g : HasHandle(g)' <=> HasHandle(g)
  BY <1>3 DEF HasHandle
<1>8. Stages'
  BY <1>2, <1>3 DEF Stages
<1>9. Named'
  BY <1>1, <1>2, <1>3, <1>4, <1>5, <1>7 DEF FileInv, Named
<1>10. Fresh'
  BY <1>3, <1>4, <1>5, <1>6, <1>7, Zenon DEF FileInv, Fresh
<1>11. Shelved'
  BY <1>3, <1>4, <1>5, <1>6, Zenon DEF FileInv, Shelved
<1> QED BY <1>8, <1>9, <1>10, <1>11 DEF FileInv

\* Giving up a reference deletes no file that is listed or about to be, when
\* a retired table is off the list.
LEMMA ReleaseKeepsFiles ==
  ASSUME Types, FileInv, NEW g, NEW retire \in BOOLEAN, Release(g, retire),
         retire => ~InList(g),
         retire => (fl.pc \in {"write", "commit"} => fl.gen # g),
         retire => (cp.pc \in {"merge", "commit"} => cp.gen # g)
  PROVE  /\ \A h : HasHandle(h)' => HasHandle(h)
         /\ \A h \in DOMAIN ssts' : h \in DOMAIN ssts
         /\ \A h : InList(h) => h \in DOMAIN ssts'
         /\ fl.pc = "commit" => fl.gen \in DOMAIN ssts'
         /\ cp.pc = "commit" /\ cp.result = "ok" => cp.gen \in DOMAIN ssts'
         /\ \A h \in DOMAIN handles' : handles'[h].removeOnZero => ~InList(h)
<1>0. TableTypes
  BY DEF Types
<1>1. /\ \A h : h # g =>
           /\ h \in DOMAIN handles' <=> h \in DOMAIN handles
           /\ h \in DOMAIN handles => handles'[h] = handles[h]
           /\ h \in DOMAIN ssts' <=> h \in DOMAIN ssts
      /\ \A h \in DOMAIN ssts' : h \in DOMAIN ssts
      /\ g \in DOMAIN handles' => g \in DOMAIN handles
      /\ g \in DOMAIN handles' => handles'[g].removeOnZero = (handles[g].removeOnZero \/ retire)
      /\ ~retire /\ (g \in DOMAIN handles => ~handles[g].removeOnZero) => ssts' = ssts
  BY <1>0, ReleaseEffect, Zenon
<1>2. /\ \A h : InList(h) => h \in DOMAIN ssts
      /\ \A h \in DOMAIN handles : handles[h].removeOnZero => ~InList(h)
      /\ fl.pc = "commit" => fl.gen \in DOMAIN ssts /\ fl.gen \notin DOMAIN handles
      /\ cp.pc = "commit" => cp.gen \notin DOMAIN handles
      /\ cp.pc = "commit" /\ cp.result = "ok" => cp.gen \in DOMAIN ssts
  BY Zenon DEF FileInv, Shelved, Fresh, HasHandle
<1>3. \A h : HasHandle(h)' => HasHandle(h)
  BY <1>1, Zenon DEF HasHandle
<1>4. \A h : InList(h) => h \in DOMAIN ssts'
  BY <1>1, <1>2, Zenon
<1>5. \A h \in DOMAIN handles' : handles'[h].removeOnZero => ~InList(h)
  BY <1>1, <1>2, Zenon
<1>6. fl.pc = "commit" => fl.gen \in DOMAIN ssts'
  BY <1>1, <1>2, Zenon
<1>7. cp.pc = "commit" /\ cp.result = "ok" => cp.gen \in DOMAIN ssts'
  BY <1>1, <1>2, Zenon
<1> QED BY <1>1, <1>3, <1>4, <1>5, <1>6, <1>7, Zenon

\* Retiring an input keeps the files of the others.
LEMMA RetireFiles == IInv /\ Types /\ FileInv /\ CompactionRetire => FileInv'
<1> SUFFICES ASSUME IInv, Types, FileInv, CompactionRetire PROVE FileInv'
  OBVIOUS
<1>1. /\ genCounter \in Nat /\ cp.gen \in Nat /\ cp.gen <= genCounter
      /\ DOMAIN cp = CompactionFields /\ cp.inputs \in Seq(Nat)
  BY Zenon DEF IInv, Typed, FileInv, Named, Types, CompactionTypes
<1>2. phase \in {"up", "closing"}
  BY WorkersRun DEF FileInv, CompactionNext
<1>3. /\ UNCHANGED <<phase, tables, fl, rd, genCounter>> /\ cp.pc = "retire" /\ cp.inputs # <<>>
      /\ Release(Head(cp.inputs), TRUE) /\ cp' = [cp EXCEPT !.inputs = Tail(@)]
  BY Zenon DEF CompactionRetire, lifeVars
<1>4. cp'.pc = "retire" /\ cp'.inputs = Tail(cp.inputs) /\ cp'.gen = cp.gen
  BY <1>1, <1>3 DEF CompactionFields
<1>5. Input(Head(cp.inputs))
  <2>1. 1 \in DOMAIN cp.inputs /\ Head(cp.inputs) = cp.inputs[1]
    BY <1>1, <1>3
  <2> QED BY <2>1 DEF Input
<1>6. \A g : Input(g)' => Input(g)
  <2>1. \A i \in DOMAIN Tail(cp.inputs) : i + 1 \in DOMAIN cp.inputs /\ Tail(cp.inputs)[i] = cp.inputs[i + 1]
    BY <1>1, <1>3
  <2> QED BY <1>4, <2>1, Zenon DEF Input
<1>7. ~InList(Head(cp.inputs)) /\ (fl.pc \in {"write", "commit"} => fl.gen # Head(cp.inputs))
  BY <1>3, <1>5 DEF FileInv, Shelved, Fresh
<1>8. \A g : InList(g)' <=> InList(g)
  BY <1>3 DEF InList
<1>9. /\ \A h : HasHandle(h)' => HasHandle(h)
      /\ \A h \in DOMAIN ssts' : h \in DOMAIN ssts
      /\ \A h : InList(h) => h \in DOMAIN ssts'
      /\ fl.pc = "commit" => fl.gen \in DOMAIN ssts'
      /\ \A h \in DOMAIN handles' : handles'[h].removeOnZero => ~InList(h)
  BY <1>3, <1>7, ReleaseKeepsFiles, Zenon
<1>10. Stages'
  BY <1>2, <1>3 DEF Stages
<1>11. Named'
  BY <1>1, <1>2, <1>3, <1>4, <1>6, <1>9 DEF FileInv, Named
<1>12. Fresh'
  BY <1>3, <1>4, <1>6, <1>8, <1>9 DEF FileInv, Fresh
<1>13. Shelved'
  BY <1>3, <1>4, <1>6, <1>8, <1>9, Zenon DEF FileInv, Shelved
<1> QED BY <1>10, <1>11, <1>12, <1>13 DEF FileInv

\* Readers keep the files of the list.
LEMMA ReaderFiles == IInv /\ Types /\ FileInv /\ ReaderNext => FileInv'
<1> SUFFICES ASSUME IInv, Types, FileInv, NEW r \in Readers,
                    \/ \E k \in Keys : Get(r, k)
                    \/ Scan(r)
                    \/ \E s \in Snapshots : SnapshotScan(r, s)
                    \/ ReadResolve(r) \/ ReadRelease(r) \/ ReadReturn(r)
             PROVE  FileInv'
  BY DEF ReaderNext
<1>1. UNCHANGED <<phase, genCounter, tables, fl, cp>>
  BY ReaderTouches DEF ReaderNext, lifeVars
<1>2. genCounter \in Nat /\ fl.gen \in Nat /\ fl.gen <= genCounter /\ DOMAIN ssts \in SUBSET Nat
  BY Zenon DEF IInv, Typed, Files, FileInv, Named
<1>3. rd[r].pc # "idle" => phase \notin {"down", "recovering"}
  <2>1. IdleReader.pc = "idle"
    BY Zenon DEF IdleReader
  <2> QED BY <2>1, Zenon DEF FileInv, Stages
<1>4. ASSUME NEW K, NEW max, ReadBegin(r, K, max) PROVE FileInv'
  <2>1. /\ phase = "up" /\ UNCHANGED ssts
        /\ handles' = [g \in DOMAIN handles |->
             [handles[g] EXCEPT !.refCount =
                @ + Cardinality({i \in DOMAIN tables : tables[i].gen = g})]]
    BY <1>4 DEF ReadBegin, diskVars
  <2>2. \A g \in DOMAIN handles : handles[g] \in Handle
    BY Zenon DEF Types, TableTypes
  <2>3. \A h \in Handle : \A n : [h EXCEPT !.refCount = @ + n].removeOnZero = h.removeOnZero
    BY DEF Handle
  <2>4. \A g \in DOMAIN handles : handles'[g].removeOnZero = handles[g].removeOnZero
    BY <2>1, <2>2, <2>3, Zenon
  <2>5. DOMAIN handles' = DOMAIN handles
    BY <2>1
  <2>6. /\ genCounter' \in Nat /\ genCounter <= genCounter' /\ fl'.gen \in Nat /\ fl'.gen <= genCounter'
        /\ fl'.gen = fl.gen /\ fl'.pc = fl.pc /\ phase \notin {"down", "recovering"}
        /\ UNCHANGED <<phase, tables, ssts, cp>>
    BY <1>1, <1>2, <2>1
  <2> QED BY <2>4, <2>5, <2>6, FileFrame, Zenon
<1>5. CASE ReadResolve(r) \/ ReadReturn(r)
  <2>1. UNCHANGED <<handles, ssts>> /\ rd[r].pc # "idle"
    BY <1>5, Zenon DEF ReadResolve, ReadReturn, tblVars, diskVars
  <2> QED BY <1>1, <1>2, <1>3, <2>1, FileFrame
<1>6. CASE ReadRelease(r)
  <2>1. Release(Head(rd[r].tbs), FALSE) /\ rd[r].pc # "idle"
    BY <1>6, Zenon DEF ReadRelease
  <2>2. /\ \A h : HasHandle(h)' => HasHandle(h)
        /\ \A h \in DOMAIN ssts' : h \in DOMAIN ssts
        /\ \A h : InList(h) => h \in DOMAIN ssts'
        /\ fl.pc = "commit" => fl.gen \in DOMAIN ssts'
        /\ cp.pc = "commit" /\ cp.result = "ok" => cp.gen \in DOMAIN ssts'
        /\ \A h \in DOMAIN handles' : handles'[h].removeOnZero => ~InList(h)
    BY <2>1, ReleaseKeepsFiles, Zenon
  <2>3. \A g : (InList(g)' <=> InList(g)) /\ (Input(g)' <=> Input(g))
    BY <1>1, Zenon DEF InList, Input
  <2>4. Stages'
    BY <1>1, <1>3, <2>1, Zenon DEF FileInv, Stages, WorkersExited
  <2>5. Named'
    BY <1>1, <2>2, <2>3, Zenon DEF FileInv, Named
  <2>6. Fresh'
    BY <1>1, <2>2, <2>3, Zenon DEF FileInv, Fresh
  <2>7. Shelved'
    BY <1>1, <2>2, <2>3, Zenon DEF FileInv, Shelved
  <2> QED BY <2>4, <2>5, <2>6, <2>7 DEF FileInv
<1> QED BY <1>4, <1>5, <1>6, Zenon DEF Get, Scan, SnapshotScan

\* Open and Close keep the files of the list; the end of the process has no list.
LEMMA LifecycleFiles == IInv /\ Types /\ FileInv /\ LifecycleNext => FileInv'
<1> SUFFICES ASSUME IInv, Types, FileInv, LifecycleNext PROVE FileInv'
  OBVIOUS
<1>1. /\ genCounter \in Nat /\ cp.gen \in Nat /\ cp.gen <= genCounter /\ fl.gen \in Nat
      /\ fl.gen <= genCounter /\ DOMAIN ssts \in SUBSET Nat /\ tables \in Seq(TableEntry)
  BY Zenon DEF IInv, Typed, Files, FileInv, Named, Types, TableTypes
<1>2. CASE Exit
  <2>1. /\ tables' = <<>> /\ handles' = <<>> /\ phase' = "down" /\ genCounter' = 0 /\ fl' = IdleFlush
        /\ cp' = IdleCompaction /\ \A r \in Readers : rd'[r] = IdleReader
    BY <1>2 DEF Exit, AllIdle
  <2>2. \A g : ~InList(g)' /\ ~Input(g)' /\ ~HasHandle(g)'
    BY <2>1 DEF InList, Input, HasHandle, IdleCompaction
  <2>3. Stages'
    BY <2>1 DEF Stages
  <2>4. Named' /\ Fresh' /\ Shelved'
    BY <2>1, <2>2 DEF Named, Fresh, Shelved, HasHandle, IdleFlush, IdleCompaction
  <2> QED BY <2>3, <2>4, Zenon DEF FileInv
<1>3. CASE OpenRecover
  <2> DEFINE top == Max({0} \cup DOMAIN wals \cup DOMAIN ssts)
             e == [level |-> 0, gen |-> top + 1]
             none == LoggedRecords = {}
  <2>1. Files /\ FileTypes
    BY Zenon DEF IInv, Types
  <2>2. top \in Nat /\ \A g \in DOMAIN ssts : g <= top
    BY <2>1, RecoveredCounters, Zenon
  <2>3. /\ Found \in Seq(TableEntry) /\ \A i \in DOMAIN Found : Found[i].gen \in DOMAIN ssts
    BY <2>1, FoundLists, Zenon
  <2>4. /\ phase = "down" /\ phase' = "recovering" /\ UNCHANGED <<fl, cp, rd>>
        /\ genCounter' = IF none THEN top ELSE top + 1
        /\ ssts' = IF none THEN ssts ELSE With(ssts, top + 1, [level |-> 0, recs |-> LoggedRecords])
        /\ tables' = IF none THEN Found ELSE Append(Found, e)
        /\ handles' = [g \in DOMAIN ssts' |-> NewHandle]
    BY <1>3, Zenon DEF OpenRecover
  <2>5. e \in TableEntry /\ e.gen = top + 1
    BY <2>2 DEF TableEntry
  <2> HIDE DEF top, e, none
  <2>6. DOMAIN ssts' = IF none THEN DOMAIN ssts ELSE DOMAIN ssts \cup {top + 1}
    BY <2>4 DEF With
  <2>7. \A g \in DOMAIN ssts' : g \in Nat /\ g <= genCounter'
    BY <1>1, <2>2, <2>4, <2>6
  <2>8. \A g : InList(g)' => g \in DOMAIN ssts'
    <3>1. CASE none
      BY <2>3, <2>4, <2>6, <3>1, Zenon DEF InList
    <3>2. CASE ~none
      <4>1. tables' = Append(Found, e)
        BY <2>4, <3>2, Zenon
      <4>2. \A g : InList(g)' <=> e.gen = g \/ \E i \in DOMAIN Found : Found[i].gen = g
        BY <2>3, <2>5, <4>1, InListAppend
      <4> QED BY <2>3, <2>5, <2>6, <3>2, <4>2, Zenon
    <3> QED BY <3>1, <3>2
  <2>9. /\ \A g : HasHandle(g)' <=> g \in DOMAIN ssts'
        /\ \A g \in DOMAIN handles' : ~handles'[g].removeOnZero
    BY <2>4, Zenon DEF HasHandle, NewHandle
  <2>10. cp = IdleCompaction /\ fl = IdleFlush /\ \A r \in Readers : rd[r] = IdleReader
    BY <2>4, Zenon DEF FileInv, Stages, IInv, Quiet
  <2>11. /\ fl'.pc = "idle" /\ fl'.gen = 0 /\ cp'.pc = "idle" /\ cp'.gen = 0 /\ \A g : ~Input(g)'
    BY <2>4, <2>10 DEF Input, IdleCompaction, IdleFlush
  <2>12. genCounter' \in Nat
    BY <2>2, <2>4
  <2>13. Stages'
    BY <2>4, <2>10, Zenon DEF Stages
  <2>14. Named'
    BY <2>7, <2>9, <2>11, <2>12 DEF Named
  <2>15. Fresh' /\ Shelved'
    BY <2>8, <2>9, <2>11, Zenon DEF Fresh, Shelved
  <2> QED BY <2>13, <2>14, <2>15 DEF FileInv
<1>4. CASE OpenRemoveWAL
  <2>1. UNCHANGED <<phase, tables, handles, ssts, cp, fl, rd, genCounter>>
    BY <1>4, Zenon DEF OpenRemoveWAL, tblVars
  <2> QED BY <1>1, <2>1, FileFrame
<1>5. CASE OpenFinish \/ CloseBegin \/ CloseWALError \/ CloseFlushError
  <2>1. /\ UNCHANGED <<tables, handles, fl, cp, rd>> /\ phase # "down"
        /\ genCounter' \in {genCounter, genCounter + 1}
        /\ DOMAIN ssts \subseteq DOMAIN ssts'
        /\ \A g \in DOMAIN ssts' : g \in DOMAIN ssts \/ g = genCounter'
    BY <1>5, Zenon DEF OpenFinish, CloseBegin, CloseWALError, CloseFlushError, tblVars, diskVars, With
  <2>2. /\ phase' \in {"up", "closing", "closed"}
        /\ phase' = "closed" => phase = "locked" \/ WorkersExited
    BY <1>5, Zenon DEF OpenFinish, CloseBegin, CloseWALError, CloseFlushError
  <2>3. \A g : (InList(g)' <=> InList(g)) /\ (Input(g)' <=> Input(g)) /\ (HasHandle(g)' <=> HasHandle(g))
    BY <2>1, Zenon DEF InList, Input, HasHandle
  <2>4. Stages'
    BY <2>1, <2>2, Zenon DEF FileInv, Stages, WorkersExited
  <2>5. Named'
    BY <1>1, <2>1, <2>3 DEF FileInv, Named
  <2>6. Fresh' /\ Shelved'
    BY <2>1, <2>3, Zenon DEF FileInv, Fresh, Shelved
  <2> QED BY <2>4, <2>5, <2>6 DEF FileInv
<1>6. CASE CloseFlush
  <2>1. /\ phase = "closing" /\ WorkersExited /\ phase' = "locked" /\ UNCHANGED <<fl, cp, rd>>
        /\ \/ UNCHANGED <<genCounter, ssts, tables, handles>>
           \/ /\ genCounter' = genCounter + 1
              /\ ssts' = With(ssts, genCounter + 1, [level |-> 0, recs |-> RecordsOf(mts[mem])])
              /\ tables' = Append(tables, [level |-> 0, gen |-> genCounter + 1])
              /\ handles' = With(handles, genCounter + 1, NewHandle)
    BY <1>6, Zenon DEF CloseFlush, tblVars
  <2>2. Stages'
    BY <2>1, Zenon DEF Stages, WorkersExited
  <2>3. \A g : Input(g)' <=> Input(g)
    BY <2>1, Zenon DEF Input
  <2>4. CASE UNCHANGED <<genCounter, ssts, tables, handles>>
    <3>1. \A g : (InList(g)' <=> InList(g)) /\ (HasHandle(g)' <=> HasHandle(g))
      BY <2>4 DEF InList, HasHandle
    <3>2. Named' /\ Fresh' /\ Shelved'
      BY <2>1, <2>3, <2>4, <3>1, Zenon DEF FileInv, Named, Fresh, Shelved
    <3> QED BY <2>2, <3>2 DEF FileInv
  <2>5. CASE /\ genCounter' = genCounter + 1
             /\ ssts' = With(ssts, genCounter + 1, [level |-> 0, recs |-> RecordsOf(mts[mem])])
             /\ tables' = Append(tables, [level |-> 0, gen |-> genCounter + 1])
             /\ handles' = With(handles, genCounter + 1, NewHandle)
    <3>1. genCounter + 1 \in Nat
      BY <1>1
    <3>4. \A g : InList(g)' <=> InList(g) \/ g = genCounter + 1
      BY <1>1, <2>5, <3>1, ListGrows, Zenon
    <3>5. DOMAIN ssts' = DOMAIN ssts \cup {genCounter + 1}
      BY <2>5, Zenon DEF With
    <3>6. /\ \A g : HasHandle(g)' <=> genCounter + 1 = g \/ HasHandle(g)
          /\ \A g \in DOMAIN handles' : \/ g = genCounter + 1 /\ ~handles'[g].removeOnZero
                                        \/ g \in DOMAIN handles /\ handles'[g] = handles[g] /\ g # genCounter + 1
      BY <2>5, Zenon DEF HasHandle, With, NewHandle
    <3>7. Named'
      BY <1>1, <2>1, <2>3, <2>5, <3>5, <3>6 DEF FileInv, Named
    <3>8. Fresh'
      BY <2>1, Zenon DEF Fresh, WorkersExited
    <3>9. Shelved'
      BY <2>1, <2>3, <3>4, <3>5, <3>6, Zenon DEF FileInv, Shelved, WorkersExited
    <3> QED BY <2>2, <3>7, <3>8, <3>9 DEF FileInv
  <2> QED BY <2>1, <2>4, <2>5, Zenon
<1>7. CASE CloseFinish
  <2> DEFINE c(g) == Cardinality({i \in DOMAIN tables : tables[i].gen = g})
             kept == {g \in DOMAIN handles : handles[g].refCount > c(g)}
  <2>1. /\ handles' = [g \in kept |-> [handles[g] EXCEPT !.refCount = @ - c(g)]]
        /\ UNCHANGED <<tables, ssts, fl, cp, rd, genCounter>> /\ phase = "locked" /\ phase' = "closed"
    BY <1>7 DEF CloseFinish
  <2> HIDE DEF c
  <2>2. \A h \in Handle : \A n : [h EXCEPT !.refCount = @ - n].removeOnZero = h.removeOnZero
    BY DEF Handle
  <2>3. \A g \in DOMAIN handles : handles[g] \in Handle
    BY Zenon DEF Types, TableTypes
  <2>4. \A g \in DOMAIN handles' : g \in DOMAIN handles /\ handles'[g].removeOnZero = handles[g].removeOnZero
    BY <2>1, <2>2, <2>3
  <2>5. /\ \A g : (InList(g)' <=> InList(g)) /\ (Input(g)' <=> Input(g))
        /\ \A g : HasHandle(g)' => HasHandle(g)
    BY <2>1, <2>4 DEF InList, Input, HasHandle
  <2>6. Stages'
    BY <2>1 DEF FileInv, Stages, WorkersExited
  <2>7. Named'
    BY <2>1, <2>5 DEF FileInv, Named
  <2>8. Fresh' /\ Shelved'
    BY <2>1, <2>4, <2>5, Zenon DEF FileInv, Fresh, Shelved
  <2> QED BY <2>6, <2>7, <2>8 DEF FileInv
<1> QED BY <1>2, <1>3, <1>4, <1>5, <1>6, <1>7 DEF LifecycleNext

\* Every step keeps FileInv.
LEMMA FileInvStep ==
  ASSUME IInv, Types, FileInv, [Next]_vars
  PROVE  FileInv'
<1>1. CASE UNCHANGED vars
  <2>1. UNCHANGED <<phase, tables, handles, ssts, cp, fl, rd, genCounter>>
    BY <1>1, Zenon DEF vars, lifeVars, tblVars, diskVars
  <2>2. genCounter \in Nat /\ fl.gen \in Nat /\ fl.gen <= genCounter
    BY Zenon DEF IInv, Typed, FileInv, Named
  <2> QED BY <2>1, <2>2, FileFrame
<1>2. CASE CompactionNext
  BY <1>2, PlanFiles, MergeFiles, CommitFiles, AbortFiles, RetireFiles, Zenon DEF CompactionNext
<1> QED BY <1>1, <1>2, ClientFiles, FlushFiles, ReaderFiles, LifecycleFiles, Zenon DEF Next

-----------------------------------------------------------------------------
(* The references.                                                         *)

\* Counting readers.
LEMMA ReaderSets ==
  ASSUME NEW S \in SUBSET Readers
  PROVE  /\ Cardinality(S) \in Nat
         /\ Cardinality(S) = 0 <=> S = {}
         /\ \A r \in S : Cardinality(S \ {r}) = Cardinality(S) - 1
         /\ \A r \in Readers : r \notin S => Cardinality(S \cup {r}) = Cardinality(S) + 1
<1>1. IsFiniteSet(S)
  BY ConstantsAssumption, FS_Subset, Zenon
<1> QED BY <1>1, FS_CardinalityType, FS_EmptySet, FS_AddElement, FS_RemoveElement, Zenon

\* A set with at most one element.
LEMMA OnePlace ==
  ASSUME Once, NEW g
  PROVE  Cardinality(Listed(g)) = IF InList(g) THEN 1 ELSE 0
<1>1. \A i, j \in Listed(g) : i = j
  BY Zenon DEF Once, Listed
<1>2. Listed(g) # {} <=> InList(g)
  BY DEF Listed, InList
<1> QED BY <1>1, <1>2, AtMostOne

\* The steps that move no reference.
LEMMA RefFrame ==
  ASSUME RefInv, UNCHANGED handles, \A g : Owned(g)' <=> Owned(g),
         \A g \in DOMAIN ssts : g \in DOMAIN ssts',
         \A r \in Readers : rd'[r].tbs = rd[r].tbs,
         phase' # "closed" => phase # "closed"
  PROVE  Opened' /\ Counted'
<1>1. \A g : Holders(g)' = Holders(g)
  BY DEF Holders, Holds
<1>2. \A g : HasHandle(g)' <=> HasHandle(g)
  BY DEF HasHandle
<1>3. Opened'
  BY <1>1, <1>2, Zenon DEF RefInv, Opened
<1>4. Counted'
  BY <1>1, Zenon DEF RefInv, Counted
<1> QED BY <1>3, <1>4, Zenon

\* A new table enters with the engine's reference.
LEMMA RefAdd ==
  ASSUME RefInv, NEW n, n \notin DOMAIN handles, handles' = With(handles, n, NewHandle),
         \A g : Owned(g)' <=> Owned(g) \/ g = n,
         \A g \in DOMAIN ssts : g \in DOMAIN ssts', n \in DOMAIN ssts',
         \A r \in Readers : rd'[r].tbs = rd[r].tbs, phase # "closed"
  PROVE  Opened' /\ Counted'
<1>1. \A g : Holders(g)' = Holders(g)
  BY Zenon DEF Holders, Holds
<1>2. /\ \A g : g \in DOMAIN handles' <=> g \in DOMAIN handles \/ g = n
      /\ \A g \in DOMAIN handles : handles'[g] = handles[g]
      /\ handles'[n].refCount = 1 /\ ~handles'[n].removeOnZero
  BY Zenon DEF With, NewHandle
<1>3. Cardinality(Holders(n)) = 0
  <2>1. Holders(n) = {} /\ Holders(n) \in SUBSET Readers
    BY Zenon DEF RefInv, Opened, HasHandle, Holders
  <2> QED BY <2>1, ReaderSets, Zenon
<1>4. Opened'
  BY <1>1, <1>2, Zenon DEF RefInv, Opened, HasHandle
<1>5. Counted'
  <2>1. ASSUME NEW g \in DOMAIN handles', g # n
        PROVE  /\ handles'[g] = handles[g] /\ g \in DOMAIN handles
               /\ Holders(g)' = Holders(g) /\ (Owned(g)' <=> Owned(g))
    BY <1>1, <1>2, <2>1, Zenon
  <2>2. handles'[n].refCount = 1 /\ Cardinality(Holders(n)') = 0 /\ Owned(n)'
    BY <1>1, <1>2, <1>3, Zenon
  <2>3. 1 = 0 + 1 /\ 1 >= 1
    OBVIOUS
  <2>4. ASSUME NEW g \in DOMAIN handles'
        PROVE  /\ \/ handles'[g].refCount = Cardinality(Holders(g)')
                  \/ handles'[g].refCount = Cardinality(Holders(g)') + 1
               /\ handles'[g].refCount >= 1
               /\ Owned(g)' <=> handles'[g].refCount = Cardinality(Holders(g)') + 1
               /\ handles'[g].removeOnZero /\ ~Owned(g)' =>
                    handles'[g].refCount = Cardinality(Holders(g)')
    <3>1. CASE g = n
      BY <2>2, <2>3, <3>1, Zenon
    <3>2. CASE g # n
      BY <2>1, <3>2, Zenon DEF RefInv, Counted
    <3> QED BY <3>1, <3>2, Zenon
  <2> QED BY <2>4, Zenon DEF Counted
<1> QED BY <1>4, <1>5, Zenon

\* Lists that stay as they are.
LEMMA OnceFrame ==
  ASSUME RefInv, UNCHANGED tables,
         \A i, j \in DOMAIN cp'.inputs : cp'.inputs[i] = cp'.inputs[j] => i = j,
         \A r \in Readers : rd'[r] = rd[r]
  PROVE  Once'
  BY Zenon DEF RefInv, Once

\* Readers that keep their tables.
LEMMA ReaderOnce ==
  ASSUME RefInv, UNCHANGED <<tables, cp>>,
         \A r \in Readers : /\ rd'[r].tbs = rd[r].tbs
                            /\ rd'[r].pc = "idle" => rd'[r].tbs = <<>>
  PROVE  Once'
<1>1. \A r \in Readers : \A i, j \in DOMAIN rd'[r].tbs : rd'[r].tbs[i] = rd'[r].tbs[j] => i = j
  BY Zenon DEF RefInv, Once
<1> QED BY <1>1, Zenon DEF RefInv, Once

\* Writers and snapshots move no reference.
LEMMA ClientRefs ==
  IInv /\ FileInv /\ RefInv /\ (WriterNext \/ SnapshotNext \/ UNCHANGED vars) => RefInv'
<1> SUFFICES ASSUME IInv, FileInv, RefInv, WriterNext \/ SnapshotNext \/ UNCHANGED vars PROVE RefInv'
  OBVIOUS
<1>1. UNCHANGED <<phase, tables, handles, ssts, cp, rd>>
  BY WriterTouches, SnapshotTouches DEF vars, lifeVars, tblVars, diskVars
<1>2. \A g : Owned(g)' <=> Owned(g)
  BY <1>1, Zenon DEF Owned, InList, Input
<1>3. Once'
  BY <1>1, Zenon DEF RefInv, Once
<1> QED BY <1>1, <1>2, <1>3, RefFrame, Zenon DEF RefInv

\* The flush worker adds its table to the list.
LEMMA FlushRefs == IInv /\ Types /\ FileInv /\ RefInv /\ FlushNext => RefInv'
<1> SUFFICES ASSUME IInv, Types, FileInv, RefInv, FlushNext PROVE RefInv'
  OBVIOUS
<1>1. UNCHANGED <<phase, cp, rd>> /\ phase # "closed"
  BY FlushTouches, WorkersRun DEF lifeVars, FileInv
<1>2. CASE FlushCommit
  <2>1. /\ fl.pc = "commit" /\ tables' = Append(tables, [level |-> 0, gen |-> fl.gen])
        /\ handles' = With(handles, fl.gen, NewHandle) /\ UNCHANGED ssts
    BY <1>2 DEF FlushCommit, diskVars
  <2>2. tables \in Seq(TableEntry) /\ fl.gen \in Nat
    BY DEF Types, TableTypes, IInv, Typed
  <2>4. fl.gen \notin DOMAIN handles /\ ~InList(fl.gen) /\ ~Input(fl.gen) /\ fl.gen \in DOMAIN ssts
    BY <2>1, Zenon DEF FileInv, Fresh, Shelved, HasHandle
  <2>5. \A g : InList(g)' <=> InList(g) \/ g = fl.gen
    BY <2>1, <2>2, ListGrows, Zenon
  <2>7. \A g : Owned(g)' <=> Owned(g) \/ g = fl.gen
    BY <1>1, <2>5, Zenon DEF Owned, Input
  <2>8. \A i, j \in DOMAIN tables' : tables'[i].gen = tables'[j].gen => i = j
    BY <2>1, <2>2, <2>4, OnceGrows, Zenon DEF RefInv
  <2>9. Once'
    BY <1>1, <2>8, Zenon DEF RefInv, Once
  <2>10. Opened' /\ Counted'
    BY <1>1, <2>1, <2>4, <2>7, RefAdd, Zenon
  <2> QED BY <2>9, <2>10, Zenon DEF RefInv
<1>3. CASE ~FlushCommit
  <2>1. UNCHANGED <<tables, handles>> /\ \A g \in DOMAIN ssts : g \in DOMAIN ssts'
    BY <1>3, Zenon DEF FlushNext, FlushTake, FlushStop, FlushWrite, FlushError, FlushRemoveWAL,
                FlushTrigger, FlushFile, With, tblVars, diskVars
  <2>2. \A g : Owned(g)' <=> Owned(g)
    BY <1>1, <2>1, Zenon DEF Owned, InList, Input
  <2>3. Once'
    BY <1>1, <2>1, Zenon DEF RefInv, Once
  <2> QED BY <1>1, <2>1, <2>2, <2>3, RefFrame, Zenon DEF RefInv
<1> QED BY <1>2, <1>3

\* The compaction worker before its commit, and after the last input.
LEMMA PassRefs ==
  IInv /\ Types /\ FileInv /\ RefInv
    /\ (CompactionWake \/ CompactionStop \/ CompactionPick \/ CompactionPin
        \/ CompactionMerge \/ CompactionMergeError \/ CompactionChain)
  => RefInv'
<1> SUFFICES ASSUME IInv, Types, FileInv, RefInv,
                    CompactionWake \/ CompactionStop \/ CompactionPick \/ CompactionPin
                      \/ CompactionMerge \/ CompactionMergeError \/ CompactionChain
             PROVE  RefInv'
  BY Zenon
<1>1. CompactionNext
  BY Zenon DEF CompactionNext
<1>2. UNCHANGED <<phase, rd>>
  BY <1>1, CompactionTouches, Zenon DEF lifeVars
<1>3. UNCHANGED <<tables, handles>> /\ \A g \in DOMAIN ssts : g \in DOMAIN ssts'
  <2>1. CASE CompactionMerge
    <3>1. UNCHANGED tblVars /\ \E x : ssts' = ssts \/ ssts' = With(ssts, cp.gen, x)
      BY <2>1, Zenon DEF CompactionMerge
    <3> QED BY <3>1, Zenon DEF tblVars, With
  <2>2. CASE ~CompactionMerge
    <3>1. UNCHANGED <<tblVars, diskVars>>
      BY <2>2, Zenon DEF CompactionWake, CompactionStop, CompactionPick, CompactionPin,
                         CompactionMergeError, CompactionChain
    <3> QED BY <3>1 DEF tblVars, diskVars
  <2> QED BY <2>1, <2>2, Zenon
<1>4. DOMAIN cp = CompactionFields /\ tables \in Seq(TableEntry)
  BY Zenon DEF IInv, Typed, Types, TableTypes
<1>5. /\ \A i, j \in DOMAIN tables : tables[i].gen = tables[j].gen => i = j
      /\ \A i, j \in DOMAIN cp.inputs : cp.inputs[i] = cp.inputs[j] => i = j
  BY Zenon DEF RefInv, Once
<1>6. /\ \A i, j \in DOMAIN cp'.inputs : cp'.inputs[i] = cp'.inputs[j] => i = j
      /\ cp'.pc # "retire"
      /\ cp.pc # "retire" \/ cp.inputs = <<>>
  <2>1. CASE CompactionWake \/ CompactionStop \/ CompactionChain
    <3>1. cp' \in {[IdleCompaction EXCEPT !.pc = "pick"], [IdleCompaction EXCEPT !.pc = "exited"],
                   IdleCompaction}
          /\ (cp.pc = "idle" \/ cp.inputs = <<>>)
      BY <2>1, Zenon DEF CompactionWake, CompactionStop, CompactionChain
    <3>2. cp'.inputs = <<>> /\ cp'.pc # "retire"
      BY <3>1 DEF IdleCompaction
    <3> QED BY <3>1, <3>2
  <2>2. CASE CompactionPin \/ CompactionMerge \/ CompactionMergeError
    <3>1. cp'.inputs = cp.inputs /\ cp'.pc \in {"merge", "commit"} /\ cp.pc \in {"pin", "merge"}
      BY <1>4, <2>2, Zenon DEF CompactionPin, CompactionMerge, CompactionMergeError, CompactionFields
    <3> QED BY <1>5, <3>1, Zenon
  <2>3. CASE CompactionPick
    <3>1. CASE PickCompaction = NoPlan
      <4>1. cp'.inputs = <<>> /\ cp'.pc = "idle" /\ cp.pc = "pick"
        BY <2>3, <3>1, Zenon DEF CompactionPick, IdleCompaction
      <4> QED BY <4>1
    <3>2. CASE PickCompaction # NoPlan
      <4>1. PICK lvl \in Nat : PickCompaction = Plan(lvl)
        BY <3>2, PickPlans
      <4>2. cp'.inputs = Plan(lvl).inputs /\ cp'.pc = "pin" /\ cp.pc = "pick"
        BY <2>3, <3>2, <4>1 DEF CompactionPick, IdleCompaction
      <4>3. \A i, j \in DOMAIN Plan(lvl).inputs : Plan(lvl).inputs[i] = Plan(lvl).inputs[j] => i = j
        BY <1>4, <1>5, PlanLists, Zenon
      <4> QED BY <4>2, <4>3, Zenon
    <3> QED BY <3>1, <3>2, Zenon
  <2> QED BY <2>1, <2>2, <2>3, Zenon
<1>7. \A g : Owned(g)' <=> Owned(g)
  BY <1>3, <1>6 DEF Owned, InList, Input
<1>8. Once'
  BY <1>2, <1>3, <1>6, OnceFrame, Zenon
<1> QED BY <1>2, <1>3, <1>7, <1>8, RefFrame, Zenon DEF RefInv

\* The commit hands the engine's references on the inputs to the retirement.
LEMMA CommitRefs == IInv /\ Types /\ FileInv /\ RefInv /\ CompactionCommit => RefInv'
<1> SUFFICES ASSUME IInv, Types, FileInv, RefInv, CompactionCommit PROVE RefInv'
  OBVIOUS
<1>1. /\ tables \in Seq(TableEntry) /\ cp.target \in Nat /\ cp.gen \in Nat
      /\ DOMAIN cp = CompactionFields
  BY Zenon DEF IInv, Typed, Types, TableTypes, CompactionTypes
<1>2. phase \in {"up", "closing"}
  BY WorkersRun DEF FileInv, CompactionNext
<1>3. /\ UNCHANGED <<phase, ssts, rd>> /\ cp.pc = "commit" /\ cp' = [cp EXCEPT !.pc = "retire"]
  BY DEF CompactionCommit, lifeVars, diskVars
<1>4. cp'.pc = "retire" /\ cp'.inputs = cp.inputs
  BY <1>1, <1>3 DEF CompactionFields
<1>5. \A g : (Input(g)' <=> Input(g)) /\ (Input(g) => InList(g))
  BY <1>3, <1>4, Zenon DEF Input, FileInv, Shelved
<1>6. /\ cp.gen \notin DOMAIN handles /\ ~InList(cp.gen) /\ ~Input(cp.gen)
      /\ cp.result = "ok" => cp.gen \in DOMAIN ssts
  BY <1>3, Zenon DEF FileInv, Fresh, Shelved, HasHandle
<1>7. Once'
  <2>1. /\ \A i, j \in DOMAIN tables : tables[i].gen = tables[j].gen => i = j
        /\ \A i, j \in DOMAIN cp.inputs : cp.inputs[i] = cp.inputs[j] => i = j
        /\ \A r \in Readers : \A i, j \in DOMAIN rd[r].tbs : rd[r].tbs[i] = rd[r].tbs[j] => i = j
        /\ \A r \in Readers : rd[r].pc = "idle" => rd[r].tbs = <<>>
    BY Zenon DEF RefInv, Once
  <2>2. \A i, j \in DOMAIN tables' : tables'[i].gen = tables'[j].gen => i = j
    BY <1>1, <1>6, <2>1, CommitEffect, Zenon
  <2> QED BY <1>3, <1>4, <2>1, <2>2 DEF Once
<1>8. CASE /\ cp.result = "ok" /\ handles' = With(handles, cp.gen, NewHandle)
           /\ \A g : InList(g)' <=> cp.gen = g \/ (InList(g) /\ ~Input(g))
  <2>1. \A g : Owned(g)' <=> Owned(g) \/ g = cp.gen
    BY <1>3, <1>4, <1>5, <1>8 DEF Owned
  <2> QED BY <1>2, <1>3, <1>6, <1>7, <1>8, <2>1, RefAdd DEF RefInv
<1>9. CASE UNCHANGED handles /\ \A g : InList(g)' <=> InList(g) /\ ~Input(g)
  <2>1. \A g : Owned(g)' <=> Owned(g)
    BY <1>3, <1>4, <1>5, <1>9 DEF Owned
  <2> QED BY <1>3, <1>7, <1>9, <2>1, RefFrame DEF RefInv
<1> QED BY <1>1, <1>8, <1>9, CommitEffect, Zenon

\* The tail of a list that names each table once does not name the head.
LEMMA TailOnce ==
  ASSUME NEW s \in Seq(Nat), s # <<>>, \A i, j \in DOMAIN s : s[i] = s[j] => i = j
  PROVE  /\ \A i, j \in DOMAIN Tail(s) : Tail(s)[i] = Tail(s)[j] => i = j
         /\ \A g : (\E i \in DOMAIN Tail(s) : Tail(s)[i] = g)
                     <=> g # Head(s) /\ \E i \in DOMAIN s : s[i] = g
<1>1. /\ \A i \in DOMAIN Tail(s) : i + 1 \in DOMAIN s /\ Tail(s)[i] = s[i + 1] /\ i \in Nat /\ i >= 1
      /\ \A i \in DOMAIN s : i = 1 \/ (i - 1 \in DOMAIN Tail(s) /\ i = (i - 1) + 1 /\ i \in Nat)
      /\ 1 \in DOMAIN s /\ Head(s) = s[1]
  OBVIOUS
<1>2. \A i, j \in DOMAIN Tail(s) : Tail(s)[i] = Tail(s)[j] => i = j
  BY <1>1
<1>3. ASSUME NEW i \in DOMAIN Tail(s)
      PROVE  Tail(s)[i] # Head(s) /\ \E j \in DOMAIN s : s[j] = Tail(s)[i]
  <2>1. i + 1 # 1 /\ i + 1 \in DOMAIN s /\ Tail(s)[i] = s[i + 1]
    BY <1>1, <1>3
  <2> QED BY <1>1, <2>1, Zenon
<1>4. ASSUME NEW i \in DOMAIN s, s[i] # Head(s)
      PROVE  \E j \in DOMAIN Tail(s) : Tail(s)[j] = s[i]
  <2>1. i # 1
    BY <1>1, <1>4, Zenon
  <2> QED BY <1>1, <2>1
<1> QED BY <1>2, <1>3, <1>4, Zenon

\* Retiring an input gives up the engine's reference on it.
LEMMA RetireRefs == IInv /\ Types /\ FileInv /\ RefInv /\ CompactionRetire => RefInv'
<1> SUFFICES ASSUME IInv, Types, FileInv, RefInv, CompactionRetire PROVE RefInv'
  OBVIOUS
<1>1. /\ DOMAIN cp = CompactionFields /\ cp.inputs \in Seq(Nat) /\ TableTypes
  BY Zenon DEF IInv, Typed, Types, CompactionTypes
<1>2. phase # "closed"
  BY WorkersRun DEF FileInv, CompactionNext
<1>3. /\ UNCHANGED <<phase, tables, rd>> /\ cp.pc = "retire" /\ cp.inputs # <<>>
      /\ Release(Head(cp.inputs), TRUE) /\ cp' = [cp EXCEPT !.inputs = Tail(@)]
  BY Zenon DEF CompactionRetire, lifeVars
<1>0. PICK g0 \in Nat : g0 = Head(cp.inputs)
  BY <1>1, <1>3
<1>4. cp'.pc = "retire" /\ cp'.inputs = Tail(cp.inputs)
  BY <1>1, <1>3 DEF CompactionFields
<1>5. \A i, j \in DOMAIN cp.inputs : cp.inputs[i] = cp.inputs[j] => i = j
  BY Zenon DEF RefInv, Once
<1>6. /\ \A i, j \in DOMAIN cp'.inputs : cp'.inputs[i] = cp'.inputs[j] => i = j
      /\ \A g : Input(g)' <=> Input(g) /\ g # g0
  <2>1. /\ \A i, j \in DOMAIN Tail(cp.inputs) : Tail(cp.inputs)[i] = Tail(cp.inputs)[j] => i = j
        /\ \A g : (\E i \in DOMAIN Tail(cp.inputs) : Tail(cp.inputs)[i] = g)
                    <=> g # Head(cp.inputs) /\ \E i \in DOMAIN cp.inputs : cp.inputs[i] = g
    BY <1>1, <1>3, <1>5, TailOnce, Zenon
  <2> QED BY <1>0, <1>4, <2>1, Zenon DEF Input
<1>7. Input(g0) /\ ~InList(g0)
  <2>1. 1 \in DOMAIN cp.inputs /\ g0 = cp.inputs[1]
    BY <1>0, <1>1, <1>3
  <2> QED BY <1>3, <2>1, Zenon DEF Input, FileInv, Shelved
<1>8. \A g : InList(g)' <=> InList(g)
  BY <1>3 DEF InList
<1>9. Owned(g0) /\ ~Owned(g0)' /\ \A g : g # g0 => (Owned(g)' <=> Owned(g))
  BY <1>3, <1>4, <1>6, <1>7, <1>8 DEF Owned
<1>10. Once'
  BY <1>3, <1>6, OnceFrame
<1>11. \A g : Holders(g)' = Holders(g)
  BY <1>3 DEF Holders, Holds
<1>12. /\ \A h : h # g0 =>
            /\ h \in DOMAIN handles' <=> h \in DOMAIN handles
            /\ h \in DOMAIN handles => handles'[h] = handles[h]
            /\ h \in DOMAIN ssts' <=> h \in DOMAIN ssts
       /\ g0 \in DOMAIN handles' <=> g0 \in DOMAIN handles /\ handles[g0].refCount >= 2
       /\ g0 \in DOMAIN handles' =>
            /\ handles'[g0].refCount = handles[g0].refCount - 1
            /\ ssts' = ssts
  BY <1>0, <1>1, <1>3, ReleaseEffect, Zenon
<1>13. /\ g0 \in DOMAIN handles /\ handles[g0].refCount = Cardinality(Holders(g0)) + 1
       /\ Cardinality(Holders(g0)) \in Nat
       /\ Cardinality(Holders(g0)) = 0 <=> Holders(g0) = {}
  <2>1. g0 \in DOMAIN handles
    BY <1>2, <1>9, Zenon DEF RefInv, Opened, HasHandle
  <2>2. handles[g0].refCount = Cardinality(Holders(g0)) + 1
    BY <1>2, <1>9, <2>1, Zenon DEF RefInv, Counted
  <2>3. Holders(g0) \in SUBSET Readers
    BY DEF Holders
  <2> QED BY <2>1, <2>2, <2>3, ReaderSets, Zenon
<1>14. Opened'
  <2>1. \A g \in DOMAIN handles' : g \in DOMAIN ssts'
    BY <1>12, Zenon DEF RefInv, Opened
  <2>2. \A g : Holders(g)' # {} => HasHandle(g)'
    <3>1. Holders(g0) # {} => HasHandle(g0)'
      BY <1>12, <1>13 DEF HasHandle
    <3>2. \A g : g # g0 /\ Holders(g) # {} => HasHandle(g)'
      BY <1>12, Zenon DEF HasHandle, RefInv, Opened
    <3> QED BY <1>11, <3>1, <3>2
  <2>3. \A g : Owned(g)' => HasHandle(g)'
    BY <1>2, <1>9, <1>12, Zenon DEF HasHandle, RefInv, Opened
  <2> QED BY <2>1, <2>2, <2>3, Zenon DEF Opened
<1>15. Counted'
  <2> SUFFICES ASSUME NEW g \in DOMAIN handles'
               PROVE  /\ \/ handles'[g].refCount = Cardinality(Holders(g)')
                         \/ handles'[g].refCount = Cardinality(Holders(g)') + 1
                      /\ handles'[g].refCount >= 1
                      /\ Owned(g)' <=> handles'[g].refCount = Cardinality(Holders(g)') + 1
                      /\ handles'[g].removeOnZero /\ ~Owned(g)' =>
                           handles'[g].refCount = Cardinality(Holders(g)')
    BY Zenon DEF Counted
  <2>1. CASE g = g0
    <3>1. PICK c \in Nat : c = Cardinality(Holders(g0))
      BY <1>13, Zenon
    <3>2. /\ handles'[g0].refCount = (c + 1) - 1 /\ c + 1 >= 2
          /\ Cardinality(Holders(g0)') = c /\ ~Owned(g0)'
      BY <1>9, <1>11, <1>12, <1>13, <2>1, <3>1, Zenon
    <3>3. (c + 1) - 1 = c /\ c # c + 1 /\ (c + 1 >= 2 => c >= 1)
      OBVIOUS
    <3> QED BY <2>1, <3>2, <3>3, Zenon
  <2>2. CASE g # g0
    BY <1>2, <1>9, <1>11, <1>12, <2>2, Zenon DEF RefInv, Counted
  <2> QED BY <2>1, <2>2, Zenon
<1> QED BY <1>10, <1>14, <1>15 DEF RefInv

\* A reader takes one reference on every listed table.
LEMMA BeginRefs ==
  ASSUME IInv, Types, FileInv, RefInv, NEW r \in Readers, NEW K, NEW max, ReadBegin(r, K, max)
  PROVE  RefInv'
<1>1. /\ phase = "up" /\ rd[r].pc = "idle" /\ UNCHANGED <<phase, tables, ssts, cp>>
      /\ rd' = [rd EXCEPT ![r] = [pc |-> "read", keys |-> K, max |-> max, mem |-> mem,
                                  imm |-> imm, tbs |-> GensOf(tables), out |-> <<>>]]
      /\ handles' = [g \in DOMAIN handles |->
           [handles[g] EXCEPT !.refCount = @ + Cardinality({i \in DOMAIN tables : tables[i].gen = g})]]
  BY DEF ReadBegin, lifeVars, diskVars
<1>2. DOMAIN rd = Readers /\ tables \in Seq(TableEntry)
  BY Zenon DEF Types, ReaderTypes, TableTypes
<1>3. /\ rd'[r].pc = "read" /\ rd'[r].tbs = GensOf(tables)
      /\ \A q \in Readers : q # r => rd'[q] = rd[q]
  BY <1>1, <1>2
<1>4. DOMAIN GensOf(tables) = DOMAIN tables /\ \A i \in DOMAIN tables : GensOf(tables)[i] = tables[i].gen
  BY DEF GensOf
<1>5. /\ \A i, j \in DOMAIN tables : tables[i].gen = tables[j].gen => i = j
      /\ \A i, j \in DOMAIN cp.inputs : cp.inputs[i] = cp.inputs[j] => i = j
      /\ \A q \in Readers : \A i, j \in DOMAIN rd[q].tbs : rd[q].tbs[i] = rd[q].tbs[j] => i = j
      /\ \A q \in Readers : rd[q].pc = "idle" => rd[q].tbs = <<>>
  BY Zenon DEF RefInv, Once
<1>6. Once'
  <2>0. \A i, j \in DOMAIN GensOf(tables) : GensOf(tables)[i] = GensOf(tables)[j] => i = j
    BY <1>4, <1>5, Zenon
  <2>1. \A i, j \in DOMAIN rd'[r].tbs : rd'[r].tbs[i] = rd'[r].tbs[j] => i = j
    BY <1>3, <2>0, Zenon
  <2> QED BY <1>1, <1>3, <1>5, <2>1 DEF Once
<1>7. \A g : (Owned(g)' <=> Owned(g)) /\ (InList(g) => Owned(g))
  BY <1>1 DEF Owned, InList, Input
<1>8. \A g : ~Holds(r, g) /\ (Holds(r, g)' <=> InList(g))
  <2>1. \A g : ~Holds(r, g)
    BY <1>1, <1>5 DEF Holds
  <2>2. \A g : (\E i \in DOMAIN rd'[r].tbs : rd'[r].tbs[i] = g) <=> \E i \in DOMAIN tables : tables[i].gen = g
    BY <1>3, <1>4, Zenon
  <2> QED BY <2>1, <2>2, Zenon DEF Holds, InList
<1>9. \A g : Holders(g)' = IF InList(g) THEN Holders(g) \cup {r} ELSE Holders(g)
  <2>1. \A q \in Readers : q # r => \A g : Holds(q, g)' <=> Holds(q, g)
    BY <1>3, Zenon DEF Holds
  <2> QED BY <1>8, <2>1 DEF Holders
<1>10. \A g : /\ Cardinality(Holders(g)) \in Nat
              /\ Cardinality(Holders(g)') = Cardinality(Holders(g)) + (IF InList(g) THEN 1 ELSE 0)
  <2> SUFFICES ASSUME NEW g
               PROVE  /\ Cardinality(Holders(g)) \in Nat
                      /\ Cardinality(Holders(g)') = Cardinality(Holders(g)) + (IF InList(g) THEN 1 ELSE 0)
    BY Zenon
  <2>1. Holders(g) \in SUBSET Readers /\ r \notin Holders(g)
    BY <1>8 DEF Holders
  <2>2. Cardinality(Holders(g)) \in Nat
        /\ Cardinality(Holders(g) \cup {r}) = Cardinality(Holders(g)) + 1
    BY <2>1, ReaderSets, Zenon
  <2>3. Cardinality(Holders(g)) + 0 = Cardinality(Holders(g))
    BY <2>2
  <2> QED BY <1>9, <2>2, <2>3, Zenon
<1>11. /\ DOMAIN handles' = DOMAIN handles
       /\ \A g \in DOMAIN handles :
            /\ handles[g].refCount \in Nat
            /\ handles'[g].removeOnZero = handles[g].removeOnZero
            /\ handles'[g].refCount = handles[g].refCount + (IF InList(g) THEN 1 ELSE 0)
  <2>1. \A g \in DOMAIN handles : handles[g] \in Handle
    BY DEF Types, TableTypes
  <2>2. \A h \in Handle : \A n : /\ [h EXCEPT !.refCount = @ + n].removeOnZero = h.removeOnZero
                                 /\ [h EXCEPT !.refCount = @ + n].refCount = h.refCount + n
                                 /\ h.refCount \in Nat
    BY DEF Handle
  <2>3. \A g : Cardinality({i \in DOMAIN tables : tables[i].gen = g}) = IF InList(g) THEN 1 ELSE 0
    BY OnePlace, Zenon DEF Listed, RefInv
  <2>4. \A g \in DOMAIN handles :
          handles'[g] = [handles[g] EXCEPT !.refCount = @ + IF InList(g) THEN 1 ELSE 0]
    BY <1>1, <2>3, Zenon
  <2>5. DOMAIN handles' = DOMAIN handles
    BY <1>1, Zenon
  <2> SUFFICES ASSUME NEW g \in DOMAIN handles
               PROVE  /\ handles[g].refCount \in Nat
                      /\ handles'[g].removeOnZero = handles[g].removeOnZero
                      /\ handles'[g].refCount = handles[g].refCount + (IF InList(g) THEN 1 ELSE 0)
    BY <2>5, Zenon
  <2>6. PICK n \in {0, 1} : n = IF InList(g) THEN 1 ELSE 0
    BY Zenon
  <2>7. handles'[g] = [handles[g] EXCEPT !.refCount = @ + n] /\ handles[g] \in Handle
    BY <2>1, <2>4, <2>6
  <2> QED BY <2>2, <2>6, <2>7
<1>12. Opened'
  <2>1. \A g : InList(g) => g \in DOMAIN handles
    BY <1>1, <1>7, Zenon DEF RefInv, Opened, HasHandle
  <2> QED BY <1>1, <1>7, <1>9, <1>11, <2>1 DEF RefInv, Opened, HasHandle
<1>13. Counted'
  <2> SUFFICES ASSUME NEW g \in DOMAIN handles'
               PROVE  /\ \/ handles'[g].refCount = Cardinality(Holders(g)')
                         \/ handles'[g].refCount = Cardinality(Holders(g)') + 1
                      /\ handles'[g].refCount >= 1
                      /\ Owned(g)' <=> handles'[g].refCount = Cardinality(Holders(g)') + 1
                      /\ handles'[g].removeOnZero /\ ~Owned(g)' =>
                           handles'[g].refCount = Cardinality(Holders(g)')
    BY Zenon DEF Counted
  <2>1. /\ handles[g].refCount >= 1 /\ g \in DOMAIN handles
        /\ \/ handles[g].refCount = Cardinality(Holders(g))
           \/ handles[g].refCount = Cardinality(Holders(g)) + 1
        /\ Owned(g) <=> handles[g].refCount = Cardinality(Holders(g)) + 1
    BY <1>1, <1>11 DEF RefInv, Counted
  <2>2. PICK c \in Nat : c = Cardinality(Holders(g))
    BY <1>10, Zenon
  <2>3. PICK k \in Nat : k = handles[g].refCount
    BY <1>11, <2>1, Zenon
  <2>4. PICK n \in {0, 1} : n = IF InList(g) THEN 1 ELSE 0
    BY Zenon
  <2>5. handles'[g].refCount = k + n /\ Cardinality(Holders(g)') = c + n
    BY <1>10, <1>11, <2>1, <2>2, <2>3, <2>4, Zenon
  <2>6. /\ k = c <=> k + n = c + n
        /\ k = c + 1 <=> k + n = (c + n) + 1
        /\ k >= 1 => k + n >= 1
    OBVIOUS
  <2> QED BY <1>7, <2>1, <2>2, <2>3, <2>5, <2>6, Zenon
<1> QED BY <1>6, <1>12, <1>13, Zenon DEF RefInv

\* A reader gives up one reference at a time; the last one closes the table.
LEMMA ReleaseRefs ==
  ASSUME IInv, Types, FileInv, RefInv, NEW r \in Readers, ReadRelease(r)
  PROVE  RefInv'
<1>1. /\ UNCHANGED <<phase, tables, cp>> /\ rd[r].pc = "release" /\ rd[r].tbs # <<>>
      /\ Release(Head(rd[r].tbs), FALSE) /\ rd' = [rd EXCEPT ![r].tbs = Tail(@)]
  BY Zenon DEF ReadRelease, lifeVars
<1>2. DOMAIN rd = Readers /\ DOMAIN rd[r] = ReaderFields /\ rd[r].tbs \in Seq(Nat) /\ TableTypes
  BY Zenon DEF Types, ReaderTypes
<1>3. /\ rd'[r].tbs = Tail(rd[r].tbs) /\ rd'[r].pc = "release"
      /\ \A q \in Readers : q # r => rd'[q] = rd[q]
  BY <1>1, <1>2, Zenon DEF ReaderFields
<1>4. PICK g0 \in Nat : g0 = Head(rd[r].tbs)
  BY <1>1, <1>2
<1>5. /\ \A i, j \in DOMAIN tables : tables[i].gen = tables[j].gen => i = j
      /\ \A i, j \in DOMAIN cp.inputs : cp.inputs[i] = cp.inputs[j] => i = j
      /\ \A q \in Readers : \A i, j \in DOMAIN rd[q].tbs : rd[q].tbs[i] = rd[q].tbs[j] => i = j
      /\ \A q \in Readers : rd[q].pc = "idle" => rd[q].tbs = <<>>
  BY Zenon DEF RefInv, Once
<1>6. /\ \A i, j \in DOMAIN Tail(rd[r].tbs) : Tail(rd[r].tbs)[i] = Tail(rd[r].tbs)[j] => i = j
      /\ \A g : (\E i \in DOMAIN Tail(rd[r].tbs) : Tail(rd[r].tbs)[i] = g)
                  <=> g # Head(rd[r].tbs) /\ \E i \in DOMAIN rd[r].tbs : rd[r].tbs[i] = g
  BY <1>1, <1>2, <1>5, TailOnce, Zenon
<1>7. Once'
  BY <1>1, <1>3, <1>5, <1>6 DEF Once
<1>8. \A g : Owned(g)' <=> Owned(g)
  BY <1>1 DEF Owned, InList, Input
<1>9. Holds(r, g0) /\ \A g : Holds(r, g)' <=> Holds(r, g) /\ g # g0
  <2>1. 1 \in DOMAIN rd[r].tbs /\ rd[r].tbs[1] = g0
    BY <1>1, <1>2, <1>4
  <2>2. Holds(r, g0)
    BY <2>1, Zenon DEF Holds
  <2>3. \A g : Holds(r, g)' <=> \E i \in DOMAIN Tail(rd[r].tbs) : Tail(rd[r].tbs)[i] = g
    BY <1>3, Zenon DEF Holds
  <2>4. \A g : Holds(r, g) <=> \E i \in DOMAIN rd[r].tbs : rd[r].tbs[i] = g
    BY DEF Holds
  <2> HIDE DEF Holds
  <2> QED BY <1>4, <1>6, <2>2, <2>3, <2>4, Zenon
<1>10. Holders(g0)' = Holders(g0) \ {r} /\ r \in Holders(g0) /\ \A g : g # g0 => Holders(g)' = Holders(g)
  <2>1. \A q \in Readers : q # r => \A g : Holds(q, g)' <=> Holds(q, g)
    BY <1>3, Zenon DEF Holds
  <2> QED BY <1>9, <2>1 DEF Holders
<1>11. /\ Cardinality(Holders(g0)) \in Nat /\ Cardinality(Holders(g0)) >= 1
       /\ Cardinality(Holders(g0)') = Cardinality(Holders(g0)) - 1
       /\ Cardinality(Holders(g0)') = 0 <=> Holders(g0)' = {}
  <2>1. Holders(g0) \in SUBSET Readers /\ Holders(g0)' \in SUBSET Readers
    BY Zenon DEF Holders
  <2>2. /\ Cardinality(Holders(g0)) \in Nat
        /\ Cardinality(Holders(g0)) = 0 <=> Holders(g0) = {}
        /\ Cardinality(Holders(g0) \ {r}) = Cardinality(Holders(g0)) - 1
    BY <1>10, <2>1, ReaderSets, Zenon
  <2>3. Cardinality(Holders(g0)') = 0 <=> Holders(g0)' = {}
    BY <2>1, ReaderSets, Zenon
  <2> QED BY <1>10, <2>2, <2>3
<1>12. /\ \A h : h # g0 =>
            /\ h \in DOMAIN handles' <=> h \in DOMAIN handles
            /\ h \in DOMAIN handles => handles'[h] = handles[h]
            /\ h \in DOMAIN ssts' <=> h \in DOMAIN ssts
       /\ g0 \in DOMAIN handles' <=> g0 \in DOMAIN handles /\ handles[g0].refCount >= 2
       /\ g0 \in DOMAIN handles' =>
            /\ handles'[g0].refCount = handles[g0].refCount - 1
            /\ handles'[g0].removeOnZero = (handles[g0].removeOnZero \/ FALSE)
            /\ ssts' = ssts
  BY <1>1, <1>2, <1>4, ReleaseEffect, Zenon
<1>13. /\ g0 \in DOMAIN handles
       /\ \/ handles[g0].refCount = Cardinality(Holders(g0))
          \/ handles[g0].refCount = Cardinality(Holders(g0)) + 1
       /\ phase # "closed" => (Owned(g0) <=> handles[g0].refCount = Cardinality(Holders(g0)) + 1)
       /\ handles[g0].removeOnZero /\ ~Owned(g0) => handles[g0].refCount = Cardinality(Holders(g0))
  <2>1. g0 \in DOMAIN handles
    BY <1>10, Zenon DEF RefInv, Opened, HasHandle
  <2> QED BY <2>1, Zenon DEF RefInv, Counted
<1>16. PICK c \in Nat : c = Cardinality(Holders(g0)) /\ c >= 1
  BY <1>11, Zenon
<1>17. PICK k : k = handles[g0].refCount /\ (k = c \/ k = c + 1)
  BY <1>13, <1>16, Zenon
<1>18. /\ k >= 2 \/ (k = c /\ c - 1 = 0)
       /\ c # c + 1
       /\ k >= 2 => k - 1 >= 1
       /\ k = c <=> k - 1 = c - 1
       /\ k = c + 1 <=> k - 1 = (c - 1) + 1
  BY <1>16, <1>17
<1>14. Opened'
  <2>1. \A g \in DOMAIN handles' : g \in DOMAIN ssts'
    BY <1>12, Zenon DEF RefInv, Opened
  <2>2. \A g : Holders(g)' # {} => HasHandle(g)'
    <3>1. Holders(g0)' # {} => HasHandle(g0)'
      BY <1>11, <1>12, <1>13, <1>16, <1>17, <1>18, Zenon DEF HasHandle
    <3>2. \A g : g # g0 /\ Holders(g) # {} => HasHandle(g)'
      BY <1>12, Zenon DEF HasHandle, RefInv, Opened
    <3> QED BY <1>10, <3>1, <3>2, Zenon
  <2>3. phase' # "closed" => \A g : Owned(g)' => HasHandle(g)'
    <3>1. phase # "closed" /\ Owned(g0) => HasHandle(g0)'
      BY <1>12, <1>13, <1>16, <1>17, <1>18, Zenon DEF HasHandle
    <3>2. phase # "closed" => \A g : g # g0 /\ Owned(g) => HasHandle(g)'
      BY <1>12, Zenon DEF HasHandle, RefInv, Opened
    <3> QED BY <1>1, <1>8, <3>1, <3>2
  <2> QED BY <2>1, <2>2, <2>3, Zenon DEF Opened
<1>15. Counted'
  <2> SUFFICES ASSUME NEW g \in DOMAIN handles'
               PROVE  /\ \/ handles'[g].refCount = Cardinality(Holders(g)')
                         \/ handles'[g].refCount = Cardinality(Holders(g)') + 1
                      /\ handles'[g].refCount >= 1
                      /\ phase' # "closed" =>
                           (Owned(g)' <=> handles'[g].refCount = Cardinality(Holders(g)') + 1)
                      /\ handles'[g].removeOnZero /\ ~Owned(g)' =>
                           handles'[g].refCount = Cardinality(Holders(g)')
    BY Zenon DEF Counted
  <2>1. CASE g = g0
    <3>1. g0 \in DOMAIN handles'
      BY <2>1
    <3>2. handles'[g0].removeOnZero => handles[g0].removeOnZero
      BY <1>12, <3>1, Zenon
    <3>3. handles'[g0].refCount = handles[g0].refCount - 1 /\ handles[g0].refCount >= 2
      BY <1>12, <3>1, Zenon
    <3>4. /\ handles'[g0].refCount = k - 1 /\ k >= 2
          /\ Cardinality(Holders(g0)') = c - 1
      BY <1>11, <1>16, <1>17, <3>3, Zenon
    <3> QED BY <1>1, <1>8, <1>13, <1>16, <1>17, <1>18, <2>1, <3>2, <3>4, Zenon
  <2>2. CASE g # g0
    BY <1>1, <1>8, <1>10, <1>12, <2>2 DEF RefInv, Counted
  <2> QED BY <2>1, <2>2, Zenon
<1> QED BY <1>7, <1>14, <1>15 DEF RefInv

\* Readers keep the count of references.
LEMMA ReaderRefs == IInv /\ Types /\ FileInv /\ RefInv /\ ReaderNext => RefInv'
<1> SUFFICES ASSUME IInv, Types, FileInv, RefInv, NEW r \in Readers,
                    \/ \E k \in Keys : Get(r, k)
                    \/ Scan(r)
                    \/ \E s \in Snapshots : SnapshotScan(r, s)
                    \/ ReadResolve(r) \/ ReadRelease(r) \/ ReadReturn(r)
             PROVE  RefInv'
  BY Zenon DEF ReaderNext
<1>1. CASE ReadResolve(r) \/ ReadReturn(r)
  <2>1. UNCHANGED <<phase, tables, handles, ssts, cp>>
    BY <1>1, Zenon DEF ReadResolve, ReadReturn, lifeVars, tblVars, diskVars
  <2>2. DOMAIN rd = Readers /\ DOMAIN rd[r] = ReaderFields
    BY Zenon DEF Types, ReaderTypes
  <2>3. \A q \in Readers : q # r => rd'[q] = rd[q]
    BY <1>1, <2>2, Zenon DEF ReadResolve, ReadReturn
  <2>4. rd'[r].tbs = rd[r].tbs /\ (rd'[r].pc = "idle" => rd'[r].tbs = <<>>)
    BY <1>1, <2>2 DEF ReadResolve, ReadReturn, ReaderFields, IdleReader
  <2>5. \A q \in Readers : rd'[q].tbs = rd[q].tbs /\ (rd'[q].pc = "idle" => rd'[q].tbs = <<>>)
    BY <2>3, <2>4, Zenon DEF RefInv, Once
  <2>6. \A g : Owned(g)' <=> Owned(g)
    BY <2>1, Zenon DEF Owned, InList, Input
  <2>7. Once'
    BY <2>1, <2>5, ReaderOnce, Zenon
  <2> QED BY <2>1, <2>5, <2>6, <2>7, RefFrame, Zenon DEF RefInv
<1> QED BY <1>1, BeginRefs, ReleaseRefs, Zenon DEF Get, Scan, SnapshotScan

\* Open takes a reference on every table it finds; Close gives the engine's up.
LEMMA LifecycleRefs == IInv /\ Types /\ FileInv /\ RefInv /\ LifecycleNext => RefInv'
<1> SUFFICES ASSUME IInv, Types, FileInv, RefInv, LifecycleNext PROVE RefInv'
  OBVIOUS
<1>1. genCounter \in Nat /\ DOMAIN ssts \in SUBSET Nat /\ tables \in Seq(TableEntry)
  BY Zenon DEF IInv, Typed, Files, Types, TableTypes
<1>2. CASE Exit
  <2>1. /\ tables' = <<>> /\ handles' = <<>> /\ phase' = "down"
        /\ cp' = IdleCompaction /\ \A r \in Readers : rd'[r] = IdleReader
    BY <1>2, Zenon DEF Exit, AllIdle
  <2>2. cp'.inputs = <<>> /\ \A r \in Readers : rd'[r].tbs = <<>>
    <3>1. IdleCompaction.inputs = <<>> /\ IdleReader.tbs = <<>>
      BY DEF IdleCompaction, IdleReader
    <3> QED BY <2>1, <3>1, Zenon
  <2>5. \A i : i \notin DOMAIN <<>>
    OBVIOUS
  <2>6. \A g : ~Owned(g)' /\ Holders(g)' = {}
    BY <2>1, <2>2, <2>5, Zenon DEF Owned, InList, Input, Holders, Holds
  <2>3. Once'
    BY <2>1, <2>2, <2>5, Zenon DEF Once
  <2>4. Opened' /\ Counted'
    BY <2>1, <2>5, <2>6, Zenon DEF Opened, Counted
  <2> QED BY <2>3, <2>4, Zenon DEF RefInv
<1>3. CASE OpenRecover
  <2> DEFINE top == Max({0} \cup DOMAIN wals \cup DOMAIN ssts)
             e == [level |-> 0, gen |-> top + 1]
             none == LoggedRecords = {}
  <2>1. Files /\ FileTypes
    BY Zenon DEF IInv, Types
  <2>2. top \in Nat /\ \A g \in DOMAIN ssts : g <= top
    BY <2>1, RecoveredCounters, Zenon
  <2>3. /\ Found \in Seq(TableEntry) /\ \A i \in DOMAIN Found : Found[i].gen \in DOMAIN ssts
        /\ \A g \in DOMAIN ssts : \E i \in DOMAIN Found : Found[i].gen = g
        /\ \A i, j \in DOMAIN Found : Found[i].gen = Found[j].gen => i = j
    BY <2>1, FoundLists, Zenon
  <2>4. /\ phase = "down" /\ phase' = "recovering" /\ UNCHANGED <<cp, rd>>
        /\ ssts' = IF none THEN ssts ELSE With(ssts, top + 1, [level |-> 0, recs |-> LoggedRecords])
        /\ tables' = IF none THEN Found ELSE Append(Found, e)
        /\ handles' = [g \in DOMAIN ssts' |-> NewHandle]
    BY <1>3, Zenon DEF OpenRecover
  <2>5. e \in TableEntry /\ e.gen = top + 1
    BY <2>2 DEF TableEntry
  <2> HIDE DEF top, e, none
  <2>6. DOMAIN ssts' = IF none THEN DOMAIN ssts ELSE DOMAIN ssts \cup {top + 1}
    BY <2>4, Zenon DEF With
  <2>7. top + 1 \notin DOMAIN ssts
    BY <1>1, <2>2
  <2>8. \A g : InList(g)' <=> g \in DOMAIN ssts'
    <3>1. CASE none
      BY <2>3, <2>4, <2>6, <3>1 DEF InList
    <3>2. CASE ~none
      <4>1. tables' = Append(Found, e) /\ Found \in Seq(TableEntry)
        BY <2>3, <2>4, <3>2, Zenon
      <4>2. \A g : InList(g)' <=> e.gen = g \/ \E i \in DOMAIN Found : Found[i].gen = g
        BY <2>5, <4>1, InListAppend
      <4> QED BY <2>3, <2>5, <2>6, <3>2, <4>2
    <3> QED BY <3>1, <3>2
  <2>9. \A i, j \in DOMAIN tables' : tables'[i].gen = tables'[j].gen => i = j
    <3>1. CASE none
      BY <2>3, <2>4, <3>1, Zenon
    <3>2. CASE ~none
      <4>1. tables' = Append(Found, e) /\ Found \in Seq(TableEntry)
        BY <2>3, <2>4, <3>2, Zenon
      <4>2. \A i \in DOMAIN Found : Found[i].gen # e.gen
        BY <2>3, <2>5, <2>7
      <4>3. \A i, j \in DOMAIN Found : Found[i].gen = Found[j].gen => i = j
        BY <2>3, Zenon
      <4> QED BY <2>5, <4>1, <4>2, <4>3, OnceAppend
    <3> QED BY <3>1, <3>2, Zenon
  <2>10. cp = IdleCompaction /\ \A r \in Readers : rd[r] = IdleReader
    BY <2>4, Zenon DEF FileInv, Stages
  <2>11. cp'.inputs = <<>> /\ cp'.pc = "idle" /\ \A r \in Readers : rd'[r].tbs = <<>>
    <3>1. IdleCompaction.inputs = <<>> /\ IdleCompaction.pc = "idle" /\ IdleReader.tbs = <<>>
      BY DEF IdleCompaction, IdleReader
    <3> QED BY <2>4, <2>10, <3>1, Zenon
  <2>12. \A g : (Owned(g)' <=> g \in DOMAIN ssts') /\ Holders(g)' = {}
    BY <2>8, <2>11 DEF Owned, Input, Holders, Holds
  <2>13. Once'
    BY <2>9, <2>11 DEF Once
  <2>14. /\ DOMAIN handles' = DOMAIN ssts'
         /\ \A g \in DOMAIN handles' : handles'[g].refCount = 1 /\ ~handles'[g].removeOnZero
    BY <2>4, Zenon DEF NewHandle
  <2>15. \A g : Cardinality(Holders(g)') = 0
    BY <2>12, FS_EmptySet, Zenon
  <2>16. Opened'
    BY <2>12, <2>14, Zenon DEF Opened, HasHandle
  <2>17. Counted'
    <3>1. 1 = 0 + 1 /\ 1 >= 1
      OBVIOUS
    <3> QED BY <2>12, <2>14, <2>15, <3>1, Zenon DEF Counted
  <2> QED BY <2>13, <2>16, <2>17 DEF RefInv
<1>4. CASE OpenRemoveWAL \/ OpenFinish \/ CloseBegin \/ CloseWALError \/ CloseFlushError
  <2>1. /\ UNCHANGED <<tables, handles, cp, rd>>
        /\ phase # "closed"
    BY <1>4, Zenon DEF OpenRemoveWAL, OpenFinish, CloseBegin, CloseWALError, CloseFlushError, tblVars
  <2>2. \A g \in DOMAIN ssts : g \in DOMAIN ssts'
    BY <1>4, Zenon DEF OpenRemoveWAL, OpenFinish, CloseBegin, CloseWALError, CloseFlushError, diskVars, With
  <2>3. \A g : Owned(g)' <=> Owned(g)
    BY <2>1, Zenon DEF Owned, InList, Input
  <2>4. Once'
    BY <2>1, Zenon DEF RefInv, Once
  <2> QED BY <2>1, <2>2, <2>3, <2>4, RefFrame, Zenon DEF RefInv
<1>5. CASE CloseFlush
  <2>1. /\ phase = "closing" /\ UNCHANGED <<cp, rd>>
        /\ \/ UNCHANGED <<genCounter, ssts, tables, handles>>
           \/ /\ genCounter' = genCounter + 1
              /\ ssts' = With(ssts, genCounter + 1, [level |-> 0, recs |-> RecordsOf(mts[mem])])
              /\ tables' = Append(tables, [level |-> 0, gen |-> genCounter + 1])
              /\ handles' = With(handles, genCounter + 1, NewHandle)
    BY <1>5, Zenon DEF CloseFlush, tblVars
  <2>2. CASE UNCHANGED <<genCounter, ssts, tables, handles>>
    <3>1. \A g : Owned(g)' <=> Owned(g)
      BY <2>1, <2>2, Zenon DEF Owned, InList, Input
    <3>2. Once'
      BY <2>1, <2>2, Zenon DEF RefInv, Once
    <3> QED BY <2>1, <2>2, <3>1, <3>2, RefFrame, Zenon DEF RefInv
  <2>3. CASE /\ genCounter' = genCounter + 1
             /\ ssts' = With(ssts, genCounter + 1, [level |-> 0, recs |-> RecordsOf(mts[mem])])
             /\ tables' = Append(tables, [level |-> 0, gen |-> genCounter + 1])
             /\ handles' = With(handles, genCounter + 1, NewHandle)
    <3>1. genCounter + 1 \in Nat
      BY <1>1
    <3>4. \A g : InList(g)' <=> InList(g) \/ g = genCounter + 1
      BY <1>1, <2>3, <3>1, ListGrows, Zenon
    <3>5. \A g : Owned(g)' <=> Owned(g) \/ g = genCounter + 1
      BY <2>1, <3>4, Zenon DEF Owned, Input
    <3>6. genCounter + 1 \notin DOMAIN handles /\ ~InList(genCounter + 1)
      <4>1. \A g : HasHandle(g) => g \in Nat /\ g <= genCounter
        BY Zenon DEF FileInv, Named
      <4>2. \A g : InList(g) => g \in DOMAIN ssts /\ g <= genCounter
        BY <2>1, Zenon DEF FileInv, Named, Shelved
      <4> QED BY <1>1, <4>1, <4>2 DEF HasHandle
    <3>7. \A i, j \in DOMAIN tables' : tables'[i].gen = tables'[j].gen => i = j
      BY <1>1, <2>3, <3>1, <3>6, OnceGrows, Zenon DEF RefInv
    <3>8. Once'
      BY <2>1, <3>7, Zenon DEF RefInv, Once
    <3>9. genCounter + 1 \in DOMAIN ssts' /\ \A g \in DOMAIN ssts : g \in DOMAIN ssts'
      BY <2>3, Zenon DEF With
    <3>10. Opened' /\ Counted'
      BY <2>1, <2>3, <3>5, <3>6, <3>9, RefAdd, Zenon
    <3> QED BY <3>8, <3>10 DEF RefInv
  <2> QED BY <2>1, <2>2, <2>3, Zenon
<1>6. CASE CloseFinish
  <2> DEFINE c(g) == Cardinality({i \in DOMAIN tables : tables[i].gen = g})
             kept == {g \in DOMAIN handles : handles[g].refCount > c(g)}
  <2>1. /\ handles' = [g \in kept |-> [handles[g] EXCEPT !.refCount = @ - c(g)]]
        /\ UNCHANGED <<tables, ssts, cp, rd>> /\ phase = "locked" /\ phase' = "closed"
    BY <1>6 DEF CloseFinish
  <2>2. \A g : c(g) = IF InList(g) THEN 1 ELSE 0
    BY OnePlace, Zenon DEF Listed, RefInv
  <2> HIDE DEF c
  <2>3. \A h \in Handle : \A n \in {0, 1} :
          /\ [h EXCEPT !.refCount = @ - n].refCount = h.refCount - n
          /\ [h EXCEPT !.refCount = @ - n].removeOnZero = h.removeOnZero
          /\ h.refCount \in Nat
    BY DEF Handle
  <2>4. \A g \in DOMAIN handles : handles[g] \in Handle
    BY DEF Types, TableTypes
  <2>5. DOMAIN handles' = kept /\ \A g \in kept :
          g \in DOMAIN handles /\ handles'[g] = [handles[g] EXCEPT !.refCount = @ - c(g)]
          /\ handles[g].refCount > c(g)
    BY <2>1
  <2>6. \A g \in DOMAIN handles : g \notin kept => ~(handles[g].refCount > c(g))
    BY Zenon
  <2> HIDE DEF kept
  <2>7. \A g : c(g) \in {0, 1}
    BY <2>2
  <2>8. \A g \in kept : /\ handles'[g].refCount = handles[g].refCount - c(g)
                        /\ handles'[g].removeOnZero = handles[g].removeOnZero
                        /\ handles[g].refCount \in Nat
    <3> SUFFICES ASSUME NEW g \in kept
                 PROVE  /\ handles'[g].refCount = handles[g].refCount - c(g)
                        /\ handles'[g].removeOnZero = handles[g].removeOnZero
                        /\ handles[g].refCount \in Nat
      BY Zenon
    <3>1. PICK n \in {0, 1} : n = c(g)
      BY <2>7
    <3>2. handles[g] \in Handle /\ handles'[g] = [handles[g] EXCEPT !.refCount = @ - n]
      BY <2>4, <2>5, <3>1
    <3> QED BY <2>3, <3>1, <3>2
  <2>9. \A g : (Owned(g)' <=> Owned(g)) /\ (InList(g) <=> Owned(g)) /\ Holders(g)' = Holders(g)
    <3>1. cp.pc = "exited"
      BY <2>1 DEF FileInv, Stages, WorkersExited
    <3> QED BY <2>1, <3>1 DEF Owned, InList, Input, Holders, Holds
  <2>10. Once'
    BY <2>1 DEF RefInv, Once
  <2>11. \A g : /\ Cardinality(Holders(g)) \in Nat
                /\ Cardinality(Holders(g)) = 0 <=> Holders(g) = {}
    <3>1. \A g : Holders(g) \in SUBSET Readers
      BY DEF Holders
    <3> QED BY <3>1, ReaderSets, Zenon
  <2>12. \A g \in DOMAIN handles : handles[g].refCount = Cardinality(Holders(g)) + c(g)
    <3> SUFFICES ASSUME NEW g \in DOMAIN handles
                 PROVE  handles[g].refCount = Cardinality(Holders(g)) + c(g)
      BY Zenon
    <3>1. /\ \/ handles[g].refCount = Cardinality(Holders(g))
             \/ handles[g].refCount = Cardinality(Holders(g)) + 1
          /\ Owned(g) <=> handles[g].refCount = Cardinality(Holders(g)) + 1
      BY <2>1, Zenon DEF RefInv, Counted
    <3>2. c(g) = IF Owned(g) THEN 1 ELSE 0
      BY <2>2, <2>9, Zenon
    <3>3. Cardinality(Holders(g)) \in Nat
      BY <2>11, Zenon
    <3> QED BY <3>1, <3>2, <3>3
  <2>13. Opened'
    <3>1. \A g \in DOMAIN handles' : g \in DOMAIN ssts'
      BY <2>1, <2>5 DEF RefInv, Opened
    <3>2. \A g : Holders(g) # {} => g \in DOMAIN handles
      BY Zenon DEF RefInv, Opened, HasHandle
    <3>3. \A g \in DOMAIN handles : Holders(g) # {} => handles[g].refCount > c(g)
      BY <2>7, <2>11, <2>12
    <3>4. \A g : Holders(g) # {} => g \in kept
      BY <2>6, <3>2, <3>3, Zenon
    <3> QED BY <2>1, <2>5, <2>9, <3>1, <3>4 DEF Opened, HasHandle
  <2>14. Counted'
    <3> SUFFICES ASSUME NEW g \in kept
                 PROVE  handles'[g].refCount = Cardinality(Holders(g)') /\ handles'[g].refCount >= 1
      BY <2>1, <2>5 DEF Counted
    <3> QED BY <2>5, <2>7, <2>8, <2>9, <2>11, <2>12
  <2> QED BY <2>10, <2>13, <2>14 DEF RefInv
<1> QED BY <1>2, <1>3, <1>4, <1>5, <1>6 DEF LifecycleNext

\* At the start nothing is open.
LEMMA RefInit == Init => RefInv
<1> SUFFICES ASSUME Init PROVE RefInv
  OBVIOUS
<1>1. /\ tables = <<>> /\ handles = <<>> /\ cp.inputs = <<>> /\ cp.pc = "idle"
      /\ \A r \in Readers : rd[r].tbs = <<>>
  BY Zenon DEF Init, IdleCompaction, IdleReader
<1>5. \A i : i \notin DOMAIN <<>>
  OBVIOUS
<1>2. \A g : ~Owned(g) /\ Holders(g) = {}
  BY <1>1, <1>5, Zenon DEF Owned, InList, Input, Holders, Holds
<1>3. Once
  BY <1>1, <1>5, Zenon DEF Once
<1>4. Opened /\ Counted
  BY <1>1, <1>2, <1>5, Zenon DEF Opened, Counted
<1> QED BY <1>3, <1>4 DEF RefInv

\* Every step but the failed commit of a pass keeps the count of references.
LEMMA RefStep ==
  Known /\ RefInv /\ [Next]_vars /\ [~CompactionAbort]_vars => RefInv'
<1> SUFFICES ASSUME Known, RefInv, [Next]_vars, [~CompactionAbort]_vars PROVE RefInv'
  OBVIOUS
<1>1. IInv /\ Types /\ FileInv
  BY DEF Known
<1>2. CASE CompactionNext /\ ~CompactionAbort
  BY <1>1, <1>2, PassRefs, CommitRefs, RetireRefs, Zenon DEF CompactionNext
<1> QED BY <1>1, <1>2, ClientRefs, FlushRefs, ReaderRefs, LifecycleRefs, Zenon DEF Next

-----------------------------------------------------------------------------
(* No file is forgotten, while no I/O fails.                               *)

\* The last reference on a retired table deletes its file.
LEMMA LastDeletes ==
  ASSUME NEW g, NEW retire \in BOOLEAN, Release(g, retire), g \in DOMAIN handles,
         handles[g].refCount <= 1, retire \/ handles[g].removeOnZero
  PROVE  g \notin DOMAIN ssts'
<1>1. ssts' = Without(ssts, g)
  BY Zenon DEF Release
<1> QED BY <1>1, Zenon DEF Without

\* Steps that write no file and take no table off the list.
LEMMA KeptFrame ==
  ASSUME FilesKept, UNCHANGED <<tables, handles, ssts, cp>>,
         fl.pc = "commit" => fl'.pc = "commit" /\ fl'.gen = fl.gen,
         \A r \in Readers : rd'[r].tbs = rd[r].tbs,
         phase' # "down" => phase # "down"
  PROVE  FilesKept'
<1>1. \A g : Holders(g)' = Holders(g) /\ (Owned(g)' <=> Owned(g))
  BY Zenon DEF Holders, Holds, Owned, InList, Input
<1>2. \A g : Kept(g) => Kept(g)'
  BY <1>1, Zenon DEF Kept, Coming, Waiting
<1> QED BY <1>2, Zenon DEF FilesKept

\* Writers, snapshots and stuttering.
LEMMA ClientKept ==
  FilesKept /\ (WriterNext \/ SnapshotNext \/ UNCHANGED vars) => FilesKept'
<1> SUFFICES ASSUME FilesKept, WriterNext \/ SnapshotNext \/ UNCHANGED vars PROVE FilesKept'
  OBVIOUS
<1>1. UNCHANGED <<phase, tables, handles, ssts, cp, rd, fl>>
  BY WriterTouches, SnapshotTouches, Zenon DEF vars, lifeVars, tblVars, diskVars
<1> QED BY <1>1, KeptFrame

\* The flush worker writes its file and lists it.
LEMMA FlushKept ==
  Known /\ RefInv /\ FilesKept /\ FlushNext /\ faults = 0 /\ faults' = 0 => FilesKept'
<1> SUFFICES ASSUME Known, RefInv, FilesKept, FlushNext, faults = 0, faults' = 0 PROVE FilesKept'
  OBVIOUS
<1>1. UNCHANGED <<phase, cp, rd>>
  BY FlushTouches DEF lifeVars
<1>2. ~FlushError
  BY DEF FlushError, Fail
<1>3. fl.gen \in Nat /\ DOMAIN fl = {"pc", "job", "gen"} /\ tables \in Seq(TableEntry)
  BY DEF Known, IInv, Typed, Types, TableTypes
<1>4. CASE FlushWrite
  <2>1. /\ fl.pc = "write" /\ fl'.pc = "commit" /\ fl'.gen = fl.gen /\ UNCHANGED <<tables, handles>>
        /\ DOMAIN ssts' = DOMAIN ssts \cup {fl.gen}
    BY <1>3, <1>4 DEF FlushWrite, FlushFile, With, tblVars
  <2>2. \A g : Holders(g)' = Holders(g) /\ (Owned(g)' <=> Owned(g))
    BY <1>1, <2>1, Zenon DEF Holders, Holds, Owned, InList, Input
  <2>3. \A g : Kept(g) \/ g = fl.gen => Kept(g)'
    BY <1>1, <2>1, <2>2, Zenon DEF Kept, Coming, Waiting
  <2>4. cp.pc \in {"merge", "commit"} => fl.gen # cp.gen
    BY <2>1, Zenon DEF Known, FileInv, Fresh
  <2> QED BY <1>1, <2>1, <2>3, <2>4, Zenon DEF FilesKept
<1>5. CASE FlushCommit
  <2>1. /\ fl.pc = "commit" /\ tables' = Append(tables, [level |-> 0, gen |-> fl.gen])
        /\ handles' = With(handles, fl.gen, NewHandle) /\ UNCHANGED ssts
    BY <1>5 DEF FlushCommit, diskVars
  <2>3. fl.gen \notin DOMAIN handles
    BY <2>1, Zenon DEF Known, FileInv, Fresh, HasHandle
  <2>6. \A g : InList(g)' <=> InList(g) \/ g = fl.gen
    BY <1>3, <2>1, ListGrows, Zenon
  <2>7. \A g : Owned(g) \/ g = fl.gen => Owned(g)'
    BY <1>1, <2>6, Zenon DEF Owned, Input
  <2>8. \A g : Holders(g)' = Holders(g)
    BY <1>1, Zenon DEF Holders, Holds
  <2>9. \A g : Waiting(g) => Waiting(g)'
    BY <2>1, <2>3, <2>8, Zenon DEF Waiting, With
  <2>10. \A g : Coming(g) => g = fl.gen \/ (cp'.pc = "commit" /\ g = cp'.gen)
    BY <1>1, <2>1, Zenon DEF Coming
  <2>11. \A g : Kept(g) => Kept(g)'
    BY <2>7, <2>9, <2>10, Zenon DEF Kept, Coming
  <2> QED BY <1>1, <2>1, <2>11, Zenon DEF FilesKept
<1>6. CASE ~FlushWrite /\ ~FlushCommit
  <2>1. UNCHANGED <<tables, handles, ssts>> /\ fl.pc # "commit"
    BY <1>2, <1>6 DEF FlushNext, FlushTake, FlushStop, FlushRemoveWAL, FlushTrigger, tblVars, diskVars
  <2> QED BY <1>1, <2>1, KeptFrame, Zenon
<1> QED BY <1>4, <1>5, <1>6

\* A compaction pass up to its commit.
LEMMA PassKept ==
  Known /\ RefInv /\ FilesKept
    /\ (CompactionWake \/ CompactionStop \/ CompactionPick \/ CompactionPin
        \/ CompactionMerge \/ CompactionMergeError \/ CompactionChain)
  => FilesKept'
<1> SUFFICES ASSUME Known, RefInv, FilesKept,
                    CompactionWake \/ CompactionStop \/ CompactionPick \/ CompactionPin
                      \/ CompactionMerge \/ CompactionMergeError \/ CompactionChain
             PROVE  FilesKept'
  OBVIOUS
<1>1. UNCHANGED <<phase, rd, fl>> /\ phase # "down"
  BY CompactionTouches, WorkersRun, Zenon DEF lifeVars, CompactionNext, Known, FileInv
<1>2. /\ DOMAIN cp = CompactionFields /\ genCounter \in Nat
      /\ \A g \in DOMAIN ssts : g \in Nat /\ g <= genCounter
  BY <1>1, Zenon DEF Known, IInv, Typed, Files, FileInv, Named
<1>3. \A g : Holders(g)' = Holders(g)
  BY <1>1 DEF Holders, Holds
<1>4. CASE CompactionMerge
  <2>1. /\ UNCHANGED <<tables, handles>> /\ cp.pc = "merge"
        /\ \/ ssts' = ssts /\ cp' = [cp EXCEPT !.pc = "commit", !.result = "empty"]
           \/ /\ \E x : ssts' = With(ssts, cp.gen, x)
              /\ cp' = [cp EXCEPT !.pc = "commit", !.result = "ok"]
    <3>1. PICK R : /\ ssts' = IF R = {} THEN ssts
                              ELSE With(ssts, cp.gen, [level |-> cp.target, recs |-> R])
                   /\ cp' = [cp EXCEPT !.pc = "commit", !.result = IF R = {} THEN "empty" ELSE "ok"]
      BY <1>4, Zenon DEF CompactionMerge
    <3>2. CASE R = {}
      BY <1>4, <3>1, <3>2, Zenon DEF CompactionMerge, tblVars
    <3>3. CASE R # {}
      BY <1>4, <3>1, <3>3, Zenon DEF CompactionMerge, tblVars
    <3> QED BY <3>2, <3>3
  <2>2. cp'.pc = "commit" /\ cp'.gen = cp.gen
    BY <1>2, <2>1, Zenon DEF CompactionFields
  <2>3. \/ ssts' = ssts
        \/ DOMAIN ssts' = DOMAIN ssts \cup {cp.gen} /\ cp'.result = "ok"
    BY <1>2, <2>1, Zenon DEF CompactionFields, With
  <2>4. \A g : Owned(g) => Owned(g)'
    BY <2>1 DEF Owned, InList
  <2>5. \A g : Kept(g) \/ g = cp.gen => Kept(g)'
    BY <1>1, <1>3, <2>1, <2>2, <2>4 DEF Kept, Coming, Waiting
  <2> QED BY <1>1, <2>1, <2>2, <2>3, <2>5 DEF FilesKept
<1>5. CASE ~CompactionMerge
  <2>1. UNCHANGED <<tables, handles, ssts>>
    <3>1. UNCHANGED <<tblVars, diskVars>>
      BY <1>5, Zenon DEF CompactionWake, CompactionStop, CompactionPick, CompactionPin,
                         CompactionMergeError, CompactionChain
    <3> QED BY <3>1 DEF tblVars, diskVars
  <2>2. cp.pc # "commit" /\ (cp.pc = "retire" => cp.inputs = <<>>)
    BY <1>5 DEF CompactionWake, CompactionStop, CompactionPick, CompactionPin,
                CompactionMergeError, CompactionChain
  <2>3. \A g : Kept(g) => Kept(g)'
    BY <1>1, <1>3, <2>1, <2>2 DEF Kept, Coming, Waiting, Owned, InList, Input
  <2>4. \/ cp'.pc \notin {"merge", "commit"}
        \/ cp'.gen = genCounter + 1
        \/ cp.pc = "merge" /\ cp'.gen = cp.gen
    <3>1. CASE CompactionWake \/ CompactionStop \/ CompactionChain
      <4>1. cp' \in {[IdleCompaction EXCEPT !.pc = "pick"], [IdleCompaction EXCEPT !.pc = "exited"],
                     IdleCompaction}
        BY <3>1, Zenon DEF CompactionWake, CompactionStop, CompactionChain
      <4> QED BY <4>1 DEF IdleCompaction
    <3>3. CASE CompactionPick
      <4>1. CASE PickCompaction = NoPlan
        BY <3>3, <4>1 DEF CompactionPick, IdleCompaction
      <4>2. CASE PickCompaction # NoPlan
        <5>1. cp'.pc = "pin"
          BY <3>3, <4>2 DEF CompactionPick, IdleCompaction
        <5> QED BY <5>1
      <4> QED BY <4>1, <4>2, Zenon
    <3>2. CASE CompactionPin \/ CompactionMergeError
      BY <1>2, <3>2, Zenon DEF CompactionPin, CompactionMergeError, CompactionFields
    <3> QED BY <1>5, <3>1, <3>2, <3>3, Zenon
  <2>5. genCounter + 1 \notin DOMAIN ssts
    BY <1>2
  <2> QED BY <1>1, <2>1, <2>3, <2>4, <2>5, Zenon DEF FilesKept
<1> QED BY <1>4, <1>5

\* The commit lists the output and hands the inputs to the retirement.
LEMMA CommitKept == Known /\ RefInv /\ FilesKept /\ CompactionCommit => FilesKept'
<1> SUFFICES ASSUME Known, RefInv, FilesKept, CompactionCommit PROVE FilesKept'
  OBVIOUS
<1>1. /\ tables \in Seq(TableEntry) /\ cp.target \in Nat /\ cp.gen \in Nat
      /\ DOMAIN cp = CompactionFields
  BY DEF Known, IInv, Typed, Types, TableTypes, CompactionTypes
<1>2. /\ UNCHANGED <<phase, ssts, rd, fl>> /\ cp.pc = "commit" /\ cp' = [cp EXCEPT !.pc = "retire"]
  BY DEF CompactionCommit, lifeVars, diskVars
<1>3. cp'.pc = "retire" /\ cp'.inputs = cp.inputs
  BY <1>1, <1>2 DEF CompactionFields
<1>4. \A g : Holders(g)' = Holders(g) /\ (Input(g)' <=> Input(g))
  BY <1>2, <1>3 DEF Holders, Holds, Input
<1>5. cp.gen \notin DOMAIN handles
  BY <1>2 DEF Known, FileInv, Fresh, HasHandle
<1>6. /\ \/ /\ cp.result = "ok" /\ handles' = With(handles, cp.gen, NewHandle)
            /\ \A g : InList(g)' <=> cp.gen = g \/ (InList(g) /\ ~Input(g))
         \/ /\ cp.result # "ok" /\ UNCHANGED handles
            /\ \A g : InList(g)' <=> InList(g) /\ ~Input(g)
  BY <1>1, CommitEffect, Zenon
<1>7. \A g \in DOMAIN ssts : g = cp.gen => InList(g)'
  BY <1>2, <1>6, Zenon DEF FilesKept
<1>8. \A g : Owned(g) => Owned(g)'
  BY <1>2, <1>3, <1>4, <1>6 DEF Owned
<1>9. \A g : Waiting(g) => Waiting(g)'
  BY <1>4, <1>5, <1>6, Zenon DEF Waiting, With
<1>10. \A g \in DOMAIN ssts : Coming(g) => InList(g)' \/ (fl'.pc = "commit" /\ g = fl'.gen)
  BY <1>2, <1>7 DEF Coming
<1>11. \A g \in DOMAIN ssts : Kept(g) => Kept(g)'
  BY <1>8, <1>9, <1>10, Zenon DEF Kept, Owned, Coming
<1> QED BY <1>2, <1>3, <1>11 DEF FilesKept

\* A retired input is deleted at once or waits for its readers.
LEMMA RetireKept == Known /\ RefInv /\ FilesKept /\ CompactionRetire => FilesKept'
<1> SUFFICES ASSUME Known, RefInv, FilesKept, CompactionRetire PROVE FilesKept'
  OBVIOUS
<1>1. /\ DOMAIN cp = CompactionFields /\ cp.inputs \in Seq(Nat) /\ TableTypes
  BY DEF Known, IInv, Typed, Types, CompactionTypes
<1>2. phase \notin {"closed", "down"}
  BY WorkersRun DEF Known, FileInv, CompactionNext
<1>3. /\ UNCHANGED <<phase, tables, rd, fl>> /\ cp.pc = "retire" /\ cp.inputs # <<>>
      /\ Release(Head(cp.inputs), TRUE) /\ cp' = [cp EXCEPT !.inputs = Tail(@)]
  BY Zenon DEF CompactionRetire, lifeVars
<1>0. PICK g0 \in Nat : g0 = Head(cp.inputs)
  BY <1>1, <1>3
<1>4. cp'.pc = "retire" /\ cp'.inputs = Tail(cp.inputs)
  BY <1>1, <1>3 DEF CompactionFields
<1>5. \A g : Input(g)' <=> Input(g) /\ g # g0
  <2>1. \A i, j \in DOMAIN cp.inputs : cp.inputs[i] = cp.inputs[j] => i = j
    BY Zenon DEF RefInv, Once
  <2>2. \A g : (\E i \in DOMAIN Tail(cp.inputs) : Tail(cp.inputs)[i] = g)
                 <=> g # Head(cp.inputs) /\ \E i \in DOMAIN cp.inputs : cp.inputs[i] = g
    BY <1>1, <1>3, <2>1, TailOnce, Zenon
  <2> QED BY <1>0, <1>4, <2>2, Zenon DEF Input
<1>6. Owned(g0)
  <2>1. 1 \in DOMAIN cp.inputs /\ g0 = cp.inputs[1]
    BY <1>0, <1>1, <1>3
  <2> QED BY <1>3, <2>1 DEF Input, Owned
<1>7. \A g : g # g0 => (Owned(g) => Owned(g)')
  BY <1>3, <1>4, <1>5 DEF Owned, InList
<1>8. \A g : Holders(g)' = Holders(g)
  BY <1>3 DEF Holders, Holds
<1>9. /\ \A h : h # g0 =>
           /\ h \in DOMAIN handles' <=> h \in DOMAIN handles
           /\ h \in DOMAIN handles => handles'[h] = handles[h]
           /\ h \in DOMAIN ssts' <=> h \in DOMAIN ssts
      /\ g0 \in DOMAIN handles' <=> g0 \in DOMAIN handles /\ handles[g0].refCount >= 2
      /\ g0 \in DOMAIN handles' => handles'[g0].removeOnZero = (handles[g0].removeOnZero \/ TRUE)
  BY <1>0, <1>1, <1>3, ReleaseEffect, Zenon
<1>10. /\ g0 \in DOMAIN handles /\ handles[g0].refCount = Cardinality(Holders(g0)) + 1
       /\ Cardinality(Holders(g0)) \in Nat
       /\ Cardinality(Holders(g0)) = 0 <=> Holders(g0) = {}
  <2>1. g0 \in DOMAIN handles
    BY <1>2, <1>6, Zenon DEF RefInv, Opened, HasHandle
  <2>2. handles[g0].refCount = Cardinality(Holders(g0)) + 1
    BY <1>2, <1>6, <2>1, Zenon DEF RefInv, Counted
  <2>3. Holders(g0) \in SUBSET Readers
    BY Zenon DEF Holders
  <2> QED BY <2>1, <2>2, <2>3, ReaderSets, Zenon
<1>11. g0 \in DOMAIN ssts' => Waiting(g0)'
  <2>1. CASE Holders(g0) = {}
    <3>1. g0 \in DOMAIN handles /\ handles[g0].refCount <= 1
      BY <1>10, <2>1
    <3> QED BY <1>0, <1>3, <3>1, LastDeletes, Zenon
  <2>2. CASE Holders(g0) # {}
    <3>1. g0 \in DOMAIN handles'
      BY <1>9, <1>10, <2>2
    <3>2. handles'[g0].removeOnZero
      BY <1>9, <3>1, Zenon
    <3> QED BY <1>8, <2>2, <3>1, <3>2 DEF Waiting
  <2> QED BY <2>1, <2>2
<1>12. \A g : g # g0 => (Waiting(g) => Waiting(g)')
  BY <1>8, <1>9, Zenon DEF Waiting
<1>13. \A g : Coming(g) => Coming(g)'
  BY <1>3, Zenon DEF Coming
<1>14. \A g : g # g0 => (Kept(g) => Kept(g)')
  BY <1>7, <1>12, <1>13, Zenon DEF Kept
<1>15. \A g \in DOMAIN ssts' : Kept(g)'
  BY <1>2, <1>9, <1>11, <1>14, Zenon DEF Kept, FilesKept
<1> QED BY <1>4, <1>15, Zenon DEF FilesKept

\* The last reader of a retired table deletes its file.
LEMMA ReaderKept == Known /\ RefInv /\ FilesKept /\ ReaderNext => FilesKept'
<1> SUFFICES ASSUME Known, RefInv, FilesKept, NEW r \in Readers,
                    \/ \E k \in Keys : Get(r, k)
                    \/ Scan(r)
                    \/ \E s \in Snapshots : SnapshotScan(r, s)
                    \/ ReadResolve(r) \/ ReadRelease(r) \/ ReadReturn(r)
             PROVE  FilesKept'
  BY DEF ReaderNext
<1>1. UNCHANGED <<phase, tables, fl, cp>>
  BY ReaderTouches, Zenon DEF ReaderNext, lifeVars
<1>2. DOMAIN rd = Readers /\ DOMAIN rd[r] = ReaderFields /\ rd[r].tbs \in Seq(Nat) /\ TableTypes
  BY Zenon DEF Known, Types, ReaderTypes
<1>3. \A g : (Owned(g)' <=> Owned(g)) /\ (Coming(g)' <=> Coming(g))
  BY <1>1, Zenon DEF Owned, InList, Input, Coming
<1>4. ASSUME NEW K, NEW max, ReadBegin(r, K, max) PROVE FilesKept'
  <2>1. /\ UNCHANGED ssts /\ rd[r].pc = "idle"
        /\ handles' = [g \in DOMAIN handles |->
             [handles[g] EXCEPT !.refCount =
                @ + Cardinality({i \in DOMAIN tables : tables[i].gen = g})]]
        /\ rd' = [rd EXCEPT ![r] = [pc |-> "read", keys |-> K, max |-> max, mem |-> mem,
                                    imm |-> imm, tbs |-> GensOf(tables), out |-> <<>>]]
    BY <1>4, Zenon DEF ReadBegin, diskVars
  <2>2. \A g \in DOMAIN handles : handles[g] \in Handle
    BY <1>2, Zenon DEF TableTypes
  <2>3. \A h \in Handle : \A n : [h EXCEPT !.refCount = @ + n].removeOnZero = h.removeOnZero
    BY DEF Handle
  <2>4. \A g \in DOMAIN handles : handles'[g].removeOnZero = handles[g].removeOnZero
    BY <2>1, <2>2, <2>3, Zenon
  <2>5. \A g : ~Holds(r, g)
    BY <2>1 DEF RefInv, Once, Holds
  <2>6. \A q \in Readers : q # r => rd'[q] = rd[q]
    BY <2>1
  <2>7. \A q \in Readers : q # r => \A g : Holds(q, g)' <=> Holds(q, g)
    BY <2>6, Zenon DEF Holds
  <2>8. \A g : Holders(g) # {} => Holders(g)' # {}
    BY <2>5, <2>7, Zenon DEF Holders
  <2>9. DOMAIN handles' = DOMAIN handles
    BY <2>1
  <2>10. \A g : Waiting(g) => Waiting(g)'
    BY <2>4, <2>8, <2>9, Zenon DEF Waiting
  <2>11. \A g : Kept(g) => Kept(g)'
    BY <1>3, <2>10, Zenon DEF Kept
  <2> QED BY <1>1, <2>1, <2>11 DEF FilesKept
<1>5. CASE ReadResolve(r) \/ ReadReturn(r)
  <2>1. UNCHANGED <<handles, ssts>>
    BY <1>5, Zenon DEF ReadResolve, ReadReturn, tblVars, diskVars
  <2>2. \A q \in Readers : q # r => rd'[q] = rd[q]
    BY <1>2, <1>5 DEF ReadResolve, ReadReturn
  <2>3. rd'[r].tbs = rd[r].tbs
    BY <1>2, <1>5 DEF ReadResolve, ReadReturn, ReaderFields, IdleReader
  <2>4. \A q \in Readers : rd'[q].tbs = rd[q].tbs
    BY <2>2, <2>3, Zenon
  <2> QED BY <1>1, <2>1, <2>4, KeptFrame, Zenon
<1>6. CASE ReadRelease(r)
  <2>1. /\ rd[r].tbs # <<>> /\ Release(Head(rd[r].tbs), FALSE) /\ rd' = [rd EXCEPT ![r].tbs = Tail(@)]
    BY <1>6, Zenon DEF ReadRelease
  <2>2. PICK g0 \in Nat : g0 = Head(rd[r].tbs)
    BY <1>2, <2>1
  <2>3. rd'[r].tbs = Tail(rd[r].tbs) /\ \A q \in Readers : q # r => rd'[q] = rd[q]
    BY <1>2, <2>1 DEF ReaderFields
  <2>4. Holds(r, g0) /\ \A g : Holds(r, g)' <=> Holds(r, g) /\ g # g0
    <3>1. \A i, j \in DOMAIN rd[r].tbs : rd[r].tbs[i] = rd[r].tbs[j] => i = j
      BY Zenon DEF RefInv, Once
    <3>2. \A g : (\E i \in DOMAIN Tail(rd[r].tbs) : Tail(rd[r].tbs)[i] = g)
                   <=> g # Head(rd[r].tbs) /\ \E i \in DOMAIN rd[r].tbs : rd[r].tbs[i] = g
      BY <1>2, <2>1, <3>1, TailOnce, Zenon
    <3>3. 1 \in DOMAIN rd[r].tbs /\ rd[r].tbs[1] = g0
      BY <1>2, <2>1, <2>2
    <3>4. \A g : Holds(r, g)' <=> \E i \in DOMAIN Tail(rd[r].tbs) : Tail(rd[r].tbs)[i] = g
      BY <2>3, Zenon DEF Holds
    <3>5. Holds(r, g0) /\ \A g : Holds(r, g) <=> \E i \in DOMAIN rd[r].tbs : rd[r].tbs[i] = g
      BY <3>3, Zenon DEF Holds
    <3> QED BY <2>2, <3>2, <3>4, <3>5, Zenon
  <2>5. Holders(g0)' = Holders(g0) \ {r} /\ r \in Holders(g0) /\ \A g : g # g0 => Holders(g)' = Holders(g)
    <3>1. \A q \in Readers : q # r => \A g : Holds(q, g)' <=> Holds(q, g)
      BY <2>3, Zenon DEF Holds
    <3> QED BY <2>4, <3>1, Zenon DEF Holders
  <2>6. /\ \A h : h # g0 =>
             /\ h \in DOMAIN handles' <=> h \in DOMAIN handles
             /\ h \in DOMAIN handles => handles'[h] = handles[h]
             /\ h \in DOMAIN ssts' <=> h \in DOMAIN ssts
        /\ \A h \in DOMAIN ssts' : h \in DOMAIN ssts
        /\ g0 \in DOMAIN handles' => handles'[g0].removeOnZero = (handles[g0].removeOnZero \/ FALSE)
    BY <1>2, <2>1, <2>2, ReleaseEffect, Zenon
  <2>7. RefInv'
    BY <1>6, ReaderRefs, Zenon DEF Known, ReaderNext
  <2>8. ASSUME g0 \in DOMAIN ssts', Waiting(g0), ~Owned(g0) PROVE Waiting(g0)'
    <3>1. g0 \in DOMAIN handles /\ handles[g0].removeOnZero
          /\ handles[g0].refCount = Cardinality(Holders(g0))
      BY <2>8, Zenon DEF Waiting, RefInv, Counted
    <3>2. CASE Holders(g0)' = {}
      <4>1. Holders(g0) = {r} /\ Cardinality({r}) = 1
        BY <2>5, <3>2, FS_Singleton
      <4>2. handles[g0].refCount <= 1
        <5>1. 1 <= 1
          OBVIOUS
        <5> QED BY <3>1, <4>1, <5>1, Zenon
      <4> QED BY <2>1, <2>2, <2>8, <3>1, <4>2, LastDeletes, Zenon
    <3>3. CASE Holders(g0)' # {}
      <4>1. g0 \in DOMAIN handles'
        BY <2>7, <3>3, Zenon DEF RefInv, Opened, HasHandle
      <4>2. handles'[g0].removeOnZero
        BY <2>6, <3>1, <4>1, Zenon
      <4> QED BY <3>3, <4>1, <4>2, Zenon DEF Waiting
    <3> QED BY <3>2, <3>3, Zenon
  <2>9. \A g : g # g0 => (Waiting(g) => Waiting(g)')
    BY <2>5, <2>6, Zenon DEF Waiting
  <2>10. \A g \in DOMAIN ssts' : g \in DOMAIN ssts /\ (Kept(g) => Kept(g)')
    BY <1>3, <2>6, <2>8, <2>9, Zenon DEF Kept
  <2> QED BY <1>1, <2>10, Zenon DEF FilesKept
<1> QED BY <1>4, <1>5, <1>6, Zenon DEF Get, Scan, SnapshotScan

\* Open lists every file; Close forgets none.
LEMMA LifecycleKept ==
  Known /\ RefInv /\ FilesKept /\ LifecycleNext /\ faults = 0 /\ faults' = 0 => FilesKept'
<1> SUFFICES ASSUME Known, RefInv, FilesKept, LifecycleNext, faults = 0, faults' = 0 PROVE FilesKept'
  OBVIOUS
<1>1. genCounter \in Nat /\ tables \in Seq(TableEntry)
  BY DEF Known, IInv, Typed, Types, TableTypes
<1>2. CASE Exit
  <2>1. phase' = "down" /\ cp'.pc = "idle"
    BY <1>2 DEF Exit, AllIdle, IdleCompaction
  <2> QED BY <2>1, Zenon DEF FilesKept
<1>3. CASE OpenRecover
  <2> DEFINE top == Max({0} \cup DOMAIN wals \cup DOMAIN ssts)
             e == [level |-> 0, gen |-> top + 1]
             none == LoggedRecords = {}
  <2>1. Files /\ FileTypes
    BY DEF Known, IInv, Types
  <2>2. top \in Nat
    BY <2>1, RecoveredCounters
  <2>3. Found \in Seq(TableEntry) /\ \A g \in DOMAIN ssts : \E i \in DOMAIN Found : Found[i].gen = g
    BY <2>1, FoundLists, Zenon
  <2>4. /\ phase = "down" /\ UNCHANGED cp
        /\ ssts' = IF none THEN ssts ELSE With(ssts, top + 1, [level |-> 0, recs |-> LoggedRecords])
        /\ tables' = IF none THEN Found ELSE Append(Found, e)
    BY <1>3, Zenon DEF OpenRecover
  <2>5. e \in TableEntry /\ e.gen = top + 1
    BY <2>2 DEF TableEntry
  <2> HIDE DEF top, e, none
  <2>6. DOMAIN ssts' = IF none THEN DOMAIN ssts ELSE DOMAIN ssts \cup {top + 1}
    BY <2>4 DEF With
  <2>7. \A g \in DOMAIN ssts' : InList(g)'
    <3>1. CASE none
      BY <2>3, <2>4, <2>6, <3>1, Zenon DEF InList
    <3>2. CASE ~none
      <4>1. tables' = Append(Found, e) /\ Found \in Seq(TableEntry)
        BY <2>3, <2>4, <3>2, Zenon
      <4>2. \A g : InList(g)' <=> e.gen = g \/ \E i \in DOMAIN Found : Found[i].gen = g
        BY <2>5, <4>1, InListAppend, Zenon
      <4> QED BY <2>3, <2>5, <2>6, <3>2, <4>2, Zenon
    <3> QED BY <3>1, <3>2
  <2>8. cp'.pc = "idle"
    BY <2>4 DEF Known, FileInv, Stages, IdleCompaction
  <2> QED BY <2>7, <2>8, Zenon DEF FilesKept, Kept, Owned
<1>4. CASE OpenRemoveWAL \/ OpenFinish \/ CloseBegin \/ CloseWALError \/ CloseFlushError
  <2>1. ~CloseFlushError
    BY DEF CloseFlushError, Fail
  <2>2. UNCHANGED <<tables, handles, cp, rd, fl, ssts>> /\ phase # "down"
    BY <1>4, <2>1, Zenon DEF OpenRemoveWAL, OpenFinish, CloseBegin, CloseWALError, tblVars, diskVars
  <2> QED BY <2>2, KeptFrame, Zenon
<1>5. CASE CloseFlush
  <2>1. /\ phase = "closing" /\ WorkersExited /\ UNCHANGED <<cp, rd, fl>>
        /\ \/ UNCHANGED <<genCounter, ssts, tables, handles>>
           \/ /\ ssts' = With(ssts, genCounter + 1, [level |-> 0, recs |-> RecordsOf(mts[mem])])
              /\ tables' = Append(tables, [level |-> 0, gen |-> genCounter + 1])
              /\ handles' = With(handles, genCounter + 1, NewHandle)
    BY <1>5, Zenon DEF CloseFlush, tblVars
  <2>2. CASE UNCHANGED <<genCounter, ssts, tables, handles>>
    BY <2>1, <2>2, KeptFrame, Zenon
  <2>3. CASE /\ ssts' = With(ssts, genCounter + 1, [level |-> 0, recs |-> RecordsOf(mts[mem])])
             /\ tables' = Append(tables, [level |-> 0, gen |-> genCounter + 1])
             /\ handles' = With(handles, genCounter + 1, NewHandle)
    <3>1. genCounter + 1 \in Nat
      BY <1>1
    <3>4. \A g : InList(g)' <=> InList(g) \/ g = genCounter + 1
      BY <1>1, <2>3, <3>1, ListGrows, Zenon
    <3>5. genCounter + 1 \notin DOMAIN handles
      <4>1. \A g : HasHandle(g) => g \in Nat /\ g <= genCounter
        BY Zenon DEF Known, FileInv, Named
      <4> QED BY <1>1, <4>1 DEF HasHandle
    <3>6. \A g : Holders(g)' = Holders(g)
      BY <2>1, Zenon DEF Holders, Holds
    <3>7. \A g : Waiting(g) => Waiting(g)'
      BY <2>3, <3>5, <3>6, Zenon DEF Waiting, With
    <3>8. \A g : Kept(g) \/ g = genCounter + 1 => Kept(g)'
      BY <2>1, <3>4, <3>7, Zenon DEF Kept, Owned, Coming, WorkersExited
    <3>9. DOMAIN ssts' = DOMAIN ssts \cup {genCounter + 1}
      BY <2>3, Zenon DEF With
    <3> QED BY <2>1, <3>8, <3>9, Zenon DEF FilesKept, WorkersExited
  <2> QED BY <2>1, <2>2, <2>3, Zenon
<1>6. CASE CloseFinish
  <2> DEFINE c(g) == Cardinality({i \in DOMAIN tables : tables[i].gen = g})
             kept == {g \in DOMAIN handles : handles[g].refCount > c(g)}
  <2>1. /\ handles' = [g \in kept |-> [handles[g] EXCEPT !.refCount = @ - c(g)]]
        /\ UNCHANGED <<tables, ssts, cp, rd, fl>> /\ phase = "locked"
    BY <1>6 DEF CloseFinish
  <2> HIDE DEF c
  <2>2. \A h \in Handle : \A n : [h EXCEPT !.refCount = @ - n].removeOnZero = h.removeOnZero
    BY DEF Handle
  <2>3. \A g \in DOMAIN handles : handles[g] \in Handle
    BY Zenon DEF Known, Types, TableTypes
  <2>4. \A g \in DOMAIN handles' : g \in DOMAIN handles /\ handles'[g].removeOnZero = handles[g].removeOnZero
    BY <2>1, <2>2, <2>3
  <2>5. \A g : Holders(g)' = Holders(g) /\ (Owned(g)' <=> Owned(g)) /\ (Coming(g)' <=> Coming(g))
    BY <2>1 DEF Holders, Holds, Owned, InList, Input, Coming
  <2>6. RefInv'
    BY <1>6, LifecycleRefs DEF Known, LifecycleNext
  <2>7. \A g : Waiting(g) => Waiting(g)'
    BY <2>4, <2>5, <2>6, Zenon DEF Waiting, RefInv, Opened, HasHandle
  <2>8. \A g : Kept(g) => Kept(g)'
    BY <2>5, <2>7, Zenon DEF Kept
  <2> QED BY <2>1, <2>8 DEF FilesKept
<1> QED BY <1>2, <1>3, <1>4, <1>5, <1>6, Zenon DEF LifecycleNext

\* Every file has its place after every step, while no I/O fails.
LEMMA KeptStep ==
  Known /\ RefInv /\ FilesKept /\ [Next]_vars /\ [~CompactionAbort]_vars /\ faults = 0 /\ faults' = 0
    => FilesKept'
<1> SUFFICES ASSUME Known, RefInv, FilesKept, [Next]_vars, [~CompactionAbort]_vars,
                    faults = 0, faults' = 0
             PROVE  FilesKept'
  BY Zenon
<1>1. CASE CompactionNext /\ ~CompactionAbort
  BY <1>1, PassKept, CommitKept, RetireKept, Zenon DEF CompactionNext
<1> QED BY <1>1, ClientKept, FlushKept, ReaderKept, LifecycleKept DEF Next
=============================================================================
