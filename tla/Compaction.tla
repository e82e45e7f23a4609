----------------------------- MODULE Compaction -----------------------------
(***************************************************************************)
(* The compaction worker: compactionLoop, pickCompactionLocked and         *)
(* runCompaction.                                                          *)
(***************************************************************************)
EXTENDS EngineState, Integers, Functions

\* levelTablesLocked: the generations of the tables of a level, in list order.
LevelTables(lvl) == GensOf(TablesAt({i \in DOMAIN tables : tables[i].level = lvl}))

\* The sum of SizeBytes over a level, in records.
LevelSize(lvl) ==
  LET gens == LevelTables(lvl)
  IN  SumFunction([i \in DOMAIN gens |-> Cardinality(ssts[gens[i]].recs)])

\* n as a signed integer of IntWidth bits.
Int64(n) == LET m == n % 2^IntWidth
            IN  IF m < 2^(IntWidth - 1) THEN m ELSE m - 2^IntWidth

\* A product of int64s: a high multiplier or a deep level wraps around.
TargetSizeForLevel(lvl) == Int64(BaseLevelSize * LevelSizeMultiplier^(lvl - 1))

\* Faulty variant: only the newest table of the level moves down.
PlanNewestOnly(lvl) ==
  [inputs |-> <<LevelTables(lvl)[Len(LevelTables(lvl))]>> \o LevelTables(lvl + 1),
   target |-> lvl + 1]

Plan(lvl) == [inputs |-> LevelTables(lvl) \o LevelTables(lvl + 1), target |-> lvl + 1]

NoPlan == [inputs |-> <<>>, target |-> 0]

\* Faulty variant: off by one.
L0DueLate == Len(LevelTables(0)) > L0CompactionTrigger

L0Due == Len(LevelTables(0)) >= L0CompactionTrigger

\* Level 0 goes first, by table count; then the first level over its size.
PickCompaction ==
  LET over == {lvl \in 1..(MaxLevels - 2) :
                 LevelTables(lvl) # <<>> /\ LevelSize(lvl) > TargetSizeForLevel(lvl)}
  IN  IF L0Due THEN Plan(0)
      ELSE IF over = {} THEN NoPlan
      ELSE Plan(Min(over))

\* Faulty variant: the level below the target is not looked at.
IsBottommostSkipsOne(target) ==
  \A lvl \in (target + 2)..(MaxLevels - 1) : LevelTables(lvl) = <<>>

\* No table at a level deeper than the target.
IsBottommost(target) == \A lvl \in (target + 1)..(MaxLevels - 1) : LevelTables(lvl) = <<>>

\* maybeTriggerCompaction: a non-blocking send on the capacity-1 channel.
MaybeTrigger == compactCh' = (compactCh \/ PickCompaction # NoPlan)

\* Faulty variant: the map of open snapshots is not looked at.
IgnoredSnapshotSeq == UnboundedSeq

\* minActiveSnapshotSeq
MinActiveSnapshotSeq == Min(DOMAIN activeSnapshots \cup {UnboundedSeq})

-----------------------------------------------------------------------------
\* The worker takes the token.  Once stopCh is closed its select may still
\* prefer a pending token to stopping.
CompactionWake ==
  /\ Running
  /\ cp.pc = "idle"
  /\ compactCh
  /\ compactCh' = FALSE
  /\ cp' = [IdleCompaction EXCEPT !.pc = "pick"]
  /\ UNCHANGED <<lifeVars, genCounter, memVars, tblVars, flushCh, diskVars,
                 snapVars, wr, fl, rd, faults>>

\* Faulty variant: stopCh is looked at only after a token.
CompactionStopNeedsToken ==
  /\ phase = "closing"
  /\ cp.pc = "idle"
  /\ compactCh
  /\ cp' = [IdleCompaction EXCEPT !.pc = "exited"]
  /\ UNCHANGED <<lifeVars, genCounter, memVars, tblVars, chVars, diskVars,
                 snapVars, wr, fl, rd, faults>>

CompactionStop ==
  /\ phase = "closing"
  /\ cp.pc = "idle"
  /\ cp' = [IdleCompaction EXCEPT !.pc = "exited"]
  /\ UNCHANGED <<lifeVars, genCounter, memVars, tblVars, chVars, diskVars,
                 snapVars, wr, fl, rd, faults>>

\* Under e.mu.RLock: choose the inputs and decide whether the pass is bottommost.
CompactionPick ==
  /\ cp.pc = "pick"
  /\ cp' = IF PickCompaction = NoPlan THEN IdleCompaction
           ELSE [IdleCompaction EXCEPT
                   !.pc = "pin",
                   !.inputs = PickCompaction.inputs,
                   !.target = PickCompaction.target,
                   !.bottom = IsBottommost(PickCompaction.target)]
  /\ UNCHANGED <<lifeVars, genCounter, memVars, tblVars, chVars, diskVars,
                 snapVars, wr, fl, rd, faults>>

\* Outside e.mu: read the oldest pinned Seq and name the output.
CompactionPin ==
  /\ cp.pc = "pin"
  /\ genCounter' = genCounter + 1
  /\ cp' = [cp EXCEPT !.pc = "merge", !.min = MinActiveSnapshotSeq, !.gen = genCounter + 1]
  /\ UNCHANGED <<lifeVars, memVars, tblVars, chVars, diskVars, snapVars, wr, fl, rd, faults>>

InputRecords == [i \in DOMAIN cp.inputs |-> ssts[cp.inputs[i]].recs]

\* sstable.Merge writes the output file, or nothing (ErrEmptyMerge).
CompactionMerge ==
  /\ cp.pc = "merge"
  /\ ~MergeClash(InputRecords, cp.min)
  /\ \E R \in SUBSET Pool(InputRecords) :
       /\ IsMerge(R, InputRecords, cp.min, cp.bottom)
       /\ ssts' = IF R = {} THEN ssts
                  ELSE With(ssts, cp.gen, [level |-> cp.target, recs |-> R])
       /\ cp' = [cp EXCEPT !.pc = "commit", !.result = IF R = {} THEN "empty" ELSE "ok"]
  /\ UNCHANGED <<lifeVars, genCounter, memVars, tblVars, chVars, wals, snapVars,
                 wr, fl, rd, faults>>

\* sstable.Merge fails: an I/O error, or Write refuses a duplicate version.
CompactionMergeError ==
  /\ cp.pc = "merge"
  /\ \/ MergeClash(InputRecords, cp.min) /\ UNCHANGED faults
     \/ Fail("merge")
  /\ cp' = [cp EXCEPT !.pc = "commit", !.result = "failed"]
  /\ UNCHANGED <<lifeVars, genCounter, memVars, tblVars, chVars, diskVars,
                 snapVars, wr, fl, rd>>

-----------------------------------------------------------------------------
\* e.tables without the inputs, in order.
Remaining == TablesAt({i \in DOMAIN tables : tables[i].gen \notin Range(cp.inputs)})

\* Under e.mu.Lock: swap the inputs for the output.
CompactionCommit ==
  /\ cp.pc = "commit"
  /\ LockFree
  /\ \/ /\ cp.result = "ok"
        /\ tables' = Append(Remaining, [level |-> cp.target, gen |-> cp.gen])
        /\ handles' = With(handles, cp.gen, NewHandle)
     \/ /\ cp.result = "empty"
        /\ tables' = Remaining
        /\ UNCHANGED handles
  /\ cp' = [cp EXCEPT !.pc = "retire"]
  /\ UNCHANGED <<lifeVars, genCounter, memVars, chVars, diskVars, snapVars,
                 wr, fl, rd, faults>>

\* remaining is built in the backing array of e.tables, so when runCompaction
\* returns early that array keeps the writes while e.tables keeps its length.
CompactionAbort ==
  /\ cp.pc = "commit"
  /\ LockFree
  /\ \/ cp.result = "failed" /\ UNCHANGED faults
     \/ cp.result = "ok" /\ Fail("compactOpen")
  /\ tables' = [i \in DOMAIN tables |->
                  IF i <= Len(Remaining) THEN Remaining[i] ELSE tables[i]]
  /\ cp' = IdleCompaction
  /\ UNCHANGED <<lifeVars, genCounter, memVars, handles, chVars, diskVars,
                 snapVars, wr, fl, rd>>

\* Outside e.mu: retire the inputs one after the other.
CompactionRetire ==
  /\ cp.pc = "retire"
  /\ cp.inputs # <<>>
  /\ Release(Head(cp.inputs), TRUE)
  /\ cp' = [cp EXCEPT !.inputs = Tail(@)]
  /\ UNCHANGED <<lifeVars, genCounter, memVars, tables, chVars, wals, snapVars,
                 wr, fl, rd, faults>>

\* Chain another pass if one is due.
CompactionChain ==
  /\ cp.pc = "retire"
  /\ cp.inputs = <<>>
  /\ MaybeTrigger
  /\ cp' = IdleCompaction
  /\ UNCHANGED <<lifeVars, genCounter, memVars, tblVars, flushCh, diskVars,
                 snapVars, wr, fl, rd, faults>>

CompactionNext ==
  \/ CompactionWake \/ CompactionStop \/ CompactionPick \/ CompactionPin
  \/ CompactionMerge \/ CompactionMergeError \/ CompactionCommit
  \/ CompactionAbort \/ CompactionRetire \/ CompactionChain
=============================================================================
