---------------------------- MODULE StateProofs -----------------------------
(***************************************************************************)
(* What a state may be: e.activeSnapshots counts the open snapshots, an    *)
(* immutable MemTable has one owner until it is a table, every variable    *)
(* has its type, and the tables and the MemTables are in the order in      *)
(* which they were written.                                                *)
(***************************************************************************)
EXTENDS EngineProofs

(* e.activeSnapshots, and the bound that a compaction pins.                *)

\* The steps of writers and workers leave the snapshots alone.
LEMMA WritersFrame == WriterNext => UNCHANGED snapVars
<1> SUFFICES ASSUME NEW w \in Writers,
                    \/ \E k \in Keys : Delete(w, k) \/ \E v \in Values : Put(w, k, v)
                    \/ WriteAppend(w) \/ WriteAppendError(w) \/ WriteApply(w) \/ WriteCheck(w)
                    \/ RotateSkip(w) \/ RotateSwap(w) \/ RotateError(w) \/ RotateSend(w)
             PROVE  UNCHANGED snapVars
  BY DEF WriterNext
<1>1. ASSUME \E k \in Keys : Delete(w, k) \/ \E v \in Values : Put(w, k, v)
      PROVE  UNCHANGED snapVars
  BY <1>1, Zenon DEF Put, Delete, WriteBegin
<1>2. ASSUME WriteAppend(w) \/ WriteAppendError(w) \/ WriteApply(w) \/ WriteCheck(w)
      PROVE  UNCHANGED snapVars
  BY <1>2, Zenon DEF WriteAppend, WriteAppendError, WriteApply, WriteCheck
<1>3. ASSUME RotateSkip(w) \/ RotateSwap(w) \/ RotateError(w) \/ RotateSend(w)
      PROVE  UNCHANGED snapVars
  BY <1>3, Zenon DEF RotateSkip, RotateSwap, RotateError, RotateSend
<1> QED BY <1>1, <1>2, <1>3

\* Neither worker touches the snapshots.
LEMMA WorkersFrame == FlushNext \/ CompactionNext => UNCHANGED snapVars
<1>1. FlushNext => UNCHANGED snapVars
  BY Zenon DEF FlushNext, FlushTake, FlushStop, FlushWrite, FlushError, FlushCommit,
               FlushRemoveWAL, FlushTrigger
<1>2. CompactionNext => UNCHANGED snapVars
  BY Zenon DEF CompactionNext, CompactionWake, CompactionStop, CompactionPick, CompactionPin,
               CompactionMerge, CompactionMergeError, CompactionCommit, CompactionAbort,
               CompactionRetire, CompactionChain
<1> QED BY <1>1, <1>2

\* Reads do not touch the snapshots.
LEMMA ReadersFrame == ReaderNext => UNCHANGED snapVars
  BY Zenon DEF ReaderNext, Get, Scan, SnapshotScan, ReadBegin, ReadResolve, ReadRelease,
               ReadReturn

\* Only the end of the process touches them: it forgets all of them.
LEMMA LifecycleFrame ==
  LifecycleNext => Exit \/ UNCHANGED snapVars
  BY Zenon DEF LifecycleNext, OpenRecover, OpenRemoveWAL, OpenFinish, CloseBegin,
               CloseFlush, CloseFlushError, CloseWALError, CloseFinish

\* The counts as a function of the Seq, one Seq at a time.
LEMMA CountsAt ==
  ActiveSnapshotsExact <=>
    \A n \in 0..MaxSeq :
      /\ n \in DOMAIN activeSnapshots <=> OpenAt(n) # {}
      /\ OpenAt(n) # {} => activeSnapshots[n] = Cardinality(OpenAt(n))
  BY Zenon DEF ActiveSnapshotsExact, OpenAt

\* There are finitely many handles.
LEMMA OpenFinite == \A n : IsFiniteSet(OpenAt(n))
<1> SUFFICES ASSUME NEW n PROVE IsFiniteSet(OpenAt(n))
  OBVIOUS
<1>1. OpenAt(n) \in SUBSET Snapshots
  BY DEF OpenAt
<1> QED BY <1>1, FS_Subset, ConstantsAssumption

\* No snapshot is open before the first Open.
LEMMA SnapshotCountsInit == Init => SnapshotCounts
<1> SUFFICES ASSUME Init PROVE SnapshotCounts
  OBVIOUS
<1>1. snap = [s \in Snapshots |-> NoSnapshot] /\ DOMAIN activeSnapshots = {}
  BY DEF Init
<1>2. \A n : OpenAt(n) = {}
  BY <1>1 DEF OpenAt, NoSnapshot
<1>3. snap \in [Snapshots -> [pc : SnapshotPCs, seq : 0..MaxSeq]]
  BY <1>1, ConstantsAssumption DEF NoSnapshot, SnapshotPCs
<1> QED BY <1>1, <1>2, <1>3, CountsAt DEF SnapshotCounts

\* Snapshot adds one to the count of its Seq.
LEMMA RegisterCounts ==
  ASSUME SnapshotCounts, NEW s \in Snapshots, SnapshotRegister(s)
  PROVE  SnapshotCounts'
<1>0. PICK n \in 0..MaxSeq : n = snap[s].seq
  BY Zenon DEF SnapshotCounts
<1> DEFINE c == IF n \in DOMAIN activeSnapshots THEN activeSnapshots[n] ELSE 0
<1>1. /\ snap[s].pc = "loaded"
      /\ activeSnapshots' = With(activeSnapshots, n, c + 1)
      /\ snap' = [snap EXCEPT ![s].pc = "open"]
  BY <1>0, Zenon DEF SnapshotRegister
<1>2. snap \in [Snapshots -> [pc : SnapshotPCs, seq : 0..MaxSeq]]
  BY DEF SnapshotCounts
<1>3. /\ \A u \in Snapshots : u # s => snap'[u] = snap[u]
      /\ snap'[s].pc = "open" /\ snap'[s].seq = n
      /\ snap' \in [Snapshots -> [pc : SnapshotPCs, seq : 0..MaxSeq]]
  BY <1>0, <1>1, <1>2 DEF SnapshotPCs
<1>4. /\ OpenAt(n)' = OpenAt(n) \cup {s} /\ s \notin OpenAt(n)
      /\ \A m : m # n => OpenAt(m)' = OpenAt(m)
  BY <1>0, <1>1, <1>3 DEF OpenAt
<1>5. /\ DOMAIN activeSnapshots' = DOMAIN activeSnapshots \cup {n}
      /\ activeSnapshots'[n] = c + 1
      /\ \A m \in DOMAIN activeSnapshots : m # n => activeSnapshots'[m] = activeSnapshots[m]
  BY <1>1, Zenon DEF With
<1>6. c = Cardinality(OpenAt(n))
  BY <1>2, CountsAt, FS_EmptySet, Zenon DEF SnapshotCounts
<1>7. Cardinality(OpenAt(n)') = c + 1
  BY <1>4, <1>6, OpenFinite, FS_AddElement, Zenon
<1> HIDE DEF c
<1>8. ASSUME NEW m \in 0..MaxSeq
      PROVE  /\ m \in DOMAIN activeSnapshots' <=> OpenAt(m)' # {}
             /\ OpenAt(m)' # {} => activeSnapshots'[m] = Cardinality(OpenAt(m)')
  <2>1. CASE m = n
    BY <1>4, <1>5, <1>7, <2>1
  <2>2. CASE m # n
    BY <1>4, <1>5, <2>2, CountsAt DEF SnapshotCounts
  <2> QED BY <2>1, <2>2, Zenon
<1>9. ActiveSnapshotsExact'
  BY <1>8, Zenon DEF ActiveSnapshotsExact, OpenAt
<1> QED BY <1>2, <1>3, <1>5, <1>9 DEF SnapshotCounts

\* Close takes one off, and forgets the Seq with the last one.
LEMMA CloseCounts ==
  ASSUME SnapshotCounts, NEW s \in Snapshots, SnapshotClose(s)
  PROVE  SnapshotCounts'
<1>0. PICK n \in 0..MaxSeq : n = snap[s].seq
  BY DEF SnapshotCounts
<1>1. /\ snap[s].pc = "open"
      /\ activeSnapshots' = IF activeSnapshots[n] <= 1 THEN Without(activeSnapshots, n)
                            ELSE [activeSnapshots EXCEPT ![n] = @ - 1]
      /\ snap' = [snap EXCEPT ![s] = [pc |-> "closed", seq |-> 0]]
  BY <1>0, Zenon DEF SnapshotClose
<1>2. snap \in [Snapshots -> [pc : SnapshotPCs, seq : 0..MaxSeq]]
  BY DEF SnapshotCounts
<1>3. /\ \A u \in Snapshots : u # s => snap'[u] = snap[u]
      /\ snap'[s].pc = "closed"
      /\ snap' \in [Snapshots -> [pc : SnapshotPCs, seq : 0..MaxSeq]]
  BY <1>1, <1>2, ConstantsAssumption DEF SnapshotPCs
<1>4. /\ OpenAt(n)' = OpenAt(n) \ {s} /\ s \in OpenAt(n)
      /\ \A m : m # n => OpenAt(m)' = OpenAt(m)
  BY <1>0, <1>1, <1>3 DEF OpenAt
<1>5. n \in DOMAIN activeSnapshots /\ activeSnapshots[n] = Cardinality(OpenAt(n))
  BY <1>2, <1>4, CountsAt DEF SnapshotCounts
<1>6. /\ Cardinality(OpenAt(n)') = activeSnapshots[n] - 1
      /\ IsFiniteSet(OpenAt(n)')
  BY <1>4, <1>5, OpenFinite, FS_RemoveElement
<1>7. activeSnapshots[n] \in Nat /\ Cardinality(OpenAt(n)') \in Nat
  BY <1>5, <1>6, OpenFinite, FS_CardinalityType
<1>8. OpenAt(n)' = {} <=> activeSnapshots[n] <= 1
  BY <1>6, <1>7, FS_EmptySet
<1>9. ASSUME NEW m \in 0..MaxSeq
      PROVE  /\ m \in DOMAIN activeSnapshots' <=> OpenAt(m)' # {}
             /\ OpenAt(m)' # {} => activeSnapshots'[m] = Cardinality(OpenAt(m)')
  <2>1. CASE m = n
    BY <1>1, <1>5, <1>6, <1>8, <2>1, Zenon DEF Without
  <2>2. CASE m # n
    <3>1. /\ m \in DOMAIN activeSnapshots' <=> m \in DOMAIN activeSnapshots
          /\ m \in DOMAIN activeSnapshots => activeSnapshots'[m] = activeSnapshots[m]
      BY <1>1, <2>2 DEF Without
    <3> QED BY <1>4, <2>2, <3>1, CountsAt DEF SnapshotCounts
  <2> QED BY <2>1, <2>2
<1>10. ActiveSnapshotsExact'
  BY <1>9, Zenon DEF ActiveSnapshotsExact, OpenAt
<1>11. DOMAIN activeSnapshots' \subseteq 0..MaxSeq
  BY <1>1 DEF SnapshotCounts, Without
<1> QED BY <1>3, <1>10, <1>11 DEF SnapshotCounts

\* Every step keeps the counts; Snapshot takes a Seq that has been given out.
LEMMA SnapshotCountsStep ==
  ASSUME IInv, SnapshotCounts, [Next]_vars
  PROVE  SnapshotCounts'
<1>1. CASE UNCHANGED snapVars
  BY <1>1, Zenon DEF SnapshotCounts, ActiveSnapshotsExact, snapVars
<1>2. CASE Exit
  <2>1. snap' = [s \in Snapshots |-> NoSnapshot] /\ activeSnapshots' = << >>
    BY <1>2, Zenon DEF Exit, AllIdle
  <2>2. DOMAIN activeSnapshots' = {} /\ \A s \in Snapshots : snap'[s].pc # "open"
    BY <2>1 DEF NoSnapshot
  <2>3. snap' \in [Snapshots -> [pc : SnapshotPCs, seq : 0..MaxSeq]]
    BY <2>1, ConstantsAssumption DEF NoSnapshot, SnapshotPCs
  <2> QED BY <2>2, <2>3, Zenon DEF SnapshotCounts, ActiveSnapshotsExact
<1>3. ASSUME NEW s \in Snapshots, SnapshotLoad(s)
      PROVE  SnapshotCounts'
  <2>1. /\ snap[s].pc = "none" /\ UNCHANGED activeSnapshots
        /\ snap' = [snap EXCEPT ![s] = [pc |-> "loaded", seq |-> seq]]
    BY <1>3 DEF SnapshotLoad
  <2>2. seq \in 0..MaxSeq /\ snap \in [Snapshots -> [pc : SnapshotPCs, seq : 0..MaxSeq]]
    BY DEF IInv, Typed, SnapshotCounts
  <2>3. /\ snap' \in [Snapshots -> [pc : SnapshotPCs, seq : 0..MaxSeq]]
        /\ snap'[s].pc = "loaded" /\ \A u \in Snapshots : u # s => snap'[u] = snap[u]
    BY <2>1, <2>2 DEF SnapshotPCs
  <2>4. \A n : OpenAt(n)' = OpenAt(n)
    BY <2>1, <2>3 DEF OpenAt
  <2>5. \A n \in 0..MaxSeq :
          /\ n \in DOMAIN activeSnapshots' <=> OpenAt(n)' # {}
          /\ OpenAt(n)' # {} => activeSnapshots'[n] = Cardinality(OpenAt(n)')
    BY <2>1, <2>4, CountsAt, Zenon DEF SnapshotCounts
  <2>6. ActiveSnapshotsExact'
    BY <2>5, Zenon DEF ActiveSnapshotsExact, OpenAt
  <2> QED BY <2>1, <2>3, <2>6 DEF SnapshotCounts
<1>4. CASE SnapshotNext
  BY <1>3, <1>4, RegisterCounts, CloseCounts DEF SnapshotNext
<1>5. UNCHANGED vars => UNCHANGED snapVars
  BY DEF vars
<1> QED
  BY <1>1, <1>2, <1>4, <1>5, WritersFrame, WorkersFrame, ReadersFrame, LifecycleFrame DEF Next

\* e.activeSnapshots holds, for every Seq, the number of open snapshots pinned
\* at it, and no entry for a Seq without one: however Snapshot and Close of any
\* number of handles interleave with all else.
THEOREM ActiveSnapshotsExactAlways == Spec => []ActiveSnapshotsExact
<1>1. Init => SnapshotCounts
  BY SnapshotCountsInit
<1>2. IInv /\ SnapshotCounts /\ [Next]_vars => SnapshotCounts'
  BY SnapshotCountsStep
<1>3. SnapshotCounts => ActiveSnapshotsExact
  BY Zenon DEF SnapshotCounts
<1> QED BY <1>1, <1>2, <1>3, Invariance, PTL DEF Spec

\* What minActiveSnapshotSeq returns is at most the Seq of every snapshot that
\* is open at that moment.
THEOREM OldestIsPinnedAlways == Spec => []OldestIsPinned
<1>1. Init => SnapshotCounts
  BY SnapshotCountsInit
<1>2. IInv /\ SnapshotCounts /\ [Next]_vars => SnapshotCounts'
  BY SnapshotCountsStep
<1>3. SnapshotCounts => OldestIsPinned
  <2> SUFFICES ASSUME SnapshotCounts, NEW s \in Snapshots, snap[s].pc = "open"
               PROVE  MinActiveSnapshotSeq <= snap[s].seq
    BY DEF OldestIsPinned
  <2> DEFINE D == DOMAIN activeSnapshots \cup {UnboundedSeq}
  <2>1. D \in SUBSET Nat /\ D # {}
    BY ConstantsAssumption DEF SnapshotCounts, UnboundedSeq
  <2>2. snap[s].seq \in D
    <3>1. snap[s].seq \in 0..MaxSeq
      BY DEF SnapshotCounts
    <3>2. s \in OpenAt(snap[s].seq)
      BY Zenon DEF OpenAt
    <3> QED BY <3>1, <3>2, CountsAt, Zenon DEF SnapshotCounts
  <2> HIDE DEF D
  <2>3. Min(D) <= snap[s].seq
    BY <2>1, <2>2, LeastExists, Zenon DEF Min
  <2> QED BY <2>3, Zenon DEF MinActiveSnapshotSeq, D
<1> QED BY <1>1, <1>2, <1>3, Invariance, PTL DEF Spec

-----------------------------------------------------------------------------
(* The flush queue.                                                        *)

\* A step that makes no orphan keeps their number below that of the failures.
LEMMA NoNewOrphan ==
  ASSUME Failures, faults' \in Nat, faults <= faults', IsFiniteSet(imm'),
         Orphans' \subseteq Orphans
  PROVE  Failures'
<1>1. IsFiniteSet(Orphans)
  BY FS_Subset, Zenon DEF Failures, Orphans
<1>2. IsFiniteSet(Orphans') /\ Cardinality(Orphans') <= Cardinality(Orphans)
  BY <1>1, FS_Subset, Zenon
<1>3. Cardinality(Orphans) \in Nat /\ Cardinality(Orphans') \in Nat
  BY <1>1, <1>2, FS_CardinalityType
<1> QED BY <1>2, <1>3 DEF Failures

\* Steps that leave the MemTables and those on their way alone.
LEMMA JobsFrame ==
  ASSUME JobsInv, UNCHANGED <<mem, imm, flushCh, fl>>,
         \A w \in Writers : wr'[w].job = wr[w].job /\ (wr'[w].pc = "send" <=> wr[w].pc = "send"),
         faults' \in Nat, faults <= faults', Running' => Running
  PROVE  JobsInv'
<1>1. \A w \in Writers : \A g : Sends(w, g)' <=> Sends(w, g)
  BY Zenon DEF Sends
<1>2. \A g : Flushes(g)' <=> Flushes(g)
  BY Zenon DEF Flushes
<1>3. Owners'
  BY <1>1, <1>2, Zenon DEF JobsInv, Owners
<1>4. Jobs'
  BY Zenon DEF JobsInv, Jobs
<1>5. Orphans' = Orphans
  BY <1>1, <1>2, Zenon DEF Orphans
<1>6. Failures'
  BY <1>5, NoNewOrphan, Zenon DEF JobsInv, Failures
<1> QED BY <1>3, <1>4, <1>6 DEF JobsInv

\* An empty data directory has nothing to flush.
LEMMA JobsInit == Init => JobsInv
<1> SUFFICES ASSUME Init PROVE JobsInv
  OBVIOUS
<1>1. Owners
  BY DEF Init, Owners, Sends, Flushes, IdleWriter, IdleFlush
<1>2. Jobs
  BY Zenon DEF Init, Jobs, Running, IdleWriter, IdleFlush
<1>3. Orphans = {}
  BY DEF Init, Orphans
<1>4. Failures
  BY <1>3, FS_EmptySet DEF Init, Failures
<1> QED BY <1>1, <1>2, <1>4 DEF JobsInv

\* write, and the calls of rotate that do not rotate.
LEMMA WriteJobs ==
  ASSUME IInv, JobsInv, NEW w \in Writers,
         \/ \E k \in Keys : Delete(w, k) \/ \E v \in Values : Put(w, k, v)
         \/ WriteAppend(w) \/ WriteAppendError(w) \/ WriteApply(w) \/ WriteCheck(w)
         \/ RotateSkip(w) \/ RotateError(w)
  PROVE  JobsInv'
<1> USE DEF lifeVars, memVars, chVars, diskVars
<1>1. wr \in [Writers -> [pc : WriterPCs, rec : Entry, job : Nat]] /\ faults \in Nat
  BY Zenon DEF IInv, Typed, JobsInv, Failures
<1>2. wr[w].pc # "send" => wr[w].job = 0
  BY Zenon DEF JobsInv, Jobs
<1>3. CASE \E k \in Keys : Delete(w, k) \/ \E v \in Values : Put(w, k, v)
  <2>1. PICK k, v : WriteBegin(w, k, v)
    BY <1>3 DEF Put, Delete
  <2>2. \A u \in Writers : wr'[u].job = wr[u].job /\ (wr'[u].pc = "send" <=> wr[u].pc = "send")
    BY <1>1, <1>2, <2>1, Zenon DEF WriteBegin
  <2> QED BY <1>1, <2>1, <2>2, JobsFrame DEF WriteBegin, Running
<1>4. CASE WriteAppend(w)
  <2>1. \A u \in Writers : wr'[u].job = wr[u].job /\ (wr'[u].pc = "send" <=> wr[u].pc = "send")
    BY <1>1, <1>4 DEF WriteAppend
  <2> QED BY <1>1, <1>4, <2>1, JobsFrame DEF WriteAppend, Running
<1>5. CASE WriteAppendError(w)
  <2>1. \A u \in Writers : wr'[u].job = wr[u].job /\ (wr'[u].pc = "send" <=> wr[u].pc = "send")
    BY <1>1, <1>2, <1>5, Zenon DEF WriteAppendError, IdleWriter
  <2>2. faults' \in Nat /\ faults <= faults'
    BY <1>1, <1>5 DEF WriteAppendError, Fail
  <2>3. UNCHANGED <<mem, imm, flushCh, fl, phase>>
    BY <1>5, Zenon DEF WriteAppendError
  <2> QED BY <2>1, <2>2, <2>3, JobsFrame, Zenon DEF Running
<1>6. CASE WriteApply(w)
  <2>1. \A u \in Writers : wr'[u].job = wr[u].job /\ (wr'[u].pc = "send" <=> wr[u].pc = "send")
    BY <1>1, <1>2, <1>6, Zenon DEF WriteApply
  <2> QED BY <1>1, <1>6, <2>1, JobsFrame DEF WriteApply, Running
<1>7. CASE WriteCheck(w)
  <2>1. \A u \in Writers : wr'[u].job = wr[u].job /\ (wr'[u].pc = "send" <=> wr[u].pc = "send")
    BY <1>1, <1>2, <1>7, Zenon DEF WriteCheck, IdleWriter
  <2> QED BY <1>1, <1>7, <2>1, JobsFrame DEF WriteCheck, Running
<1>8. CASE RotateSkip(w) \/ RotateError(w)
  <2>1. \A u \in Writers : wr'[u].job = wr[u].job /\ (wr'[u].pc = "send" <=> wr[u].pc = "send")
    BY <1>1, <1>2, <1>8 DEF RotateSkip, RotateError, IdleWriter
  <2>2. faults' \in Nat /\ faults <= faults'
    BY <1>1, <1>8 DEF RotateSkip, RotateError, Fail
  <2>3. UNCHANGED <<mem, imm, flushCh, fl, phase>>
    BY <1>8, Zenon DEF RotateSkip, RotateError
  <2> QED BY <2>1, <2>2, <2>3, JobsFrame, Zenon DEF Running
<1> QED BY <1>3, <1>4, <1>5, <1>6, <1>7, <1>8

\* rotate makes the active MemTable immutable and its caller the one that sends it.
LEMMA RotateSwapJobs ==
  ASSUME IInv, JobsInv, NEW w \in Writers, RotateSwap(w)
  PROVE  JobsInv'
<1> USE DEF lifeVars, chVars
<1>1. /\ wr \in [Writers -> [pc : WriterPCs, rec : Entry, job : Nat]]
      /\ mem \in Nat /\ genCounter \in Nat /\ imm \subseteq Nat /\ fl.job \in Nat
  BY Zenon DEF IInv, Typed
<1>2. /\ wr[w].pc = "rotate" /\ imm' = imm \cup {mem} /\ mem' = genCounter + 1
      /\ wr' = [wr EXCEPT ![w] = [pc |-> "send", rec |-> NoRecord, job |-> mem]]
      /\ UNCHANGED <<phase, flushCh, fl, faults>>
  BY Zenon DEF RotateSwap
<1>3. Running
  BY <1>2 DEF IInv, Quiet, IdleWriter, Running
<1>4. /\ mem <= genCounter /\ mem # 0
      /\ \A g \in imm : g < mem
  BY <1>3, Zenon DEF IInv, Queued, JobsInv, Jobs
<1>5. mem \notin imm
  BY <1>1, <1>4
<1>6. /\ \A g : Sends(w, g)' <=> g = mem
      /\ \A u \in Writers \ {w} : \A g : Sends(u, g)' <=> Sends(u, g)
      /\ \A g : ~Sends(w, g)
  BY <1>1, <1>2, Zenon DEF Sends
<1>7. \A g : Flushes(g)' <=> Flushes(g)
  BY <1>2, Zenon DEF Flushes
<1>8. \A u \in Writers \ {w} : wr'[u] = wr[u]
  BY <1>1, <1>2, Zenon
<1>9. wr'[w].pc = "send" /\ wr'[w].job = mem
  BY <1>1, <1>2
<1>10. Owners'
  <2>1. /\ \A u \in Writers : \A g : Sends(u, g) => g \in imm
        /\ \A i \in DOMAIN flushCh : flushCh[i] \in imm
        /\ \A g : Flushes(g) => g \in imm
    BY DEF JobsInv, Owners, Sends, Flushes
  <2>2. \A u \in Writers : wr'[u].pc = "send" => wr'[u].job \in imm'
    BY <1>2, <1>8, <1>9 DEF JobsInv, Owners
  <2>3. \A u, x \in Writers : \A g \in imm' : Sends(u, g)' /\ Sends(x, g)' => u = x
    BY <1>2, <1>5, <1>6, <2>1 DEF JobsInv, Owners
  <2>4. \A u \in Writers : \A i \in DOMAIN flushCh : ~Sends(u, flushCh[i])'
    BY <1>5, <1>6, <2>1, <1>2 DEF JobsInv, Owners
  <2>5. \A u \in Writers : ~(wr'[u].pc = "send" /\ Flushes(wr[u].job)')
    <3> SUFFICES ASSUME NEW u \in Writers, wr'[u].pc = "send" PROVE ~Flushes(wr'[u].job)
      BY <1>7, Zenon
    <3>1. CASE u = w
      BY <1>5, <1>9, <2>1, <3>1, Zenon
    <3>2. CASE u # w
      BY <1>8, <3>2, Zenon DEF JobsInv, Owners
    <3> QED BY <3>1, <3>2, Zenon
  <2> QED BY <1>2, <1>7, <2>1, <2>2, <2>3, <2>4, <2>5, Zenon DEF JobsInv, Owners
<1>11. Jobs'
  BY <1>1, <1>2, <1>4, <1>8, <1>9 DEF JobsInv, Jobs
<1>12. Orphans' \subseteq Orphans
  BY <1>2, <1>6, <1>7, Zenon DEF Orphans
<1>13. Failures'
  <2>1. IsFiniteSet(imm')
    BY <1>2, FS_AddElement, Zenon DEF JobsInv, Failures
  <2> QED BY <1>2, <1>12, <2>1, NoNewOrphan DEF JobsInv, Failures
<1> QED BY <1>10, <1>11, <1>13 DEF JobsInv

\* The job moves from the writer to the end of the queue.
LEMMA RotateSendJobs ==
  ASSUME IInv, JobsInv, NEW w \in Writers, RotateSend(w)
  PROVE  JobsInv'
<1> USE DEF lifeVars, memVars, chVars
<1>1. /\ wr \in [Writers -> [pc : WriterPCs, rec : Entry, job : Nat]]
      /\ flushCh \in Seq(Nat)
  BY Zenon DEF IInv, Typed
<1> DEFINE job == wr[w].job
<1>2. /\ wr[w].pc = "send" /\ flushCh' = Append(flushCh, job)
      /\ wr' = [wr EXCEPT ![w] = IdleWriter]
      /\ UNCHANGED <<phase, mem, imm, fl, faults>>
  BY Zenon DEF RotateSend
<1>3. /\ DOMAIN flushCh' = DOMAIN flushCh \cup {Len(flushCh) + 1}
      /\ Len(flushCh) + 1 \notin DOMAIN flushCh
      /\ \A i \in DOMAIN flushCh : flushCh'[i] = flushCh[i]
      /\ flushCh'[Len(flushCh) + 1] = job
  BY <1>1, <1>2
<1>4. /\ \A g : ~Sends(w, g)'
      /\ \A u \in Writers \ {w} : \A g : Sends(u, g)' <=> Sends(u, g)
      /\ Sends(w, job)
  BY <1>1, <1>2, Zenon DEF Sends, IdleWriter
<1>5. \A g : Flushes(g)' <=> Flushes(g)
  BY <1>2 DEF Flushes
<1>6. /\ \A u \in Writers \ {w} : wr'[u] = wr[u]
      /\ wr'[w].pc = "idle" /\ wr'[w].job = 0
  BY <1>1, <1>2, Zenon DEF IdleWriter
<1>7. job \in imm /\ ~Flushes(job) /\ \A i \in DOMAIN flushCh : flushCh[i] # job
  BY <1>2, <1>4, Zenon DEF JobsInv, Owners
<1> HIDE DEF job
<1>8. Owners'
  <2>1. \A u \in Writers \ {w} : ~Sends(u, job)
    BY <1>4, <1>7, Zenon DEF JobsInv, Owners
  <2>2. \A u \in Writers : wr'[u].pc = "send" => wr'[u].job \in imm' /\ ~Flushes(wr[u].job)'
    BY <1>2, <1>5, <1>6 DEF JobsInv, Owners
  <2>3. \A u, x \in Writers : \A g \in imm' : Sends(u, g)' /\ Sends(x, g)' => u = x
    BY <1>2, <1>4 DEF JobsInv, Owners
  <2>4. \A u \in Writers : \A i \in DOMAIN flushCh' : ~Sends(u, flushCh[i])'
    <3> SUFFICES ASSUME NEW u \in Writers \ {w}, NEW i \in DOMAIN flushCh'
                 PROVE  ~Sends(u, flushCh'[i])
      BY <1>4, Zenon
    <3>1. CASE i \in DOMAIN flushCh
      BY <1>3, <3>1, Zenon DEF JobsInv, Owners
    <3>2. CASE i = Len(flushCh) + 1
      BY <1>3, <2>1, <3>2
    <3> QED BY <1>3, <3>1, <3>2, Zenon
  <2>5. \A i \in DOMAIN flushCh' : flushCh'[i] \in imm' /\ ~Flushes(flushCh'[i])
    BY <1>2, <1>3, <1>7, Zenon DEF JobsInv, Owners
  <2>6. \A i, j \in DOMAIN flushCh' : flushCh'[i] = flushCh'[j] => i = j
    BY <1>3, <1>7, Zenon DEF JobsInv, Owners
  <2> QED BY <1>2, <1>5, <2>2, <2>3, <2>4, <2>5, <2>6, Zenon DEF JobsInv, Owners
<1>9. Jobs'
  BY <1>2, <1>6 DEF JobsInv, Jobs, Running
<1>10. Orphans' \subseteq Orphans
  <2> SUFFICES ASSUME NEW g \in Orphans' PROVE g \in Orphans
    OBVIOUS
  <2>1. /\ g \in imm /\ ~Flushes(g) /\ g # job
        /\ \A i \in DOMAIN flushCh : flushCh[i] # g
    BY <1>2, <1>3, <1>5, Zenon DEF Orphans
  <2>2. \A u \in Writers \ {w} : ~Sends(u, g)
    BY <1>4, Zenon DEF Orphans
  <2>3. ~Sends(w, g)
    BY <2>1, Zenon DEF Sends, job
  <2> QED BY <2>1, <2>2, <2>3, Zenon DEF Orphans
<1>11. Failures'
  BY <1>2, <1>10, NoNewOrphan DEF JobsInv, Failures
<1> QED BY <1>8, <1>9, <1>11, Zenon DEF JobsInv

\* Every step of a writer.
LEMMA WriterJobs == IInv /\ JobsInv /\ WriterNext => JobsInv'
  BY WriteJobs, RotateSwapJobs, RotateSendJobs DEF WriterNext

\* The job moves from the head of the queue to the worker.
LEMMA FlushTakeJobs ==
  ASSUME IInv, JobsInv, FlushTake
  PROVE  JobsInv'
<1> USE DEF lifeVars, memVars
<1>1. flushCh \in Seq(Nat)
  BY Zenon DEF IInv, Typed
<1>2. /\ fl.pc = "idle" /\ flushCh # <<>> /\ flushCh' = Tail(flushCh)
      /\ fl' = [pc |-> "write", job |-> Head(flushCh), gen |-> genCounter + 1]
      /\ UNCHANGED <<phase, mem, imm, wr, faults>>
  BY Zenon DEF FlushTake
<1>3. /\ 1 \in DOMAIN flushCh /\ Head(flushCh) = flushCh[1]
      /\ \A i \in DOMAIN flushCh' : i + 1 \in DOMAIN flushCh /\ flushCh'[i] = flushCh[i + 1]
      /\ \A i \in DOMAIN flushCh : i = 1 \/ i - 1 \in DOMAIN flushCh'
      /\ DOMAIN flushCh \subseteq Nat \ {0} /\ DOMAIN flushCh' \subseteq Nat \ {0}
  BY <1>1, <1>2
<1>4. \A w \in Writers : \A g : Sends(w, g)' <=> Sends(w, g)
  BY <1>2, Zenon DEF Sends
<1>5. (\A g : Flushes(g)' <=> g = flushCh[1]) /\ \A g : ~Flushes(g)
  BY <1>2, <1>3, Zenon DEF Flushes
<1>6. Owners'
  <2>1. /\ flushCh[1] \in imm /\ fl'.job = flushCh[1]
        /\ \A w \in Writers : wr[w].pc = "send" => wr[w].job # flushCh[1]
    BY <1>2, <1>3, Zenon DEF JobsInv, Owners, Sends
  <2>2. /\ \A i \in DOMAIN flushCh' : flushCh'[i] \in imm /\ flushCh'[i] # flushCh[1]
        /\ \A w \in Writers : \A i \in DOMAIN flushCh' : ~Sends(w, flushCh'[i])
    BY <1>3 DEF JobsInv, Owners
  <2>3. \A i, j \in DOMAIN flushCh' : flushCh'[i] = flushCh'[j] => i = j
    BY <1>3 DEF JobsInv, Owners
  <2> QED BY <1>2, <1>4, <1>5, <2>1, <2>2, <2>3, Zenon DEF JobsInv, Owners
<1>7. Jobs'
  BY <1>2, Zenon DEF JobsInv, Jobs, Running
<1>8. Orphans' \subseteq Orphans
  <2> SUFFICES ASSUME NEW g \in Orphans', NEW i \in DOMAIN flushCh PROVE flushCh[i] # g
    BY <1>2, <1>4, <1>5, Zenon DEF Orphans
  <2>1. g # flushCh[1]
    BY <1>5 DEF Orphans
  <2>2. i # 1 => flushCh'[i - 1] # g /\ flushCh'[i - 1] = flushCh[i]
    BY <1>3 DEF Orphans
  <2> QED BY <2>1, <2>2, Zenon
<1>9. Failures'
  BY <1>2, <1>8, NoNewOrphan DEF JobsInv, Failures
<1> QED BY <1>6, <1>7, <1>9 DEF JobsInv

\* The MemTable stays in e.imm and is an orphan from now on.
LEMMA FlushErrorJobs ==
  ASSUME IInv, JobsInv, FlushError
  PROVE  JobsInv'
<1> USE DEF lifeVars, memVars, chVars
<1>1. /\ fl.pc = "write" /\ fl' = IdleFlush /\ faults' = faults + 1
      /\ UNCHANGED <<phase, mem, imm, flushCh, wr>>
  BY Zenon DEF FlushError, Fail
<1>2. \A w \in Writers : \A g : Sends(w, g)' <=> Sends(w, g)
  BY <1>1, Zenon DEF Sends
<1>3. (\A g : ~Flushes(g)') /\ \A g : Flushes(g) <=> g = fl.job
  BY <1>1, Zenon DEF Flushes, IdleFlush
<1>4. Owners'
  BY <1>1, <1>2, <1>3, Zenon DEF JobsInv, Owners, Flushes
<1>5. Jobs'
  BY <1>1, Zenon DEF JobsInv, Jobs, Running, IdleFlush
<1>6. Orphans' \subseteq Orphans \cup {fl.job}
  BY <1>1, <1>2, <1>3, Zenon DEF Orphans
<1>7. Failures'
  <2>1. IsFiniteSet(Orphans) /\ Cardinality(Orphans) \in Nat
    BY FS_Subset, FS_CardinalityType, Zenon DEF JobsInv, Failures, Orphans
  <2>2. /\ IsFiniteSet(Orphans \cup {fl.job})
        /\ Cardinality(Orphans \cup {fl.job}) <= Cardinality(Orphans) + 1
    <3>1. /\ IsFiniteSet(Orphans \cup {fl.job})
          /\ Cardinality(Orphans \cup {fl.job}) \in {Cardinality(Orphans), Cardinality(Orphans) + 1}
      BY <2>1, FS_AddElement, Zenon
    <3> QED BY <2>1, <3>1
  <2>3. IsFiniteSet(Orphans') /\ Cardinality(Orphans') <= Cardinality(Orphans \cup {fl.job})
    BY <1>6, <2>2, FS_Subset, Zenon
  <2>4. Cardinality(Orphans') \in Nat /\ Cardinality(Orphans \cup {fl.job}) \in Nat
    BY <2>2, <2>3, FS_CardinalityType, Zenon
  <2> QED BY <1>1, <2>1, <2>2, <2>3, <2>4 DEF JobsInv, Failures
<1> QED BY <1>4, <1>5, <1>7 DEF JobsInv

\* The MemTable leaves e.imm when its table is in the list.
LEMMA FlushCommitJobs ==
  ASSUME IInv, JobsInv, FlushCommit
  PROVE  JobsInv'
<1> USE DEF lifeVars, chVars
<1>1. fl \in [pc : FlushPCs, job : Nat, gen : Nat]
  BY DEF IInv, Typed
<1>2. /\ fl.pc = "commit" /\ imm' = imm \ {fl.job} /\ mem' = mem
      /\ fl'.pc = "remove" /\ fl'.job = fl.job
      /\ UNCHANGED <<phase, flushCh, wr, faults>>
  BY <1>1 DEF FlushCommit, RemainingImm
<1>3. Running
  BY <1>2 DEF IInv, Quiet, IdleFlush, Running
<1>4. fl.job < mem
  BY <1>2, <1>3, Zenon DEF IInv, Queued
<1>5. \A w \in Writers : \A g : Sends(w, g)' <=> Sends(w, g)
  BY <1>2, Zenon DEF Sends
<1>6. (\A g : ~Flushes(g)') /\ \A g : Flushes(g) <=> g = fl.job
  BY <1>2, Zenon DEF Flushes
<1>7. Owners'
  <2>1. /\ \A w \in Writers : wr[w].pc = "send" => wr[w].job # fl.job
        /\ \A i \in DOMAIN flushCh : flushCh[i] # fl.job
    BY <1>6, Zenon DEF JobsInv, Owners
  <2> QED BY <1>2, <1>5, <1>6, <2>1, Zenon DEF JobsInv, Owners
<1>8. Jobs'
  BY <1>2, <1>4, Zenon DEF JobsInv, Jobs, Running
<1>9. Orphans' \subseteq Orphans
  BY <1>2, <1>5, <1>6, Zenon DEF Orphans
<1>10. IsFiniteSet(imm')
  BY <1>2, FS_Subset, Zenon DEF JobsInv, Failures
<1>11. Failures'
  BY <1>2, <1>9, <1>10, NoNewOrphan DEF JobsInv, Failures
<1> QED BY <1>7, <1>8, <1>11 DEF JobsInv

\* Its other steps keep the job or have none.
LEMMA FlushMovesJobs ==
  ASSUME IInv, JobsInv, FlushStop \/ FlushWrite \/ FlushRemoveWAL \/ FlushTrigger
  PROVE  JobsInv'
<1> USE DEF lifeVars, memVars, chVars
<1>1. fl \in [pc : FlushPCs, job : Nat, gen : Nat] /\ faults \in Nat
  BY Zenon DEF IInv, Typed, JobsInv, Failures
<1>2. UNCHANGED <<phase, mem, imm, flushCh, wr>>
  BY Zenon DEF FlushStop, FlushWrite, FlushRemoveWAL, FlushTrigger
<1>3. faults' \in Nat /\ faults <= faults'
  BY <1>1 DEF FlushStop, FlushWrite, FlushRemoveWAL, FlushTrigger, Fail
<1>4. \/ fl.pc = "write" /\ fl'.pc = "commit" /\ fl'.job = fl.job
      \/ fl.pc = "remove" /\ fl'.pc = "trigger" /\ fl'.job = fl.job
      \/ fl.pc \in {"idle", "trigger"} /\ fl'.pc \in {"idle", "exited"} /\ fl'.job = 0
  <2>1. CASE FlushStop
    BY <2>1 DEF FlushStop, IdleFlush
  <2>2. CASE FlushWrite
    BY <1>1, <2>2, Zenon DEF FlushWrite
  <2>3. CASE FlushRemoveWAL
    BY <1>1, <2>3 DEF FlushRemoveWAL
  <2>4. CASE FlushTrigger
    BY <2>4, Zenon DEF FlushTrigger, IdleFlush
  <2> QED BY <2>1, <2>2, <2>3, <2>4, Zenon
<1>5. \A w \in Writers : \A g : Sends(w, g)' <=> Sends(w, g)
  BY <1>2 DEF Sends
<1>6. \A g : Flushes(g)' <=> Flushes(g)
  BY <1>4, Zenon DEF Flushes
<1>7. fl'.pc \in {"write", "commit"} => fl'.job \in imm
  BY <1>4, Zenon DEF JobsInv, Owners
<1>8. Owners'
  BY <1>2, <1>5, <1>6, <1>7, Zenon DEF JobsInv, Owners
<1>9. Jobs'
  BY <1>2, <1>4, Zenon DEF JobsInv, Jobs, Running
<1>10. Orphans' = Orphans
  BY <1>2, <1>5, <1>6 DEF Orphans
<1>11. Failures'
  BY <1>2, <1>3, <1>10, NoNewOrphan DEF JobsInv, Failures
<1> QED BY <1>8, <1>9, <1>11 DEF JobsInv

\* Every step of the flush worker.
LEMMA FlushJobs == IInv /\ JobsInv /\ FlushNext => JobsInv'
  BY FlushTakeJobs, FlushErrorJobs, FlushCommitJobs, FlushMovesJobs DEF FlushNext

\* Compactions, reads and snapshots do not touch what is to be flushed.
LEMMA OthersJobs ==
  ASSUME JobsInv, CompactionNext \/ ReaderNext \/ SnapshotNext
  PROVE  JobsInv'
<1> USE DEF lifeVars, memVars, chVars
<1>1. faults \in Nat
  BY Zenon DEF JobsInv, Failures
<1>2. CASE CompactionNext
  <2>1. UNCHANGED <<phase, mem, imm, flushCh, wr, fl>>
    BY <1>2, Zenon
    DEF CompactionNext, CompactionWake, CompactionStop, CompactionPick, CompactionPin,
        CompactionMerge, CompactionMergeError, CompactionCommit, CompactionAbort,
        CompactionRetire, CompactionChain
  <2>2. faults' = faults \/ faults' = faults + 1
    BY <1>2, Zenon
    DEF CompactionNext, CompactionWake, CompactionStop, CompactionPick, CompactionPin,
        CompactionMerge, CompactionMergeError, CompactionCommit, CompactionAbort,
        CompactionRetire, CompactionChain, Fail
  <2> QED BY <1>1, <2>1, <2>2, JobsFrame DEF Running
<1>3. CASE ReaderNext
  <2>1. UNCHANGED <<phase, mem, imm, flushCh, wr, fl, faults>>
    BY <1>3, Zenon DEF ReaderNext, Get, Scan, SnapshotScan, ReadBegin, ReadResolve,
                       ReadRelease, ReadReturn
  <2> QED BY <1>1, <2>1, JobsFrame DEF Running
<1>4. CASE SnapshotNext
  <2>1. UNCHANGED <<phase, mem, imm, flushCh, wr, fl, faults>>
    BY <1>4, Zenon DEF SnapshotNext, SnapshotLoad, SnapshotRegister, SnapshotClose
  <2> QED BY <1>1, <2>1, JobsFrame DEF Running
<1> QED BY <1>2, <1>3, <1>4

\* The end of the process forgets the jobs, and Open starts with none.
LEMMA LifecycleJobs ==
  ASSUME IInv, JobsInv, LifecycleNext
  PROVE  JobsInv'
<1> USE DEF lifeVars, memVars, chVars, tblVars, diskVars
<1>1. faults \in Nat /\ genCounter \in Nat
  BY Zenon DEF IInv, Typed, JobsInv, Failures
<1>2. CASE Exit
  <2>1. /\ imm' = {} /\ flushCh' = << >> /\ faults' = faults /\ phase' = "down"
        /\ wr' = [w \in Writers |-> IdleWriter] /\ fl' = IdleFlush
    BY <1>2, Zenon DEF Exit, AllIdle
  <2>2. \A w \in Writers : wr'[w].pc = "idle" /\ wr'[w].job = 0
    BY <2>1, Zenon DEF IdleWriter
  <2>3. fl'.pc = "idle" /\ fl'.job = 0
    BY <2>1, Zenon DEF IdleFlush
  <2>4. Owners'
    BY <2>1, <2>2, <2>3 DEF Owners, Sends, Flushes
  <2>5. Jobs'
    BY <2>1, <2>2, <2>3, Zenon DEF Jobs, Running
  <2>6. Orphans' = {}
    BY <2>1, Zenon DEF Orphans
  <2>7. Failures'
    BY <1>1, <2>1, <2>6, FS_EmptySet DEF Failures
  <2> QED BY <2>4, <2>5, <2>7 DEF JobsInv
<1>3. CASE OpenFinish
  <2>1. /\ phase = "recovering" /\ mem' = genCounter + 1
        /\ UNCHANGED <<imm, flushCh, wr, fl, faults>>
    BY <1>3 DEF OpenFinish
  <2>2. fl.pc = "idle"
    BY <2>1 DEF IInv, Quiet, IdleFlush
  <2>3. \A w \in Writers : \A g : Sends(w, g)' <=> Sends(w, g)
    BY <2>1, Zenon DEF Sends
  <2>4. \A g : Flushes(g)' <=> Flushes(g)
    BY <2>1 DEF Flushes
  <2>5. Owners'
    BY <2>1, <2>3, <2>4, Zenon DEF JobsInv, Owners
  <2>6. Jobs'
    BY <1>1, <2>1, <2>2 DEF JobsInv, Jobs
  <2>7. Orphans' = Orphans
    BY <2>1, <2>3, <2>4 DEF Orphans
  <2>8. Failures'
    BY <2>1, <2>7, Zenon DEF JobsInv, Failures
  <2> QED BY <2>5, <2>6, <2>8 DEF JobsInv
<1>4. CASE OpenRecover \/ OpenRemoveWAL
  <2>1. /\ UNCHANGED <<mem, imm, flushCh, wr, fl, faults>> /\ phase' = "recovering"
    BY <1>4, Zenon DEF OpenRecover, OpenRemoveWAL
  <2> QED BY <1>1, <2>1, JobsFrame DEF Running
<1>5. CASE CloseBegin \/ CloseFlush \/ CloseFlushError \/ CloseWALError \/ CloseFinish
  <2>1. UNCHANGED <<mem, imm, flushCh, wr, fl>> /\ phase \in {"up", "closing", "locked"}
    BY <1>5, Zenon DEF CloseBegin, CloseFlush, CloseFlushError, CloseWALError, CloseFinish
  <2>2. faults' = faults \/ faults' = faults + 1
    BY <1>5, Zenon
    DEF CloseBegin, CloseFlush, CloseFlushError, CloseWALError, CloseFinish, Fail
  <2> QED BY <1>1, <2>1, <2>2, JobsFrame DEF Running
<1> QED BY <1>2, <1>3, <1>4, <1>5 DEF LifecycleNext

\* Every step keeps the invariant of the jobs.
LEMMA JobsStep ==
  ASSUME IInv, JobsInv, [Next]_vars
  PROVE  JobsInv'
<1>1. CASE UNCHANGED vars
  <2>1. UNCHANGED <<phase, mem, imm, flushCh, wr, fl, faults>>
    BY <1>1, Zenon DEF vars, lifeVars, memVars, chVars
  <2> QED BY <2>1, JobsFrame DEF Running, JobsInv, Failures
<1> QED BY <1>1, WriterJobs, FlushJobs, OthersJobs, LifecycleJobs DEF Next

\* The number of places in which a MemTable waits, as EveryImmutableIsQueued
\* counts them: one while it has an owner, none once it is an orphan.
LEMMA PlacesOf ==
  ASSUME IInv, JobsInv, NEW g \in imm
  PROVE  Cardinality({w \in Writers : wr[w].job = g})
           + Cardinality({i \in DOMAIN flushCh : flushCh[i] = g})
           + (IF fl.job = g THEN 1 ELSE 0)
         = IF g \in Orphans THEN 0 ELSE 1
<1> DEFINE W == {w \in Writers : wr[w].job = g}
           Q == {i \in DOMAIN flushCh : flushCh[i] = g}
<1>1. g # 0
  BY Zenon DEF JobsInv, Jobs
<1>2. \A w \in Writers : wr[w].job = g <=> Sends(w, g)
  BY <1>1, Zenon DEF JobsInv, Jobs, Sends
<1>3. fl.job = g <=> Flushes(g)
  <2>1. fl.pc \in FlushPCs
    BY DEF IInv, Typed
  <2> QED BY <1>1, <2>1 DEF JobsInv, Jobs, Flushes, FlushPCs
<1>4. Cardinality(W) = IF W = {} THEN 0 ELSE 1
  <2>1. \A w, u \in W : w = u
    BY <1>2, Zenon DEF JobsInv, Owners
  <2> HIDE DEF W
  <2> QED BY <2>1, AtMostOne
<1>5. Cardinality(Q) = IF Q = {} THEN 0 ELSE 1
  <2>1. \A i, j \in Q : i = j
    BY Zenon DEF JobsInv, Owners
  <2> HIDE DEF Q
  <2> QED BY <2>1, AtMostOne
<1>6. g \in Orphans <=> W = {} /\ Q = {} /\ fl.job # g
  BY <1>2, <1>3, Zenon DEF Orphans
<1>7. ~(W # {} /\ Q # {}) /\ ~(W # {} /\ fl.job = g) /\ ~(Q # {} /\ fl.job = g)
  BY <1>2, <1>3 DEF JobsInv, Owners, Sends
<1> HIDE DEF W, Q
<1>8. Cardinality(W) + Cardinality(Q) + (IF fl.job = g THEN 1 ELSE 0)
        = IF g \in Orphans THEN 0 ELSE 1
  BY <1>4, <1>5, <1>6, <1>7
<1> QED BY <1>8, Zenon DEF W, Q

\* A rotated-out MemTable is never queued twice, and it is off the queue only
\* because its flush failed, one MemTable per failure: for every number of
\* writers, every depth of the queue and any failures.
THEOREM EveryImmutableIsQueuedAlways == Spec => []EveryImmutableIsQueued
<1>1. Init => JobsInv
  BY JobsInit
<1>2. IInv /\ JobsInv /\ [Next]_vars => JobsInv'
  BY JobsStep
<1>3. IInv /\ JobsInv => EveryImmutableIsQueued
  <2> SUFFICES ASSUME IInv, JobsInv PROVE EveryImmutableIsQueued
    BY Zenon
  <2> DEFINE Places(g) == Cardinality({w \in Writers : wr[w].job = g})
                            + Cardinality({i \in DOMAIN flushCh : flushCh[i] = g})
                            + (IF fl.job = g THEN 1 ELSE 0)
  <2>1. \A g \in imm : Places(g) = IF g \in Orphans THEN 0 ELSE 1
    BY PlacesOf, Zenon
  <2> HIDE DEF Places
  <2>2. {g \in imm : Places(g) = 0} = Orphans /\ \A g \in imm : Places(g) <= 1
    BY <2>1 DEF Orphans
  <2>3. Cardinality({g \in imm : Places(g) = 0}) <= faults
    BY <2>2, Zenon DEF JobsInv, Failures
  <2> QED BY <2>2, <2>3, Zenon DEF EveryImmutableIsQueued, Places
<1> QED BY <1>1, <1>2, <1>3, Invariance, PTL DEF Spec

-----------------------------------------------------------------------------
(* The types.                                                              *)

\* A MemTable object changes in four places.
LEMMA MemTouches ==
  [Next]_vars => \/ UNCHANGED mts
                 \/ \E w \in Writers : WriteApply(w) \/ RotateSwap(w)
                 \/ FlushCommit \/ Exit \/ OpenFinish
<1> USE DEF memVars
<1>1. WriterNext => UNCHANGED mts \/ \E w \in Writers : WriteApply(w) \/ RotateSwap(w)
  <2> SUFFICES ASSUME NEW w \in Writers,
                      \/ \E k \in Keys : Delete(w, k) \/ \E v \in Values : Put(w, k, v)
                      \/ WriteAppend(w) \/ WriteAppendError(w) \/ WriteCheck(w)
                      \/ RotateSkip(w) \/ RotateError(w) \/ RotateSend(w)
               PROVE  UNCHANGED mts
    BY Zenon DEF WriterNext
  <2>1. ASSUME \E k \in Keys : Delete(w, k) \/ \E v \in Values : Put(w, k, v)
        PROVE  UNCHANGED mts
    BY <2>1, Zenon DEF Put, Delete, WriteBegin
  <2>2. ASSUME WriteAppend(w) \/ WriteAppendError(w) \/ WriteCheck(w)
        PROVE  UNCHANGED mts
    BY <2>2, Zenon DEF WriteAppend, WriteAppendError, WriteCheck
  <2>3. ASSUME RotateSkip(w) \/ RotateError(w) \/ RotateSend(w)
        PROVE  UNCHANGED mts
    BY <2>3, Zenon DEF RotateSkip, RotateError, RotateSend
  <2> QED BY <2>1, <2>2, <2>3, Zenon
<1>2. FlushNext => UNCHANGED mts \/ FlushCommit
  BY Zenon DEF FlushNext, FlushTake, FlushStop, FlushWrite, FlushError, FlushRemoveWAL,
               FlushTrigger
<1>3. CompactionNext => UNCHANGED mts
  BY Zenon DEF CompactionNext, CompactionWake, CompactionStop, CompactionPick, CompactionPin,
               CompactionMerge, CompactionMergeError, CompactionCommit, CompactionAbort,
               CompactionRetire, CompactionChain
<1>4. ReaderNext => UNCHANGED mts
  BY Zenon DEF ReaderNext, Get, Scan, SnapshotScan, ReadBegin, ReadResolve, ReadRelease,
               ReadReturn
<1>5. SnapshotNext => UNCHANGED mts
  BY Zenon DEF SnapshotNext, SnapshotLoad, SnapshotRegister, SnapshotClose
<1>6. LifecycleNext => UNCHANGED mts \/ Exit \/ OpenFinish
  BY Zenon DEF LifecycleNext, OpenRecover, OpenRemoveWAL, CloseBegin, CloseFlush,
               CloseFlushError, CloseWALError, CloseFinish
<1>7. UNCHANGED vars => UNCHANGED mts
  BY Zenon DEF vars
<1> QED BY <1>1, <1>2, <1>3, <1>4, <1>5, <1>6, <1>7 DEF Next

\* MemTables stay MemTables.
LEMMA MemTypesStep ==
  ASSUME IInv, MemTypes, [Next]_vars
  PROVE  MemTypes'
<1>1. CASE UNCHANGED mts
  BY <1>1, Zenon DEF MemTypes
<1>2. ASSUME NEW w \in Writers, WriteApply(w) PROVE MemTypes'
  <2>1. wr[w].rec \in Record
    BY <1>2, Zenon DEF WriteApply, IInv, Logging
  <2>2. /\ DOMAIN mts' = DOMAIN mts
        /\ \A g \in DOMAIN mts : mts'[g] \in {mts[g], Apply(mts[g], wr[w].rec)}
    BY <1>2, Zenon DEF WriteApply
  <2> QED BY <2>1, <2>2, ApplyRecords DEF MemTypes
<1>3. CASE (\E w \in Writers : RotateSwap(w)) \/ OpenFinish
  <2>1. PICK g : mts' = With(mts, g, EmptyMem)
    BY <1>3, Zenon DEF RotateSwap, OpenFinish
  <2> QED BY <2>1, EmptyMemRecords DEF MemTypes, With
<1>4. CASE FlushCommit
  <2>1. PICK G : mts' = Restrict(mts, DOMAIN mts \cap G)
    BY <1>4, Zenon DEF FlushCommit
  <2> QED BY <2>1 DEF MemTypes, Restrict
<1>5. CASE Exit
  BY <1>5 DEF Exit, MemTypes
<1> QED BY <1>1, <1>2, <1>3, <1>4, <1>5, MemTouches, Zenon

\* Steps that leave the tables, the files, the compaction worker and the readers alone.
LEMMA TypesFrame ==
  ASSUME Types, MemTypes', UNCHANGED <<lifeVars, tblVars, ssts, compactCh, cp, rd>>,
         Running \/ UNCHANGED wals
  PROVE  Types'
<1>1. TableTypes' /\ FileTypes' /\ CompactionTypes' /\ ReaderTypes'
  BY Zenon DEF Types, TableTypes, FileTypes, CompactionTypes, ReaderTypes, tblVars
<1>2. RedoTypes'
  BY Zenon DEF Types, RedoTypes, lifeVars, Running
<1> QED BY <1>1, <1>2 DEF Types

\* Writers and snapshots keep the types.
LEMMA ClientTypes == IInv /\ Types /\ (WriterNext \/ SnapshotNext) => Types'
<1> SUFFICES ASSUME IInv, Types, WriterNext \/ SnapshotNext PROVE Types'
  OBVIOUS
<1>1. MemTypes'
  BY MemTypesStep, Zenon DEF Next, Types
<1>2. CASE WriterNext
  <2>1. UNCHANGED <<lifeVars, tblVars, ssts, compactCh, cp, rd>>
    BY <1>2, WriterTouches, Zenon
  <2> QED BY <1>1, <1>2, <2>1, ActorsRun, TypesFrame
<1>3. CASE SnapshotNext
  <2>1. UNCHANGED <<lifeVars, tblVars, ssts, compactCh, cp, rd, wals>>
    BY <1>3, SnapshotTouches DEF diskVars, chVars
  <2> QED BY <1>1, <2>1, TypesFrame, Zenon
<1> QED BY <1>2, <1>3

\* maybeTriggerCompaction leaves a token or none.
LEMMA TriggerTyped ==
  ASSUME compactCh \in BOOLEAN, MaybeTrigger PROVE compactCh' \in BOOLEAN
  BY Zenon DEF MaybeTrigger

\* What doFlush writes is a table of records.
LEMMA FlushFileTyped ==
  ASSUME IInv, JobsInv, Types, fl.pc = "write", ssts' \in {ssts, FlushFile}
  PROVE  FileTypes'
<1>1. Running
  BY DEF IInv, Quiet, Running, IdleFlush, Typed
<1>2. fl.job \in imm
  BY Zenon DEF JobsInv, Owners
<1>3. mts[fl.job] \in MemTables
  BY <1>1, <1>2, Zenon DEF IInv, Queued
<1>4. RecordsOf(mts[fl.job]) \subseteq Record
  BY <1>3, RecordsTyped, Zenon
<1> DEFINE R == RecordsOf(mts[fl.job])
<1>5. ssts' \in {ssts, With(ssts, fl.gen, [level |-> 0, recs |-> R])}
  BY Zenon DEF FlushFile
<1>6. R \subseteq Record
  BY <1>4, Zenon
<1> HIDE DEF R
<1>7. \A g \in DOMAIN ssts' : \/ g \in DOMAIN ssts /\ ssts'[g] = ssts[g]
                              \/ ssts'[g] = [level |-> 0, recs |-> R]
  BY <1>5 DEF With
<1> QED BY <1>6, <1>7 DEF Types, FileTypes

\* The flush worker keeps the types.
LEMMA FlushTypes == IInv /\ JobsInv /\ Types /\ FlushNext => Types'
<1> SUFFICES ASSUME IInv, JobsInv, Types, FlushNext PROVE Types'
  BY Zenon
<1>1. MemTypes' /\ UNCHANGED <<lifeVars, cp, rd>> /\ Running
  BY MemTypesStep, FlushTouches, ActorsRun DEF Next, Types
<1>2. RedoTypes' /\ ReaderTypes'
  BY <1>1, Zenon DEF Types, RedoTypes, ReaderTypes, Running, lifeVars
<1>3. TableTypes'
  <2>1. CASE FlushCommit
    <3>1. fl.gen \in Nat /\ tables \in Seq(TableEntry)
      BY Zenon DEF IInv, Typed, Types, TableTypes
    <3>2. tables' = Append(tables, [level |-> 0, gen |-> fl.gen])
      BY <2>1 DEF FlushCommit
    <3>3. [level |-> 0, gen |-> fl.gen] \in TableEntry
      BY <3>1, Zenon DEF TableEntry
    <3>4. tables' \in Seq(TableEntry)
      BY <3>1, <3>2, <3>3
    <3>5. handles' = With(handles, fl.gen, NewHandle)
      BY <2>1, Zenon DEF FlushCommit
    <3>6. NewHandle \in Handle
      BY Zenon DEF NewHandle, Handle
    <3>7. \A g \in DOMAIN handles' : handles'[g] \in Handle
      BY <3>5, <3>6, Zenon DEF With, Types, TableTypes
    <3> QED BY <3>4, <3>7 DEF TableTypes
  <2>2. CASE UNCHANGED tblVars
    BY <2>2, Zenon DEF Types, TableTypes, tblVars
  <2>3. FlushNext => FlushCommit \/ UNCHANGED tblVars
    BY Zenon DEF FlushNext, FlushTake, FlushStop, FlushWrite, FlushError, FlushRemoveWAL,
                 FlushTrigger
  <2> QED BY <2>1, <2>2, <2>3
<1>4. FileTypes'
  <2>1. CASE UNCHANGED ssts
    BY <2>1, Zenon DEF Types, FileTypes
  <2>2. FlushNext => UNCHANGED ssts \/ (fl.pc = "write" /\ ssts' \in {ssts, FlushFile})
    BY Zenon DEF FlushNext, FlushTake, FlushStop, FlushWrite, FlushError, FlushCommit,
                 FlushRemoveWAL, FlushTrigger, diskVars
  <2> QED BY <2>1, <2>2, FlushFileTyped, Zenon
<1>5. CompactionTypes'
  <2>1. FlushNext => UNCHANGED compactCh \/ MaybeTrigger
    BY Zenon DEF FlushNext, FlushTake, FlushStop, FlushWrite, FlushError, FlushCommit,
                 FlushRemoveWAL, FlushTrigger, chVars
  <2>2. compactCh' \in BOOLEAN
    BY <2>1, TriggerTyped DEF Types, CompactionTypes
  <2> QED BY <1>1, <2>2 DEF Types, CompactionTypes
<1> QED BY <1>1, <1>2, <1>3, <1>4, <1>5, Zenon DEF Types

\* What runCompaction writes is a table of records.
LEMMA MergeFileTyped ==
  ASSUME IInv, Types, FileInv, CompactionMerge
  PROVE  FileTypes' /\ CompactionTypes'
<1>1. PICK R \in SUBSET Pool(InputRecords) :
        /\ ssts' = IF R = {} THEN ssts
                   ELSE With(ssts, cp.gen, [level |-> cp.target, recs |-> R])
        /\ cp' = [cp EXCEPT !.pc = "commit", !.result = IF R = {} THEN "empty" ELSE "ok"]
        /\ UNCHANGED compactCh
  BY Zenon DEF CompactionMerge, chVars
<1>2. \A i \in DOMAIN cp.inputs : cp.inputs[i] \in DOMAIN ssts
  BY Zenon DEF CompactionMerge, FileInv, Shelved, Input
<1>3. \A i \in DOMAIN cp.inputs : InputRecords[i] \subseteq Record
  BY <1>2, Zenon DEF InputRecords, Types, FileTypes
<1>4. Pool(InputRecords) \subseteq Record
  BY <1>3, Zenon DEF Pool, InputRecords
<1>5. R \subseteq Record /\ cp.target \in Nat /\ DOMAIN cp = CompactionFields
  BY <1>1, <1>4 DEF Types, CompactionTypes, IInv, Typed
<1>6. \A g \in DOMAIN ssts' : \/ g \in DOMAIN ssts /\ ssts'[g] = ssts[g]
                              \/ ssts'[g] = [level |-> cp.target, recs |-> R]
  BY <1>1 DEF With
<1>7. FileTypes'
  BY <1>5, <1>6 DEF Types, FileTypes
<1>8. cp'.pc = "commit" /\ cp'.inputs = cp.inputs /\ cp'.min = cp.min /\ cp'.target = cp.target
  BY <1>1, <1>5 DEF CompactionFields
<1>9. CompactionTypes'
  BY <1>1, <1>8 DEF Types, CompactionTypes, CompactionPCs
<1> QED BY <1>7, <1>9

\* The worker's own fields keep their types.
LEMMA CompactionFieldsTyped ==
  ASSUME IInv, SnapshotCounts, Types, CompactionNext, ~CompactionMerge
  PROVE  CompactionTypes'
<1> USE DEF CompactionPCs
<1>1. /\ compactCh \in BOOLEAN /\ cp.inputs \in Seq(Nat) /\ cp.min \in Nat /\ cp.target \in Nat
      /\ DOMAIN cp = CompactionFields /\ tables \in Seq(TableEntry)
  BY Zenon DEF Types, CompactionTypes, TableTypes, IInv, Typed
<1>2. CASE cp' = IdleCompaction \/ \E pc \in {"pick", "exited"} : cp' = [IdleCompaction EXCEPT !.pc = pc]
  <2>1. compactCh' \in BOOLEAN
    <3>1. UNCHANGED compactCh \/ compactCh' = FALSE \/ MaybeTrigger
      BY Zenon DEF CompactionNext, CompactionWake, CompactionStop, CompactionPick, CompactionPin,
                   CompactionMergeError, CompactionCommit, CompactionAbort,
                   CompactionRetire, CompactionChain, chVars
    <3> QED BY <1>1, <3>1, TriggerTyped, Zenon
  <2>2. cp'.pc \in {"idle", "pick", "exited"} /\ cp'.inputs = <<>> /\ cp'.min = 0 /\ cp'.target = 0
    BY <1>2 DEF IdleCompaction
  <2> QED BY <2>1, <2>2 DEF CompactionTypes
<1>3. CASE CompactionPick /\ PickCompaction # NoPlan
  <2>1. PICK lvl \in Nat : PickCompaction = Plan(lvl)
    BY <1>3, PickPlans, Zenon
  <2>2. Plan(lvl).inputs \in Seq(Nat) /\ Plan(lvl).target \in Nat
    <3>1. Plan(lvl).inputs \in Seq(Nat) /\ Plan(lvl).target = lvl + 1
      BY <1>1, PlanLists, Zenon
    <3> QED BY <3>1
  <2>3. cp' = [IdleCompaction EXCEPT !.pc = "pin", !.inputs = Plan(lvl).inputs,
                 !.target = Plan(lvl).target, !.bottom = IsBottommost(Plan(lvl).target)]
        /\ UNCHANGED compactCh
    BY <1>3, <2>1 DEF CompactionPick, chVars
  <2>4. cp'.pc = "pin" /\ cp'.inputs = Plan(lvl).inputs /\ cp'.min = 0 /\ cp'.target = Plan(lvl).target
    BY <2>3 DEF IdleCompaction
  <2> QED BY <1>1, <2>2, <2>3, <2>4 DEF CompactionTypes
<1>4. CASE CompactionPin
  <2> DEFINE m == MinActiveSnapshotSeq
  <2>1. DOMAIN activeSnapshots \cup {UnboundedSeq} \in SUBSET Nat
    BY ConstantsAssumption DEF SnapshotCounts, UnboundedSeq
  <2>2. m \in Nat
    BY <2>1, LeastExists DEF MinActiveSnapshotSeq, Min
  <2>3. cp' = [cp EXCEPT !.pc = "merge", !.min = m, !.gen = genCounter + 1] /\ UNCHANGED compactCh
    BY <1>4 DEF CompactionPin, chVars
  <2> HIDE DEF m
  <2>4. cp'.pc = "merge" /\ cp'.inputs = cp.inputs /\ cp'.min = m /\ cp'.target = cp.target
    BY <1>1, <2>3 DEF CompactionFields
  <2> QED BY <1>1, <2>2, <2>3, <2>4 DEF CompactionTypes
<1>5. CASE CompactionMergeError \/ CompactionCommit
  <2>1. UNCHANGED compactCh /\ (cp' = [cp EXCEPT !.pc = "commit", !.result = "failed"]
                                \/ cp' = [cp EXCEPT !.pc = "retire"])
    BY <1>5, Zenon DEF CompactionMergeError, CompactionCommit, chVars
  <2>2. cp'.pc \in {"commit", "retire"} /\ cp'.inputs = cp.inputs /\ cp'.min = cp.min /\ cp'.target = cp.target
    BY <1>1, <2>1, Zenon DEF CompactionFields
  <2> QED BY <1>1, <2>1, <2>2 DEF CompactionTypes
<1>6. CASE CompactionRetire
  <2>1. UNCHANGED compactCh /\ cp' = [cp EXCEPT !.inputs = Tail(@)] /\ cp.pc = "retire" /\ cp.inputs # <<>>
    BY <1>6 DEF CompactionRetire, chVars
  <2>2. cp'.pc = cp.pc /\ cp'.inputs = Tail(cp.inputs) /\ cp'.min = cp.min /\ cp'.target = cp.target
    BY <1>1, <2>1 DEF CompactionFields
  <2>3. Tail(cp.inputs) \in Seq(Nat)
    BY <1>1, <2>1
  <2> QED BY <1>1, <2>1, <2>2, <2>3 DEF CompactionTypes
<1>7. \/ cp' = IdleCompaction \/ \E pc \in {"pick", "exited"} : cp' = [IdleCompaction EXCEPT !.pc = pc]
      \/ CompactionPick /\ PickCompaction # NoPlan
      \/ CompactionPin \/ CompactionMergeError \/ CompactionCommit \/ CompactionRetire
  BY Zenon DEF CompactionNext, CompactionWake, CompactionStop, CompactionPick,
               CompactionAbort, CompactionChain
<1> QED BY <1>2, <1>3, <1>4, <1>5, <1>6, <1>7

\* The list stays a list of tables, with a handle behind each.
LEMMA CompactionTablesTyped ==
  ASSUME IInv, Types, CompactionNext
  PROVE  TableTypes'
<1>1. /\ tables \in Seq(TableEntry) /\ cp.target \in Nat /\ cp.gen \in Nat
      /\ \A g \in DOMAIN handles : handles[g] \in Handle
  BY Zenon DEF Types, TableTypes, CompactionTypes, IInv, Typed
<1>2. Remaining \in Seq(TableEntry) /\ Len(Remaining) <= Len(tables)
  BY <1>1, RemainingList, Zenon
<1>3. CASE CompactionCommit
  <2>1. [level |-> cp.target, gen |-> cp.gen] \in TableEntry
    BY <1>1, Zenon DEF TableEntry
  <2>2. tables' \in {Remaining, Append(Remaining, [level |-> cp.target, gen |-> cp.gen])}
    BY <1>3, Zenon DEF CompactionCommit
  <2>3. tables' \in Seq(TableEntry)
    BY <1>2, <2>1, <2>2
  <2>4. handles' \in {handles, With(handles, cp.gen, NewHandle)}
    BY <1>3 DEF CompactionCommit
  <2>5. NewHandle \in Handle
    BY DEF NewHandle, Handle
  <2>6. \A g \in DOMAIN handles' : handles'[g] \in Handle
    BY <1>1, <2>4, <2>5 DEF With
  <2> QED BY <2>3, <2>6, Zenon DEF TableTypes
<1>4. CASE CompactionAbort
  <2>1. /\ tables' = [i \in DOMAIN tables |-> IF i <= Len(Remaining) THEN Remaining[i] ELSE tables[i]]
        /\ UNCHANGED handles
    BY <1>4, Zenon DEF CompactionAbort
  <2>2. DOMAIN tables = 1..Len(tables) /\ Len(tables) \in Nat
    BY <1>1
  <2>3. \A i \in 1..Len(tables) : tables[i] \in TableEntry
    BY <1>1
  <2>4. \A i \in 1..Len(tables) : i <= Len(Remaining) => Remaining[i] \in TableEntry
    BY <1>2, <2>2
  <2>5. tables' \in Seq(TableEntry)
    BY <2>1, <2>2, <2>3, <2>4
  <2> QED BY <1>1, <2>1, <2>5, Zenon DEF TableTypes
<1>5. CASE CompactionRetire
  <2>1. Release(Head(cp.inputs), TRUE) /\ UNCHANGED tables
    BY <1>5, Zenon DEF CompactionRetire
  <2>2. TableTypes
    BY DEF Types
  <2>3. \A g \in DOMAIN handles' : handles'[g] \in Handle
    BY <1>1, <2>1, <2>2, ReleaseEffect, Zenon
  <2> QED BY <1>1, <2>1, <2>3, Zenon DEF TableTypes
<1>6. CASE UNCHANGED tblVars
  BY <1>6 DEF Types, TableTypes, tblVars
<1>7. UNCHANGED tblVars \/ CompactionCommit \/ CompactionAbort \/ CompactionRetire
  BY Zenon DEF CompactionNext, CompactionWake, CompactionStop, CompactionPick, CompactionPin,
               CompactionMerge, CompactionMergeError, CompactionChain
<1> QED BY <1>3, <1>4, <1>5, <1>6, <1>7, Zenon

\* The compaction worker keeps the types.
LEMMA CompactionKeepsTypes ==
  IInv /\ SnapshotCounts /\ Types /\ FileInv /\ CompactionNext => Types'
<1> SUFFICES ASSUME IInv, SnapshotCounts, Types, FileInv, CompactionNext PROVE Types'
  OBVIOUS
<1>1. MemTypes' /\ UNCHANGED <<lifeVars, wals, fl, rd>>
  BY MemTypesStep, CompactionTouches, Zenon DEF Next, Types
<1>2. RedoTypes' /\ ReaderTypes'
  BY <1>1, Zenon DEF Types, RedoTypes, ReaderTypes, Running, lifeVars
<1>3. CompactionTypes'
  BY MergeFileTyped, CompactionFieldsTyped, Zenon
<1>4. FileTypes'
  <2>1. CASE CompactionRetire
    <3>1. Release(Head(cp.inputs), TRUE) /\ TableTypes
      BY <2>1, Zenon DEF CompactionRetire, Types
    <3>2. \A h \in DOMAIN ssts' : h \in DOMAIN ssts /\ ssts'[h] = ssts[h]
      BY <3>1, ReleaseEffect, Zenon
    <3> QED BY <3>2, Zenon DEF Types, FileTypes
  <2>2. CASE UNCHANGED ssts
    BY <2>2, Zenon DEF Types, FileTypes
  <2>3. UNCHANGED ssts \/ CompactionMerge \/ CompactionRetire
    BY Zenon DEF CompactionNext, CompactionWake, CompactionStop, CompactionPick, CompactionPin,
                 CompactionMergeError, CompactionCommit, CompactionAbort, CompactionChain, diskVars
  <2> QED BY <2>1, <2>2, <2>3, MergeFileTyped
<1> QED BY <1>1, <1>2, <1>3, <1>4, CompactionTablesTyped, Zenon DEF Types

\* The idle states are typed.
LEMMA IdleTyped ==
  /\ IdleCompaction.pc \in CompactionPCs /\ IdleCompaction.inputs \in Seq(Nat)
  /\ IdleCompaction.min \in Nat /\ IdleCompaction.target \in Nat
  /\ DOMAIN IdleReader = ReaderFields /\ IdleReader.pc \in ReaderPCs /\ IdleReader.tbs \in Seq(Nat)
<1>1. /\ IdleCompaction.pc = "idle" /\ IdleCompaction.inputs = << >>
      /\ IdleCompaction.min = 0 /\ IdleCompaction.target = 0
  BY Zenon DEF IdleCompaction
<1>2. IdleReader.pc = "idle" /\ IdleReader.tbs = << >>
  BY Zenon DEF IdleReader
<1>3. DOMAIN IdleReader = ReaderFields
  BY Zenon DEF IdleReader, ReaderFields
<1>4. << >> \in Seq(Nat) /\ 0 \in Nat
  OBVIOUS
<1>5. "idle" \in CompactionPCs /\ "idle" \in ReaderPCs
  BY Zenon DEF CompactionPCs, ReaderPCs
<1> QED BY <1>1, <1>2, <1>3, <1>4, <1>5, Zenon

\* Readers keep the types.
LEMMA ReaderKeepsTypes == IInv /\ Types /\ ReaderNext => Types'
<1> SUFFICES ASSUME IInv, Types, NEW r \in Readers,
                    \/ \E k \in Keys : Get(r, k)
                    \/ Scan(r)
                    \/ \E s \in Snapshots : SnapshotScan(r, s)
                    \/ ReadResolve(r) \/ ReadRelease(r) \/ ReadReturn(r)
             PROVE  Types'
  BY Zenon DEF ReaderNext
<1>1. MemTypes' /\ UNCHANGED <<lifeVars, genCounter, tables, wals, compactCh, fl, cp>>
  BY MemTypesStep, ReaderTouches, Zenon DEF Next, Types, ReaderNext
<1>2. RedoTypes' /\ CompactionTypes'
  BY <1>1, Zenon DEF Types, RedoTypes, CompactionTypes, Running, lifeVars
<1>3. /\ tables \in Seq(TableEntry) /\ \A g \in DOMAIN handles : handles[g] \in Handle
      /\ DOMAIN rd = Readers
      /\ \A x \in Readers : DOMAIN rd[x] = ReaderFields /\ rd[x].pc \in ReaderPCs /\ rd[x].tbs \in Seq(Nat)
  BY Zenon DEF Types, TableTypes, ReaderTypes
<1>4. ASSUME NEW f, rd' = [rd EXCEPT ![r] = f],
             DOMAIN f = ReaderFields, f.pc \in ReaderPCs, f.tbs \in Seq(Nat)
      PROVE  ReaderTypes'
  BY <1>3, <1>4, Zenon DEF ReaderTypes
<1>5. ASSUME NEW K, NEW max, ReadBegin(r, K, max) PROVE Types'
  <2> DEFINE f == [pc |-> "read", keys |-> K, max |-> max, mem |-> mem, imm |-> imm,
                   tbs |-> GensOf(tables), out |-> <<>>]
  <2>1. GensOf(tables) \in Seq(Nat)
    <3>0. DOMAIN tables = 1..Len(tables) /\ Len(tables) \in Nat /\ \A i \in 1..Len(tables) : tables[i] \in TableEntry
      BY <1>3
    <3>1. DOMAIN tables = 1..Len(tables) /\ Len(tables) \in Nat /\ \A i \in 1..Len(tables) : tables[i].gen \in Nat
      BY <3>0, Zenon DEF TableEntry
    <3>2. [i \in 1..Len(tables) |-> tables[i].gen] \in Seq(Nat)
      BY <3>1
    <3> QED BY <3>1, <3>2, Zenon DEF GensOf
  <2>2. rd' = [rd EXCEPT ![r] = f] /\ UNCHANGED ssts
    BY <1>5, Zenon DEF ReadBegin, diskVars
  <2>3. DOMAIN f = ReaderFields /\ f.pc \in ReaderPCs /\ f.tbs \in Seq(Nat)
    BY <2>1, Zenon DEF ReaderFields, ReaderPCs
  <2>4. ReaderTypes'
    <3> HIDE DEF f
    <3> QED BY <1>4, <2>2, <2>3, Zenon
  <2> DEFINE c(g) == Cardinality({i \in DOMAIN tables : tables[i].gen = g})
  <2>5. \A g : c(g) \in Nat
    <3> SUFFICES ASSUME NEW g PROVE c(g) \in Nat
      BY Zenon
    <3>1. IsFiniteSet(DOMAIN tables)
      <4>1. DOMAIN tables = 1..Len(tables) /\ Len(tables) \in Nat
        BY <1>3
      <4>2. \A n \in Nat : IsFiniteSet(1..n)
        BY FS_Interval
      <4> QED BY <4>1, <4>2
    <3>2. IsFiniteSet({i \in DOMAIN tables : tables[i].gen = g})
      BY <3>1, FS_Subset
    <3> QED BY <3>2, FS_CardinalityType, Zenon
  <2>6. handles' = [g \in DOMAIN handles |-> [handles[g] EXCEPT !.refCount = @ + c(g)]]
    BY <1>5 DEF ReadBegin
  <2> HIDE DEF c
  <2>7. \A g \in DOMAIN handles' : handles'[g] \in Handle
    <3>1. \A h \in Handle, n \in Nat : [h EXCEPT !.refCount = @ + n] \in Handle
      BY DEF Handle
    <3> QED BY <1>3, <2>5, <2>6, <3>1, Zenon
  <2>8. TableTypes' /\ FileTypes'
    BY <1>1, <1>3, <2>2, <2>7, Zenon DEF TableTypes, Types, FileTypes
  <2> QED BY <1>1, <1>2, <2>4, <2>8, Zenon DEF Types
<1>6. CASE ReadRelease(r)
  <2>1. Release(Head(rd[r].tbs), FALSE) /\ TableTypes /\ rd[r].tbs # <<>>
    BY <1>6, Zenon DEF ReadRelease, Types
  <2>2. \A g \in DOMAIN handles' : handles'[g] \in Handle
    BY <1>3, <2>1, ReleaseEffect, Zenon
  <2>3. \A h \in DOMAIN ssts' : h \in DOMAIN ssts /\ ssts'[h] = ssts[h]
    BY <2>1, ReleaseEffect, Zenon
  <2>4. TableTypes' /\ FileTypes'
    BY <1>1, <1>3, <2>2, <2>3, Zenon DEF TableTypes, Types, FileTypes
  <2>5. rd' = [rd EXCEPT ![r] = [rd[r] EXCEPT !.tbs = Tail(rd[r].tbs)]]
    BY <1>6, Zenon DEF ReadRelease
  <2>6. Tail(rd[r].tbs) \in Seq(Nat)
    BY <1>3, <2>1
  <2> DEFINE f == [rd[r] EXCEPT !.tbs = Tail(rd[r].tbs)]
  <2>7. DOMAIN f = ReaderFields /\ f.pc \in ReaderPCs /\ f.tbs \in Seq(Nat)
    BY <1>3, <2>6 DEF ReaderFields
  <2>8. rd' = [rd EXCEPT ![r] = f]
    BY <2>5, Zenon
  <2> HIDE DEF f
  <2>9. ReaderTypes'
    BY <1>4, <2>7, <2>8, Zenon
  <2> QED BY <1>1, <1>2, <2>4, <2>9, Zenon DEF Types
<1>7. CASE ReadResolve(r) \/ ReadReturn(r)
  <2>1. UNCHANGED <<handles, ssts>>
    BY <1>7, Zenon DEF ReadResolve, ReadReturn, tblVars, diskVars
  <2>2. TableTypes' /\ FileTypes'
    BY <1>1, <2>1, Zenon DEF Types, TableTypes, FileTypes
  <2>3. CASE ReadReturn(r)
    <3>1. rd' = [rd EXCEPT ![r] = IdleReader]
      BY <2>3, Zenon DEF ReadReturn
    <3>2. DOMAIN IdleReader = ReaderFields /\ IdleReader.pc \in ReaderPCs /\ IdleReader.tbs \in Seq(Nat)
      BY IdleTyped, Zenon
    <3> QED BY <1>1, <1>2, <1>4, <2>2, <3>1, <3>2, Zenon DEF Types
  <2>4. CASE ReadResolve(r)
    <3>1. PICK o : rd' = [rd EXCEPT ![r].pc = "release", ![r].mem = 0, ![r].imm = {}, ![r].out = o]
      BY <2>4, Zenon DEF ReadResolve
    <3>2. ReaderTypes'
      BY <1>3, <3>1 DEF ReaderTypes, ReaderFields, ReaderPCs
    <3> QED BY <1>1, <1>2, <2>2, <3>2, Zenon DEF Types
  <2> QED BY <1>7, <2>3, <2>4
<1> QED BY <1>5, <1>6, <1>7, Zenon DEF Get, Scan, SnapshotScan

\* Replay leaves for a key its last record in the order of files and positions.
LEMMA LoggedIsLast ==
  ASSUME Files, NEW k
  PROVE  \/ Logged(k) = NoRecord
            /\ \A g \in DOMAIN wals : \A i \in DOMAIN wals[g].recs : wals[g].recs[i].key # k
         \/ \E g \in DOMAIN wals : \E i \in DOMAIN wals[g].recs :
              /\ Logged(k) = wals[g].recs[i] /\ wals[g].recs[i].key = k
              /\ \A h \in DOMAIN wals : \A j \in DOMAIN wals[h].recs :
                   wals[h].recs[j].key = k => h < g \/ (h = g /\ j <= i)
<1> DEFINE Slots == UNION {{<<g, i>> : i \in DOMAIN wals[g].recs} : g \in DOMAIN wals}
           At == {p \in Slots : wals[p[1]].recs[p[2]].key = k}
           Last(p) == \A q \in At : q[1] < p[1] \/ (q[1] = p[1] /\ q[2] <= p[2])
           Has(g) == {i \in DOMAIN wals[g].recs : wals[g].recs[i].key = k}
           G == {g \in DOMAIN wals : Has(g) # {}}
<1>1. \A p : p \in At <=> \E g \in DOMAIN wals : \E i \in Has(g) : p = <<g, i>>
  OBVIOUS
<1>2. Logged(k) = IF At = {} THEN NoRecord
                  ELSE wals[(CHOOSE p \in At : Last(p))[1]].recs[(CHOOSE p \in At : Last(p))[2]]
  BY Zenon DEF Logged
<1>3. \A g \in DOMAIN wals : Has(g) \in SUBSET Nat /\ IsFiniteSet(Has(g))
  <2> SUFFICES ASSUME NEW g \in DOMAIN wals PROVE Has(g) \in SUBSET Nat /\ IsFiniteSet(Has(g))
    BY Zenon
  <2>1. wals[g].recs \in Seq(Record)
    BY Zenon DEF Files, WALs
  <2>2. DOMAIN wals[g].recs = 1..Len(wals[g].recs) /\ Len(wals[g].recs) \in Nat
    BY <2>1
  <2>3. \A n \in Nat : IsFiniteSet(1..n)
    BY FS_Interval
  <2>4. IsFiniteSet(DOMAIN wals[g].recs) /\ DOMAIN wals[g].recs \in SUBSET Nat
    BY <2>2, <2>3
  <2> QED BY <2>4, FS_Subset, Zenon
<1>4. G \in SUBSET Nat /\ IsFiniteSet(G)
  BY FS_Subset, Zenon DEF Files
<1>5. CASE G = {}
  <2>1. At = {}
    BY <1>1, <1>5, Zenon
  <2> QED BY <1>2, <1>5, <2>1, Zenon
<1>6. CASE G # {}
  <2>1. PICK g \in G : \A h \in G : h <= g
    <3> HIDE DEF G
    <3> QED BY <1>4, <1>6, FiniteGreatest
  <2>2. g \in DOMAIN wals /\ Has(g) # {}
    BY <2>1, Zenon
  <2>3. PICK i \in Has(g) : \A j \in Has(g) : j <= i
    <3> HIDE DEF Has
    <3> QED BY <1>3, <2>2, FiniteGreatest, Zenon
  <2>4. \A h \in DOMAIN wals : \A j \in Has(h) : h < g \/ (h = g /\ j <= i)
    <3> SUFFICES ASSUME NEW h \in DOMAIN wals, NEW j \in Has(h) PROVE h < g \/ (h = g /\ j <= i)
      BY Zenon
    <3>1. h \in G /\ g \in Nat /\ h \in Nat
      BY <1>4, <2>1, Zenon
    <3> HIDE DEF G
    <3>2. h <= g
      BY <2>1, <3>1, Zenon
    <3> QED BY <2>3, <3>1, <3>2
  <2>5. <<g, i>> \in At
    <3> HIDE DEF At, Has
    <3> QED BY <1>1, <2>2, <2>3, Zenon
  <2>6. Last(<<g, i>>)
    <3> SUFFICES ASSUME NEW q \in At PROVE q[1] < g \/ (q[1] = g /\ q[2] <= i)
      BY Zenon
    <3>1. PICK h \in DOMAIN wals : \E j \in Has(h) : q = <<h, j>>
      <4> HIDE DEF At, Has
      <4> QED BY <1>1, Zenon
    <3>2. PICK j \in Has(h) : q = <<h, j>>
      <4> HIDE DEF Has
      <4> QED BY <3>1, Zenon
    <3> QED BY <2>4, <3>2, Zenon
  <2> DEFINE c == CHOOSE p \in At : Last(p)
  <2>7. c \in At /\ Last(c)
    <3> HIDE DEF At, Last
    <3> QED BY <2>5, <2>6, Zenon
  <2>8. At # {} /\ Logged(k) = wals[c[1]].recs[c[2]]
    BY <1>2, <2>5, Zenon
  <2> HIDE DEF c
  <2>h. PICK h \in DOMAIN wals : \E j \in Has(h) : c = <<h, j>>
    <3> HIDE DEF At, Has
    <3> QED BY <1>1, <2>7, Zenon
  <2>9. PICK j \in Has(h) : c = <<h, j>>
    <3> HIDE DEF Has
    <3> QED BY <2>h, Zenon
  <2>10. c[1] = h /\ c[2] = j
    BY <2>9, Zenon
  <2>11. \A h1 \in DOMAIN wals : \A j1 \in Has(h1) : h1 < h \/ (h1 = h /\ j1 <= j)
    <3> SUFFICES ASSUME NEW h1 \in DOMAIN wals, NEW j1 \in Has(h1)
                 PROVE  h1 < h \/ (h1 = h /\ j1 <= j)
      BY Zenon
    <3>1. <<h1, j1>> \in At
      <4> HIDE DEF At, Has
      <4> QED BY <1>1, Zenon
    <3>2. <<h1, j1>>[1] < c[1] \/ (<<h1, j1>>[1] = c[1] /\ <<h1, j1>>[2] <= c[2])
      <4> HIDE DEF At
      <4> QED BY <2>7, <3>1, Zenon
    <3> QED BY <2>10, <3>2, Zenon
  <2> QED BY <2>8, <2>9, <2>10, <2>11, Zenon
<1> QED BY <1>5, <1>6, Zenon

\* What recovery writes as a table are records.
LEMMA LoggedRecordsTyped == Files => LoggedRecords \subseteq Record
<1> SUFFICES ASSUME Files, NEW k \in Keys, Logged(k) # NoRecord PROVE Logged(k) \in Record
  BY DEF LoggedRecords
<1>1. PICK g \in DOMAIN wals : \E i \in DOMAIN wals[g].recs : Logged(k) = wals[g].recs[i]
  BY LoggedIsLast, Zenon
<1>2. wals[g].recs \in Seq(Record)
  BY Zenon DEF Files, WALs
<1> QED BY <1>1, <1>2

\* The end of the process keeps the types.
LEMMA ExitKeepsTypes == IInv /\ Types /\ Exit => Types'
<1> SUFFICES ASSUME IInv, Types, Exit PROVE Types'
  OBVIOUS
<1>1. MemTypes'
  BY MemTypesStep DEF Next, LifecycleNext, Types
<1>2. /\ tables' = <<>> /\ handles' = <<>> /\ redo' = {} /\ phase' = "down" /\ UNCHANGED ssts
      /\ compactCh' = FALSE /\ cp' = IdleCompaction /\ rd' = [r \in Readers |-> IdleReader]
  BY DEF Exit, AllIdle
<1>3. TableTypes' /\ FileTypes' /\ RedoTypes'
  BY <1>2 DEF TableTypes, Types, FileTypes, RedoTypes
<1>4. CompactionTypes' /\ ReaderTypes'
  BY <1>2, IdleTyped, Zenon DEF CompactionTypes, ReaderTypes
<1> QED BY <1>1, <1>3, <1>4, Zenon DEF Types

\* Recovery keeps the types.
LEMMA RecoverKeepsTypes == IInv /\ Types /\ OpenRecover => Types'
<1> SUFFICES ASSUME IInv, Types, OpenRecover PROVE Types'
  OBVIOUS
<1> DEFINE new == Max({0} \cup DOMAIN wals \cup DOMAIN ssts) + 1
           R == LoggedRecords
<1>1. MemTypes' /\ Files
  BY MemTypesStep DEF Next, LifecycleNext, Types, IInv
<1>2. new \in Nat
  BY <1>1, RecoveredCounters
<1>3. R \subseteq Record
  BY <1>1, LoggedRecordsTyped, Zenon
<1>4. Found \in Seq(TableEntry)
  BY <1>1, FoundLists, Zenon DEF Types
<1>5. /\ ssts' \in {ssts, With(ssts, new, [level |-> 0, recs |-> R])}
      /\ tables' \in {Found, Append(Found, [level |-> 0, gen |-> new])}
      /\ handles' = [g \in DOMAIN ssts' |-> NewHandle]
      /\ redo' = DOMAIN wals /\ phase' = "recovering"
      /\ UNCHANGED <<wals, compactCh, cp, rd>>
  BY Zenon DEF OpenRecover, chVars
<1> HIDE DEF new, R
<1>6. \A g \in DOMAIN ssts' : \/ g \in DOMAIN ssts /\ ssts'[g] = ssts[g]
                              \/ ssts'[g] = [level |-> 0, recs |-> R]
  BY <1>5 DEF With
<1>7. FileTypes'
  BY <1>3, <1>6 DEF Types, FileTypes
<1>8. [level |-> 0, gen |-> new] \in TableEntry
  BY <1>2, Zenon DEF TableEntry
<1>9. tables' \in Seq(TableEntry)
  <2>1. \A e \in TableEntry : Append(Found, e) \in Seq(TableEntry)
    BY <1>4
  <2> QED BY <1>4, <1>5, <1>8, <2>1, Zenon
<1>10. \A g \in DOMAIN handles' : handles'[g] \in Handle
  BY <1>5, Zenon DEF NewHandle, Handle
<1>11. RedoTypes' /\ CompactionTypes' /\ ReaderTypes'
  BY <1>5, Zenon DEF Types, RedoTypes, CompactionTypes, ReaderTypes, Running
<1> QED BY <1>1, <1>7, <1>9, <1>10, <1>11, Zenon DEF Types, TableTypes

\* The rest of Open keeps the types.
LEMMA OpenKeepsTypes == IInv /\ Types /\ (OpenRemoveWAL \/ OpenFinish) => Types'
<1> SUFFICES ASSUME IInv, Types, OpenRemoveWAL \/ OpenFinish PROVE Types'
  OBVIOUS
<1>1. MemTypes'
  BY MemTypesStep, Zenon DEF Next, LifecycleNext, Types
<1>2. UNCHANGED <<tblVars, ssts, compactCh, cp, rd>>
  BY Zenon DEF OpenRemoveWAL, OpenFinish, chVars
<1>3. TableTypes' /\ FileTypes' /\ CompactionTypes' /\ ReaderTypes'
  BY <1>2, Zenon DEF Types, TableTypes, FileTypes, CompactionTypes, ReaderTypes, tblVars
<1>4. CASE OpenRemoveWAL
  <2>1. /\ wals' = Without(wals, Min(redo)) /\ redo' = redo \ {Min(redo)}
        /\ phase' = phase /\ phase = "recovering"
    BY <1>4, Zenon DEF OpenRemoveWAL
  <2>2. DOMAIN wals' = DOMAIN wals \ {Min(redo)}
    BY <2>1 DEF Without
  <2>3. RedoTypes'
    BY <2>1, <2>2, Zenon DEF Types, RedoTypes, Running
  <2> QED BY <1>1, <1>3, <2>3, Zenon DEF Types
<1>5. CASE OpenFinish
  <2>1. redo' = {}
    BY <1>5, Zenon DEF OpenFinish
  <2>2. RedoTypes'
    BY <2>1 DEF RedoTypes
  <2> QED BY <1>1, <1>3, <2>2 DEF Types
<1> QED BY <1>4, <1>5, Zenon

\* Close keeps the types.
LEMMA CloseKeepsTypes ==
  IInv /\ Types /\ (CloseBegin \/ CloseFlush \/ CloseFlushError \/ CloseWALError \/ CloseFinish)
    => Types'
<1> SUFFICES ASSUME IInv, Types,
                    CloseBegin \/ CloseFlush \/ CloseFlushError \/ CloseWALError \/ CloseFinish
             PROVE  Types'
  OBVIOUS
<1>1. MemTypes'
  BY MemTypesStep, Zenon DEF Next, LifecycleNext, Types
<1>2. UNCHANGED <<redo, compactCh, cp, rd>> /\ Running
  BY Zenon DEF CloseBegin, CloseFlush, CloseFlushError, CloseWALError, CloseFinish, chVars, Running
<1>3. RedoTypes' /\ CompactionTypes' /\ ReaderTypes'
  BY <1>2, Zenon DEF Types, RedoTypes, CompactionTypes, ReaderTypes
<1> DEFINE new == genCounter + 1
           R == RecordsOf(mts[mem])
<1>4. R \subseteq Record /\ new \in Nat
  BY <1>2, RecordsTyped DEF IInv, Queued, Typed
<1>5. ssts' \in {ssts, With(ssts, new, [level |-> 0, recs |-> R])}
  BY Zenon DEF CloseBegin, CloseFlush, CloseFlushError, CloseWALError, CloseFinish, diskVars
<1>6. /\ tables \in Seq(TableEntry) /\ \A g \in DOMAIN handles : handles[g] \in Handle
  BY DEF Types, TableTypes
<1>7. ASSUME CloseFlush PROVE TableTypes'
  <2>1. /\ tables' \in {tables, Append(tables, [level |-> 0, gen |-> new])}
        /\ handles' \in {handles, With(handles, new, NewHandle)}
    BY <1>7, Zenon DEF CloseFlush, tblVars
  <2> HIDE DEF new
  <2>2. [level |-> 0, gen |-> new] \in TableEntry
    BY <1>4, Zenon DEF TableEntry
  <2>3. tables' \in Seq(TableEntry)
    BY <1>6, <2>1, <2>2
  <2>4. NewHandle \in Handle
    BY Zenon DEF NewHandle, Handle
  <2>5. \A g \in DOMAIN handles' : handles'[g] \in Handle
    BY <1>6, <2>1, <2>4 DEF With
  <2> QED BY <2>3, <2>5 DEF TableTypes
<1>8. ASSUME CloseFinish PROVE TableTypes'
  <2> DEFINE c(g) == Cardinality({i \in DOMAIN tables : tables[i].gen = g})
             kept == {g \in DOMAIN handles : handles[g].refCount > c(g)}
  <2>1. \A g : c(g) \in Nat
    <3> SUFFICES ASSUME NEW g PROVE c(g) \in Nat
      BY Zenon
    <3>1. IsFiniteSet(DOMAIN tables)
      <4>1. DOMAIN tables = 1..Len(tables) /\ Len(tables) \in Nat
        BY <1>6
      <4>2. \A n \in Nat : IsFiniteSet(1..n)
        BY FS_Interval
      <4> QED BY <4>1, <4>2
    <3>2. IsFiniteSet({i \in DOMAIN tables : tables[i].gen = g})
      BY <3>1, FS_Subset, Zenon
    <3> QED BY <3>2, FS_CardinalityType, Zenon
  <2>2. /\ handles' = [g \in kept |-> [handles[g] EXCEPT !.refCount = @ - c(g)]]
        /\ UNCHANGED tables
    BY <1>8 DEF CloseFinish
  <2> HIDE DEF c
  <2>3. \A h \in Handle, n \in Nat : h.refCount > n => [h EXCEPT !.refCount = @ - n] \in Handle
    BY DEF Handle
  <2>4. \A g \in DOMAIN handles' : handles'[g] \in Handle
    BY <1>6, <2>1, <2>2, <2>3
  <2> QED BY <1>6, <2>2, <2>4, Zenon DEF TableTypes
<1>9. ASSUME UNCHANGED tblVars PROVE TableTypes'
  BY <1>6, <1>9 DEF TableTypes, tblVars
<1>10. CloseFlush \/ CloseFinish \/ UNCHANGED tblVars
  BY Zenon DEF CloseBegin, CloseFlushError, CloseWALError
<1> HIDE DEF new, R
<1>11. \A g \in DOMAIN ssts' : \/ g \in DOMAIN ssts /\ ssts'[g] = ssts[g]
                               \/ ssts'[g] = [level |-> 0, recs |-> R]
  BY <1>5 DEF With
<1>12. FileTypes'
  BY <1>4, <1>11 DEF Types, FileTypes
<1> QED BY <1>1, <1>3, <1>7, <1>8, <1>9, <1>10, <1>12, Zenon DEF Types

\* An empty data directory has the types.
LEMMA TypesInit == Init => Types
<1> SUFFICES ASSUME Init PROVE Types
  OBVIOUS
<1>1. MemTypes /\ TableTypes /\ FileTypes /\ RedoTypes
  BY DEF Init, MemTypes, TableTypes, FileTypes, RedoTypes
<1>2. CompactionTypes /\ ReaderTypes
  BY IdleTyped, Zenon DEF Init, CompactionTypes, ReaderTypes
<1> QED BY <1>1, <1>2 DEF Types

\* Every step keeps the types.
LEMMA TypesStep ==
  ASSUME IInv, JobsInv, SnapshotCounts, Types, FileInv, [Next]_vars
  PROVE  Types'
<1>1. CASE UNCHANGED vars
  <2>1. UNCHANGED <<mts, lifeVars, tblVars, ssts, compactCh, cp, rd, wals>>
    BY <1>1, Zenon DEF vars, memVars, chVars, diskVars
  <2>2. MemTypes'
    BY <2>1, Zenon DEF Types, MemTypes
  <2> QED BY <2>1, <2>2, TypesFrame, Zenon
<1>2. CASE LifecycleNext
  BY <1>2, ExitKeepsTypes, RecoverKeepsTypes, OpenKeepsTypes, CloseKeepsTypes, Zenon DEF LifecycleNext
<1> QED BY <1>1, <1>2, ClientTypes, FlushTypes, CompactionKeepsTypes, ReaderKeepsTypes, Zenon DEF Next

-----------------------------------------------------------------------------
(* The order of the sources.                                               *)

\* The order stays while the list, its files and the pass do.
LEMMA OrderFrame ==
  ASSUME OrderInv, tables' = tables, \A i \in DOMAIN tables : RecsAt(i)' = RecsAt(i), MemoryNewer',
         Passing' => /\ Passing /\ cp'.inputs = cp.inputs /\ cp'.target = cp.target
                     /\ cp'.bottom = cp.bottom
  PROVE  OrderInv'
<1>1. LevelsOrdered'
  BY Zenon DEF OrderInv, LevelsOrdered
<1>2. InputsTaken'
  <2> SUFFICES ASSUME Passing' PROVE InputsTaken'
    BY Zenon DEF InputsTaken, Passing
  <2>1. /\ InputsTaken /\ cp.pc \in {"pin", "merge", "commit"}
        /\ cp'.inputs = cp.inputs /\ cp'.target = cp.target /\ cp'.bottom = cp.bottom
    BY Zenon DEF OrderInv, Passing
  <2>2. \A i \in DOMAIN tables : InputAt(i)' <=> InputAt(i)
    BY <2>1, Zenon DEF InputAt, Input
  <2>3. \A i, j \in DOMAIN tables : Before(RecsAt(j), RecsAt(i))' <=> Before(RecsAt(j), RecsAt(i))
    BY Zenon DEF Before
  <2>4. \A i \in DOMAIN tables' :
         IF InputAt(i)' THEN tables'[i].level \in {cp'.target - 1, cp'.target}
         ELSE /\ tables'[i].level # cp'.target
              /\ tables'[i].level = cp'.target - 1 =>
                   \A j \in DOMAIN tables' : InputAt(j)' => Before(RecsAt(j), RecsAt(i))'
    BY <2>1, <2>2, <2>3, Zenon DEF InputsTaken
  <2> QED BY <2>1, <2>4, Zenon DEF InputsTaken, Deepest
<1> QED BY <1>1, <1>2, Zenon DEF OrderInv, Deepest

\* A step that leaves the memory as it is keeps the order of memory and tables.
LEMMA MemoryFrame ==
  ASSUME MemoryNewer, tables' = tables, \A i \in DOMAIN tables : RecsAt(i)' = RecsAt(i),
         InMemory' \subseteq InMemory, phase' \in {"up", "closing"} => phase \in {"up", "closing"}
  PROVE  MemoryNewer'
  BY Zenon DEF MemoryNewer, Before

\* A record that is applied is younger than what is in the files.
LEMMA ApplyOrder ==
  ASSUME Known, Known', StoreInv, OrderInv, NEW w \in Writers, WriteApply(w),
         tables' = tables, \A i \in DOMAIN tables : RecsAt(i)' = RecsAt(i)
  PROVE  MemoryNewer'
<1>1. WriterNext
  BY Zenon DEF WriterNext
<1>2. Running
  BY <1>1, ActorsRun DEF Known
<1>3. /\ wr[w].pc = "apply" /\ mts' = [mts EXCEPT ![mem] = Apply(@, wr[w].rec)]
      /\ UNCHANGED <<phase, mem, imm>>
  BY Zenon DEF WriteApply, lifeVars
<1>4. /\ \A g \in imm \cup {mem} : mts[g] \in MemTables
      /\ imm \cup {mem} \subseteq DOMAIN mts /\ mem \in imm \cup {mem}
  BY <1>2, SourcesThere, Zenon DEF Known, IInv, Queued
<1>5. wr[w].rec \in Record /\ Pending(w)
  BY <1>3, PendingWrite, Zenon DEF Known, Pending
<1>6. \A g \in imm \cup {mem} : RecordsOf(mts'[g]) \subseteq RecordsOf(mts[g]) \cup {wr[w].rec}
  <2>1. RecordsOf(Apply(mts[mem], wr[w].rec)) \subseteq RecordsOf(mts[mem]) \cup {wr[w].rec}
    BY <1>4, <1>5, ApplyRecords, Zenon
  <2>2. \A g \in imm \cup {mem} : mts'[g] = IF g = mem THEN Apply(mts[mem], wr[w].rec) ELSE mts[g]
    BY <1>3, <1>4, Zenon
  <2>3. \A g \in imm \cup {mem} : g # mem => mts'[g] = mts[g]
    BY <2>2, Zenon
  <2>4. mts'[mem] = Apply(mts[mem], wr[w].rec)
    BY <1>4, <2>2, Zenon
  <2> QED BY <2>1, <2>3, <2>4, Zenon
<1>7. InMemory' \subseteq InMemory \cup {wr[w].rec}
  <2> SUFFICES ASSUME NEW r \in InMemory', r # wr[w].rec PROVE r \in InMemory
    OBVIOUS
  <2>1. PICK g \in imm \cup {mem} : r \in RecordsOf(mts'[g])
    BY <1>3, Zenon DEF InMemory
  <2>2. r \in RecordsOf(mts[g])
    BY <1>6, <2>1, Zenon
  <2> QED BY <2>1, <2>2, Zenon DEF InMemory
<1>8. \A i \in DOMAIN tables : \A r \in RecsAt(i) : r.seq < wr[w].rec.seq
  <2>1. \A i \in DOMAIN tables : RecsAt(i) \subseteq OnFile
    BY <1>2, SourcesThere, Zenon DEF RecsAt, OnFile
  <2> QED BY <1>2, <1>5, <2>1, Zenon DEF StoreInv, Ahead
<1>9. phase \in {"up", "closing"} => \A i \in DOMAIN tables : Before(RecsAt(i), InMemory)
  BY Zenon DEF OrderInv, MemoryNewer
<1> QED BY <1>3, <1>7, <1>8, <1>9, Zenon DEF MemoryNewer, Before

\* Swapping in an empty MemTable adds no record.
LEMMA RotateOrder ==
  ASSUME Known, OrderInv, NEW w \in Writers, RotateSwap(w),
         tables' = tables, \A i \in DOMAIN tables : RecsAt(i)' = RecsAt(i)
  PROVE  MemoryNewer'
<1> DEFINE new == genCounter + 1
<1>1. /\ mem' = new /\ imm' = imm \cup {mem} /\ mts' = With(mts, new, EmptyMem) /\ UNCHANGED phase
  BY Zenon DEF RotateSwap, lifeVars
<1>2. WriterNext
  BY Zenon DEF WriterNext
<1>3. imm \cup {mem} \subseteq DOMAIN mts
  BY <1>2, ActorsRun, Zenon DEF Known, IInv, Queued
<1> HIDE DEF new
<1>4. mts'[new] = EmptyMem /\ \A g \in imm \cup {mem} : g # new => mts'[g] = mts[g]
  BY <1>1, <1>3, Zenon DEF With
<1>5. InMemory' \subseteq InMemory
  <2>1. RecordsOf(mts'[new]) = {}
    BY <1>4, EmptyMemRecords, Zenon
  <2> SUFFICES ASSUME NEW r \in InMemory' PROVE r \in InMemory
    OBVIOUS
  <2>2. PICK g \in imm \cup {mem, new} : r \in RecordsOf(mts'[g])
    BY <1>1, Zenon DEF InMemory
  <2>3. g # new
    BY <2>1, <2>2, Zenon
  <2>4. g \in imm \cup {mem} /\ mts'[g] = mts[g]
    BY <1>4, <2>2, <2>3, Zenon
  <2> QED BY <2>2, <2>4, Zenon DEF InMemory
<1>6. MemoryNewer
  BY Zenon DEF OrderInv
<1> QED BY <1>1, <1>5, <1>6, MemoryFrame, Zenon

\* A table of records that were in memory goes to level 0.
LEMMA TableAdded ==
  ASSUME OrderInv, tables \in Seq(TableEntry), phase \in {"up", "closing"}, cp.target \in Nat,
         NEW g \in Nat, tables' = Append(tables, [level |-> 0, gen |-> g]),
         \A i \in DOMAIN tables : ssts'[tables[i].gen] = ssts[tables[i].gen],
         ssts'[g].recs \subseteq InMemory, ~Input(g), MemoryNewer', Passing' => cp' = cp
  PROVE  OrderInv'
<1>1. PICK n :
        /\ DOMAIN tables' = DOMAIN tables \cup {n} /\ n \notin DOMAIN tables
        /\ \A i \in DOMAIN tables : tables'[i] = tables[i]
        /\ tables'[n].level = 0 /\ tables'[n].gen = g
        /\ \A i \in DOMAIN tables : tables[i].level \in Nat
  <2>1. PICK e \in TableEntry : e = [level |-> 0, gen |-> g] /\ e.level = 0 /\ e.gen = g
    BY FlushedEntry, Zenon
  <2>2. tables' = Append(tables, e)
    BY <2>1, Zenon
  <2>3. PICK n :
          /\ DOMAIN tables' = DOMAIN tables \cup {n} /\ n \notin DOMAIN tables
          /\ \A i \in DOMAIN tables : tables[i] \in TableEntry /\ tables'[i] = tables[i]
          /\ tables'[n] = e
    BY <2>2, TablesAppend, Zenon
  <2>4. \A i \in DOMAIN tables : tables[i].level \in Nat
    BY <2>3, Zenon DEF TableEntry
  <2> QED BY <2>1, <2>3, <2>4, Zenon
<1>2. /\ \A i \in DOMAIN tables : RecsAt(i)' = RecsAt(i)
      /\ \A i \in DOMAIN tables : Before(RecsAt(i), RecsAt(n)')
  <2>1. \A i \in DOMAIN tables : RecsAt(i)' = RecsAt(i)
    BY <1>1, Zenon DEF RecsAt
  <2>2. RecsAt(n)' \subseteq InMemory
    BY <1>1, Zenon DEF RecsAt
  <2> QED BY <2>1, <2>2, Zenon DEF OrderInv, MemoryNewer, Before
<1>3. LevelsOrdered'
  <2> SUFFICES ASSUME NEW i \in DOMAIN tables', NEW j \in DOMAIN tables',
                      tables'[i].level > tables'[j].level
               PROVE  Before(RecsAt(i)', RecsAt(j)')
    BY Zenon DEF LevelsOrdered
  <2>1. i # n
    <3>0. 0 \in Nat
      OBVIOUS
    <3>1. tables'[j].level \in Nat
      BY <1>1, <3>0, Zenon
    <3>2. ~(0 > tables'[j].level)
      BY <3>1
    <3> QED BY <1>1, <3>2, Zenon
  <2>2. i \in DOMAIN tables
    BY <1>1, <2>1, Zenon
  <2>3. CASE j = n
    BY <1>2, <2>2, <2>3, Zenon
  <2>4. CASE j \in DOMAIN tables
    <3>1. Before(RecsAt(i), RecsAt(j))
      BY <1>1, <2>2, <2>4, Zenon DEF OrderInv, LevelsOrdered
    <3> QED BY <1>2, <2>2, <2>4, <3>1, Zenon
  <2> QED BY <1>1, <2>3, <2>4, Zenon
<1>4. InputsTaken'
  <2> SUFFICES ASSUME Passing' PROVE InputsTaken'
    BY Zenon DEF InputsTaken, Passing
  <2>1. InputsTaken /\ cp' = cp /\ cp.pc \in {"pin", "merge", "commit"}
    BY Zenon DEF OrderInv, Passing
  <2>2. (\A i \in DOMAIN tables : InputAt(i)' <=> InputAt(i)) /\ ~InputAt(n)'
    BY <1>1, <2>1, Zenon DEF InputAt, Input
  <2>3. cp.target >= 1 /\ Deepest(cp.target)
    BY <2>1, Zenon DEF InputsTaken
  <2>4. \A j \in DOMAIN tables' : InputAt(j)' => j \in DOMAIN tables /\ InputAt(j)
    BY <1>1, <2>2, Zenon
  <2>5. ASSUME NEW i \in DOMAIN tables
        PROVE  IF InputAt(i) THEN tables[i].level \in {cp.target - 1, cp.target}
               ELSE /\ tables[i].level # cp.target
                    /\ tables[i].level = cp.target - 1 =>
                         \A j \in DOMAIN tables' : InputAt(j)' => Before(RecsAt(j)', RecsAt(i))
    <3>1. \A j \in DOMAIN tables' : InputAt(j)' => j \in DOMAIN tables /\ InputAt(j) /\ RecsAt(j)' = RecsAt(j)
      BY <1>2, <2>4, Zenon
    <3> QED BY <2>1, <2>5, <3>1, Zenon DEF InputsTaken
  <2>6. \A j \in DOMAIN tables' : InputAt(j)' => Before(RecsAt(j)', RecsAt(n)')
    BY <1>2, <2>4, Zenon
  <2>7. 0 # cp.target /\ 0 <= cp.target
    BY <2>3
  <2>8. \A i \in DOMAIN tables' :
         IF InputAt(i)' THEN tables'[i].level \in {cp.target - 1, cp.target}
         ELSE /\ tables'[i].level # cp.target
              /\ tables'[i].level = cp.target - 1 =>
                   \A j \in DOMAIN tables' : InputAt(j)' => Before(RecsAt(j)', RecsAt(i)')
    <3> SUFFICES ASSUME NEW i \in DOMAIN tables'
                 PROVE  IF InputAt(i)' THEN tables'[i].level \in {cp.target - 1, cp.target}
                        ELSE /\ tables'[i].level # cp.target
                             /\ tables'[i].level = cp.target - 1 =>
                                  \A j \in DOMAIN tables' : InputAt(j)' => Before(RecsAt(j)', RecsAt(i)')
      BY Zenon
    <3>1. CASE i = n
      <4>1. ~InputAt(i)' /\ tables'[i].level # cp.target
        BY <1>1, <2>2, <2>7, <3>1, Zenon
      <4> QED BY <2>6, <3>1, <4>1, Zenon
    <3>2. CASE i \in DOMAIN tables
      <4>1. tables'[i] = tables[i] /\ RecsAt(i)' = RecsAt(i) /\ (InputAt(i)' <=> InputAt(i))
        BY <1>1, <1>2, <2>2, <3>2, Zenon
      <4> QED BY <2>5, <3>2, <4>1, Zenon
    <3> QED BY <1>1, <3>1, <3>2, Zenon
  <2>9. cp.bottom => \A i \in DOMAIN tables' : tables'[i].level <= cp.target
    <3> SUFFICES ASSUME cp.bottom, NEW i \in DOMAIN tables' PROVE tables'[i].level <= cp.target
      BY Zenon
    <3>1. \A j \in DOMAIN tables : tables[j].level <= cp.target
      BY <2>1, Zenon DEF InputsTaken
    <3>2. CASE i = n
      BY <1>1, <2>7, <3>2, Zenon
    <3>3. CASE i \in DOMAIN tables
      BY <1>1, <3>1, <3>3, Zenon
    <3> QED BY <1>1, <3>2, <3>3, Zenon
  <2> QED BY <2>1, <2>3, <2>8, <2>9, Zenon DEF InputsTaken
<1>5. \A i \in DOMAIN tables' : Deepest(tables'[i].level)
  <2>1. Deepest(0)
    BY DEF Deepest
  <2> QED BY <1>1, <2>1, Zenon DEF OrderInv
<1> QED BY <1>3, <1>4, <1>5, Zenon DEF OrderInv

\* The oldest MemTable goes: the table it becomes is younger than the others and
\* older than what stays in memory.
LEMMA FlushCommitOrder ==
  ASSUME Known, Known', StoreInv, OrderInv, OldestFirst, FlushCommit
  PROVE  OrderInv'
<1>1. /\ tables' = Append(tables, [level |-> 0, gen |-> fl.gen])
      /\ imm' = imm \ {fl.job} /\ mts' = Restrict(mts, DOMAIN mts \cap Reachable(RemainingImm))
      /\ fl.pc = "commit" /\ UNCHANGED <<mem, ssts, cp>>
  BY DEF FlushCommit, RemainingImm, diskVars
<1>2. phase \in {"up", "closing"} /\ UNCHANGED phase
  BY WorkersRun, FlushTouches DEF Known, FileInv, lifeVars, FlushNext
<1>3. Running
  BY <1>2 DEF Running
<1>4. \A g \in imm' \cup {mem'} : g \in imm \cup {mem} /\ mts'[g] = mts[g]
  <2>1. imm \cup {mem} \subseteq DOMAIN mts
    BY <1>3, Zenon DEF Known, IInv, Queued
  <2>2. \A g \in imm' \cup {mem'} : g \in imm \cup {mem} /\ g \in Reachable(RemainingImm)
    BY <1>1, Zenon DEF Reachable, RemainingImm
  <2> QED BY <1>1, <2>1, <2>2, Zenon DEF Restrict
<1>5. fl.job \in imm /\ ssts[fl.gen].recs = RecordsOf(mts[fl.job])
  BY <1>1, Zenon DEF Known, JobsInv, Owners, StoreInv, Flushed
<1>6. RecordsOf(mts[fl.job]) \subseteq InMemory /\ InMemory' \subseteq InMemory
  BY <1>4, <1>5 DEF InMemory
<1>7. \A g \in imm' \cup {mem'} : fl.job < g
  <2>1. mem \in Nat /\ fl.job \in Nat /\ imm \subseteq Nat /\ fl.job < mem
    BY <1>3, <1>5, Zenon DEF Known, IInv, Typed, Queued
  <2>2. \A g \in imm : fl.job <= g
    BY <1>1, Zenon DEF OldestFirst
  <2> QED BY <1>1, <2>1, <2>2
<1>8. Before(RecordsOf(mts[fl.job]), InMemory')
  <2> SUFFICES ASSUME NEW r \in RecordsOf(mts[fl.job]), NEW q \in InMemory' PROVE r.seq < q.seq
    BY Zenon DEF Before
  <2>1. PICK g \in imm' \cup {mem'} : q \in RecordsOf(mts'[g])
    BY Zenon DEF InMemory
  <2>2. g \in imm \cup {mem} /\ q \in RecordsOf(mts[g]) /\ fl.job < g
    BY <1>4, <1>7, <2>1, Zenon
  <2>3. GenerationsOrdered
    BY Zenon DEF Known, IInv, Ordering
  <2> QED BY <1>5, <2>2, <2>3, Zenon DEF GenerationsOrdered
<1>9. tables \in Seq(TableEntry) /\ fl.gen \in Nat /\ cp.target \in Nat
  BY <1>3, SourcesThere, Zenon DEF Known, Types, CompactionTypes, IInv, Typed
<1>10. \A i \in DOMAIN tables' : RecsAt(i)' = RecordsOf(mts[fl.job]) \/ (i \in DOMAIN tables /\ RecsAt(i)' = RecsAt(i))
  <2>1. \A i \in DOMAIN tables' : tables'[i].gen = fl.gen \/ (i \in DOMAIN tables /\ tables'[i] = tables[i])
    BY <1>1, <1>9
  <2> QED BY <1>1, <1>5, <2>1, Zenon DEF RecsAt
<1>11. MemoryNewer'
  <2>1. \A i \in DOMAIN tables : Before(RecsAt(i), InMemory)
    BY <1>2, Zenon DEF OrderInv, MemoryNewer
  <2>2. \A i \in DOMAIN tables : Before(RecsAt(i), InMemory')
    BY <1>6, <2>1, Zenon DEF Before
  <2>3. \A i \in DOMAIN tables' : Before(RecsAt(i)', InMemory')
    BY <1>8, <1>10, <2>2, Zenon
  <2> QED BY <2>3, Zenon DEF MemoryNewer
<1>12. ~Input(fl.gen)
  BY <1>1, Zenon DEF Known, FileInv, Fresh
<1>13. ssts'[fl.gen].recs \subseteq InMemory
  BY <1>1, <1>5, <1>6, Zenon
<1> QED BY <1>1, <1>2, <1>9, <1>11, <1>12, <1>13, TableAdded, Zenon

\* Close writes the last MemTable when the workers are gone.
LEMMA CloseFlushOrder ==
  ASSUME Known, Known', StoreInv, OrderInv, CloseFlush
  PROVE  OrderInv'
<1> DEFINE new == genCounter + 1
           file == [level |-> 0, recs |-> RecordsOf(mts[mem])]
<1>1. /\ phase = "closing" /\ phase' = "locked" /\ UNCHANGED cp /\ WorkersExited
      /\ \/ tables' = tables /\ ssts' = ssts
         \/ tables' = Append(tables, [level |-> 0, gen |-> new]) /\ ssts' = With(ssts, new, file)
  BY Zenon DEF CloseFlush, tblVars
<1>2. MemoryNewer' /\ ~Passing'
  BY <1>1, Zenon DEF MemoryNewer, Passing, WorkersExited
<1>3. CASE tables' = tables /\ ssts' = ssts
  <2>1. \A i \in DOMAIN tables : RecsAt(i)' = RecsAt(i)
    BY <1>3, Zenon DEF RecsAt
  <2> QED BY <1>2, <1>3, <2>1, OrderFrame, Zenon
<1>4. CASE tables' = Append(tables, [level |-> 0, gen |-> new]) /\ ssts' = With(ssts, new, file)
  <2>1. new \in Nat /\ \A g \in DOMAIN ssts : g # new
    BY <1>1, NextName, Zenon
  <2>2. ~Input(new)
    BY <1>1, NextName, Zenon
  <2>3. Running
    BY <1>1, Zenon DEF Running
  <2>4. /\ tables \in Seq(TableEntry) /\ cp.target \in Nat
        /\ \A i \in DOMAIN tables : tables[i].gen \in DOMAIN ssts
    BY <2>3, SourcesThere, Zenon DEF Known, Types, CompactionTypes
  <2> HIDE DEF new
  <2>5. ssts'[new] = file /\ \A g \in DOMAIN ssts : ssts'[g] = ssts[g]
    BY <1>4, <2>1, Zenon DEF With
  <2>6. ssts'[new].recs \subseteq InMemory
    <3>1. ssts'[new].recs = RecordsOf(mts[mem])
      BY <2>5
    <3> QED BY <3>1, Zenon DEF InMemory
  <2> QED BY <1>1, <1>2, <1>4, <2>1, <2>2, <2>4, <2>5, <2>6, TableAdded, Zenon
<1> QED BY <1>1, <1>3, <1>4, Zenon

\* A pass is planned from the levels as they are.
LEMMA PickOrder ==
  ASSUME Known, OrderInv, Once, CompactionPick
  PROVE  OrderInv'
<1>1. UNCHANGED <<tables, ssts, phase, mem, imm, mts>>
  BY DEF CompactionPick, tblVars, diskVars, lifeVars, memVars
<1>2. \A i \in DOMAIN tables : RecsAt(i)' = RecsAt(i)
  BY <1>1, Zenon DEF RecsAt
<1>3. MemoryNewer'
  <2>1. MemoryNewer /\ InMemory' = InMemory
    BY <1>1 DEF OrderInv, InMemory
  <2> QED BY <1>1, <1>2, <2>1, MemoryFrame, Zenon
<1>4. CASE PickCompaction = NoPlan
  <2>1. ~Passing'
    BY <1>4 DEF CompactionPick, IdleCompaction, Passing
  <2> QED BY <1>1, <1>2, <1>3, <2>1, OrderFrame, Zenon
<1>5. CASE PickCompaction # NoPlan
  <2>1. tables \in Seq(TableEntry) /\ MaxLevels \in Nat
    BY ConstantsAssumption, Zenon DEF Known, Types, TableTypes
  <2>2. PICK lvl \in Nat : PickCompaction = Plan(lvl) /\ (lvl = 0 \/ lvl \in 1..(MaxLevels - 2))
    BY <1>5, PickPlans, Zenon
  <2>3. /\ cp'.inputs = Plan(lvl).inputs /\ cp'.target = lvl + 1
        /\ cp'.bottom = IsBottommost(lvl + 1)
    <3>1. Plan(lvl).target = lvl + 1
      BY Zenon DEF Plan
    <3>2. cp' = [IdleCompaction EXCEPT !.pc = "pin", !.inputs = Plan(lvl).inputs,
                                       !.target = lvl + 1, !.bottom = IsBottommost(lvl + 1)]
      BY <1>5, <2>2, <3>1 DEF CompactionPick
    <3> QED BY <3>2 DEF IdleCompaction
  <2>4. \A i \in DOMAIN tables : InputAt(i)' <=> tables[i].level \in {lvl, lvl + 1}
    <3>1. \A i \in DOMAIN tables : InputAt(i)' <=>
            \E j \in DOMAIN Plan(lvl).inputs : Plan(lvl).inputs[j] = tables[i].gen
      BY <1>1, <2>3, Zenon DEF InputAt, Input
    <3> QED BY <2>1, <3>1, PlanTakes, Zenon
  <2>5. lvl + 1 >= 1 /\ Deepest(lvl + 1) /\ (lvl + 1) - 1 = lvl
    BY <2>1, <2>2 DEF Deepest
  <2>6. \A i \in DOMAIN tables' :
         IF InputAt(i)' THEN tables'[i].level \in {(lvl + 1) - 1, lvl + 1}
         ELSE /\ tables'[i].level # lvl + 1
              /\ tables'[i].level = (lvl + 1) - 1 =>
                   \A j \in DOMAIN tables' : InputAt(j)' => Before(RecsAt(j), RecsAt(i))'
    BY <1>1, <2>4, <2>5, Zenon
  <2>7. ASSUME IsBottommost(lvl + 1), NEW i \in DOMAIN tables PROVE tables[i].level <= lvl + 1
    <3>1. Deepest(tables[i].level) /\ tables[i].level \in Nat
      <4>1. tables[i] \in TableEntry
        BY <2>1
      <4> QED BY <4>1, Zenon DEF OrderInv, TableEntry
    <3>2. PICK j \in DOMAIN LevelTables(tables[i].level) :
            LevelTables(tables[i].level)[j] = tables[i].gen
      BY <2>1, LevelTablesAll, Zenon
    <3>3. LevelTables(tables[i].level) # <<>>
      BY <3>2
    <3>4. tables[i].level \notin (lvl + 2)..(MaxLevels - 1)
      <4>1. (lvl + 1) + 1 = lvl + 2
        OBVIOUS
      <4> QED BY <2>7, <3>3, <4>1, Zenon DEF IsBottommost
    <3> QED BY <2>1, <3>1, <3>4 DEF Deepest
  <2>8. InputsTaken'
    <3>1. cp'.bottom => \A i \in DOMAIN tables' : tables'[i].level <= lvl + 1
      BY <1>1, <2>3, <2>7, Zenon
    <3> QED BY <2>3, <2>5, <2>6, <3>1, Zenon DEF InputsTaken, Deepest
  <2>9. LevelsOrdered'
    BY <1>1, <1>2, Zenon DEF OrderInv, LevelsOrdered
  <2> QED BY <1>1, <1>3, <2>8, <2>9, Zenon DEF OrderInv, Deepest
<1> QED BY <1>4, <1>5

\* The output is where its inputs were in the order.
LEMMA CommitOrder ==
  ASSUME Known, Known', StoreInv, OrderInv, CompactionCommit
  PROVE  OrderInv'
<1>1. UNCHANGED <<phase, mem, imm, mts>> /\ cp.pc = "commit" /\ cp.target \in Nat
  BY Zenon DEF CompactionCommit, memVars, lifeVars, Known, Types, CompactionTypes
<1>2. ~Passing' /\ InputsTaken'
  <2>1. DOMAIN cp = CompactionFields
    BY Zenon DEF Known, IInv, Typed
  <2>2. cp'.pc = "retire"
    BY <2>1 DEF CompactionCommit, CompactionFields
  <2> QED BY <2>2, Zenon DEF InputsTaken, Passing
<1>3. /\ \A p \in DOMAIN tables :
           /\ InputAt(p) => tables[p].level \in {cp.target - 1, cp.target}
           /\ ~InputAt(p) => /\ tables[p].level # cp.target
                             /\ tables[p].level = cp.target - 1 =>
                                  \A j \in DOMAIN tables : InputAt(j) => Before(RecsAt(j), RecsAt(p))
      /\ Deepest(cp.target) /\ cp.target >= 1
  BY <1>1, Zenon DEF OrderInv, InputsTaken
<1>4. \A i, j \in DOMAIN tables : tables[i].level > tables[j].level => Before(RecsAt(i), RecsAt(j))
  BY Zenon DEF OrderInv, LevelsOrdered
<1>5. \A p \in DOMAIN tables : tables[p].level \in Nat
  <2>1. tables \in Seq(TableEntry)
    BY Zenon DEF Known, Types, TableTypes
  <2>2. \A p \in DOMAIN tables : tables[p] \in TableEntry
    BY <2>1
  <2> QED BY <2>2, Zenon DEF TableEntry
<1>6. MemoryNewer'
  <2> SUFFICES ASSUME phase \in {"up", "closing"}, NEW i \in DOMAIN tables' PROVE Before(RecsAt(i)', InMemory)
    BY <1>1, Zenon DEF MemoryNewer, InMemory
  <2>1. PICK R : R = RecsAt(i)' /\ (Stays(tables'[i], R) \/ Comes(tables'[i], R))
    BY CommitList, Zenon
  <2>2. \A p \in DOMAIN tables : Before(RecsAt(p), InMemory)
    BY Zenon DEF OrderInv, MemoryNewer
  <2>3. Before(R, InMemory)
    BY <2>1, <2>2, Zenon DEF Stays, Comes, Before
  <2> QED BY <2>1, <2>3, Zenon
<1>7. LevelsOrdered'
  <2> SUFFICES ASSUME NEW i \in DOMAIN tables', NEW j \in DOMAIN tables',
                      tables'[i].level > tables'[j].level
               PROVE  Before(RecsAt(i)', RecsAt(j)')
    BY Zenon DEF LevelsOrdered
  <2>1. PICK R : R = RecsAt(i)' /\ (Stays(tables'[i], R) \/ Comes(tables'[i], R))
    BY CommitList, Zenon
  <2>2. PICK Q : Q = RecsAt(j)' /\ (Stays(tables'[j], Q) \/ Comes(tables'[j], Q))
    BY CommitList, Zenon
  <2>3. CASE Stays(tables'[i], R) /\ Stays(tables'[j], Q)
    BY <1>4, <2>1, <2>2, <2>3, Zenon DEF Stays
  <2>4. CASE Comes(tables'[i], R) /\ Stays(tables'[j], Q)
    <3>1. PICK p \in DOMAIN tables : ~InputAt(p) /\ tables'[j] = tables[p] /\ Q = RecsAt(p)
      BY <2>4, Zenon DEF Stays
    <3>2. tables'[i].level = cp.target
      BY <2>4, Zenon DEF Comes
    <3>3. ASSUME NEW h \in DOMAIN tables, InputAt(h) PROVE Before(RecsAt(h), RecsAt(p))
      <4>1. tables[p].level < cp.target /\ tables[h].level \in {cp.target - 1, cp.target}
        BY <1>3, <1>1, <1>5, <3>1, <3>2, <3>3, Zenon
      <4>2. tables[p].level = cp.target - 1 \/ tables[h].level > tables[p].level
        BY <1>1, <1>5, <4>1
      <4> QED BY <1>3, <1>4, <3>1, <3>3, <4>2, Zenon
    <3>4. Before(R, Q)
      BY <2>4, <3>1, <3>3, Zenon DEF Comes, Before
    <3> QED BY <2>1, <2>2, <3>4, Zenon
  <2>5. CASE Stays(tables'[i], R) /\ Comes(tables'[j], Q)
    <3>1. PICK p \in DOMAIN tables : ~InputAt(p) /\ tables'[i] = tables[p] /\ R = RecsAt(p)
      BY <2>5, Zenon DEF Stays
    <3>2. tables'[j].level = cp.target
      BY <2>5, Zenon DEF Comes
    <3>3. ASSUME NEW h \in DOMAIN tables, InputAt(h) PROVE Before(RecsAt(p), RecsAt(h))
      <4>1. tables[h].level \in {cp.target - 1, cp.target}
        BY <1>3, <3>3, Zenon
      <4>2. tables[p].level > tables[h].level
        BY <1>1, <1>5, <3>1, <3>2, <4>1
      <4> QED BY <1>4, <4>2, Zenon
    <3>4. Before(R, Q)
      BY <2>5, <3>1, <3>3, Zenon DEF Comes, Before
    <3> QED BY <2>1, <2>2, <3>4, Zenon
  <2>6. CASE Comes(tables'[i], R) /\ Comes(tables'[j], Q)
    <3>1. tables'[i].level = cp.target /\ tables'[j].level = cp.target
      BY <2>6, Zenon DEF Comes
    <3> QED BY <1>1, <3>1
  <2> QED BY <2>1, <2>2, <2>3, <2>4, <2>5, <2>6, Zenon
<1>8. \A i \in DOMAIN tables' : Deepest(tables'[i].level)
  <2> SUFFICES ASSUME NEW i \in DOMAIN tables' PROVE Deepest(tables'[i].level)
    BY Zenon
  <2>1. PICK R : R = RecsAt(i)' /\ (Stays(tables'[i], R) \/ Comes(tables'[i], R))
    BY CommitList, Zenon
  <2> QED BY <1>3, <2>1, Zenon DEF Stays, Comes, OrderInv
<1> QED BY <1>2, <1>6, <1>7, <1>8, Zenon DEF OrderInv, Deepest

\* Without tables and without a pass there is nothing to order.
NothingListed == tables = <<>> /\ ~Passing

LEMMA OrderEmpty == NothingListed => OrderInv
<1> SUFFICES ASSUME NothingListed PROVE OrderInv
  OBVIOUS
<1>1. DOMAIN tables = {} /\ ~Passing
  BY DEF NothingListed
<1> QED BY <1>1, Zenon DEF OrderInv, MemoryNewer, LevelsOrdered, InputsTaken, Passing

\* While MemTables are flushed in their order, every step but the end of the
\* process and a failed commit keeps the order.
LEMMA OrderStep ==
  ASSUME Known, Known', StoreInv, StoreInv', OrderInv, OldestFirst, Once,
         [Next]_vars, [~CompactionAbort /\ ~Exit]_vars
  PROVE  OrderInv'
<1>1. ASSUME tables' = tables, \A i \in DOMAIN tables : RecsAt(i)' = RecsAt(i), ~CompactionPick, ~Exit,
             MemoryNewer'
      PROVE  OrderInv'
  BY <1>1, PassSame, OrderFrame, Zenon
<1>2. CASE UNCHANGED vars
  <2>1. UNCHANGED <<tables, ssts, phase, mem, imm, mts, cp>>
    BY <1>2, Zenon DEF vars, tblVars, diskVars, lifeVars, memVars
  <2>2. \A i \in DOMAIN tables : RecsAt(i)' = RecsAt(i)
    BY <2>1, Zenon DEF RecsAt
  <2>3. MemoryNewer /\ InMemory' = InMemory /\ (Passing' => Passing)
    BY <2>1, Zenon DEF OrderInv, InMemory, Passing
  <2>4. MemoryNewer'
    BY <2>1, <2>2, <2>3, MemoryFrame, Zenon
  <2> QED BY <2>1, <2>2, <2>3, <2>4, OrderFrame, Zenon
<1>3. CASE Next /\ ~CompactionAbort /\ ~Exit
  <2>1. CASE FlushCommit
    BY <2>1, FlushCommitOrder, Zenon
  <2>2. CASE CompactionCommit
    BY <2>2, CommitOrder
  <2>3. CASE CloseFlush
    BY <2>3, CloseFlushOrder
  <2>4. CASE CompactionPick
    BY <2>4, PickOrder, Zenon
  <2>5. CASE OpenRecover \/ OpenFinish
    <3>1. phase \in {"down", "recovering"} /\ UNCHANGED cp
      BY <2>5, Zenon DEF OpenRecover, OpenFinish
    <3>2. cp = IdleCompaction
      BY <3>1, Zenon DEF Known, FileInv, Stages
    <3>3. ~Passing'
      BY <3>1, <3>2, Zenon DEF Passing, IdleCompaction
    <3>4. tables' = <<>>
      <4>1. CASE OpenRecover
        <5>1. phase' = "recovering"
          BY <4>1, Zenon DEF OpenRecover
        <5>2. ~Running'
          BY <5>1 DEF Running
        <5> QED BY <5>2, Zenon DEF StoreInv, Blank
      <4>2. CASE OpenFinish
        <5>1. ~Running
          BY <3>1 DEF Running
        <5> QED BY <4>2, <5>1, Zenon DEF StoreInv, Blank, OpenFinish, tblVars
      <4> QED BY <2>5, <4>1, <4>2
    <3>5. NothingListed'
      BY <3>3, <3>4, Zenon DEF NothingListed
    <3> QED BY <3>5, OrderEmpty, PTL
  <2>6. CASE ~FlushCommit /\ ~CompactionCommit /\ ~CloseFlush /\ ~CompactionPick /\ ~OpenRecover /\ ~OpenFinish
    <3>1. tables' = tables /\ \A i \in DOMAIN tables : RecsAt(i)' = RecsAt(i)
      BY <1>3, <2>6, ListSame, Zenon
    <3>2. MemoryNewer'
      <4>1. ASSUME NEW w \in Writers, WriteApply(w) PROVE MemoryNewer'
        BY <3>1, <4>1, ApplyOrder, Zenon
      <4>2. ASSUME NEW w \in Writers, RotateSwap(w) PROVE MemoryNewer'
        BY <3>1, <4>2, RotateOrder, Zenon
      <4>3. CASE \A w \in Writers : ~WriteApply(w) /\ ~RotateSwap(w)
        <5>1. InMemory' = InMemory /\ (phase' \in {"up", "closing"} => phase \in {"up", "closing"})
          BY <1>3, <2>6, <4>3, MemSame, Zenon
        <5>2. MemoryNewer
          BY DEF OrderInv
        <5> QED BY <3>1, <5>1, <5>2, MemoryFrame, Zenon
      <4> QED BY <4>1, <4>2, <4>3, Zenon
    <3> QED BY <1>1, <1>3, <2>6, <3>1, <3>2, Zenon
  <2> QED BY <2>1, <2>2, <2>3, <2>4, <2>5, <2>6, Zenon
<1> QED BY <1>2, <1>3
=============================================================================
