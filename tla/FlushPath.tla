------------------------------ MODULE FlushPath ------------------------------
(***************************************************************************)
(* The flush worker: flushWorker and doFlush.                              *)
(***************************************************************************)
EXTENDS Compaction

\* Take the next job.  After stopCh is closed the worker drains the queue.
FlushTake ==
  /\ Running
  /\ fl.pc = "idle"
  /\ flushCh # <<>>
  /\ flushCh' = Tail(flushCh)
  /\ genCounter' = genCounter + 1
  /\ fl' = [pc |-> "write", job |-> Head(flushCh), gen |-> genCounter + 1]
  /\ UNCHANGED <<lifeVars, memVars, tblVars, compactCh, diskVars, snapVars,
                 wr, cp, rd, faults>>


\* Stopped and drained.
FlushStop ==
  /\ phase = "closing"
  /\ fl.pc = "idle"
  /\ flushCh = <<>>
  /\ fl' = [IdleFlush EXCEPT !.pc = "exited"]
  /\ UNCHANGED <<lifeVars, genCounter, memVars, tblVars, chVars, diskVars,
                 snapVars, wr, cp, rd, faults>>

FlushFile == With(ssts, fl.gen, [level |-> 0, recs |-> RecordsOf(mts[fl.job])])

\* sstable.Write renames the finished file into place; sstable.Open reads it back.
FlushWrite ==
  /\ fl.pc = "write"
  /\ ssts' = FlushFile
  /\ fl' = [fl EXCEPT !.pc = "commit"]
  /\ UNCHANGED <<lifeVars, genCounter, memVars, tblVars, chVars, wals, snapVars,
                 wr, cp, rd, faults>>

\* Faulty variant: the WAL is removed although there is no table.
FlushErrorRemovesWAL ==
  /\ fl.pc = "write"
  /\ Fail("flushWrite")
  /\ wals' = Without(wals, fl.job)
  /\ fl' = IdleFlush
  /\ UNCHANGED <<lifeVars, genCounter, memVars, tblVars, chVars, ssts, snapVars,
                 wr, cp, rd>>

\* Write fails, or Open fails and leaves the file behind.  The MemTable stays
\* in e.imm and its WAL on disk; nothing queues the job again.
FlushError ==
  /\ fl.pc = "write"
  /\ \/ Fail("flushWrite") /\ UNCHANGED ssts
     \/ Fail("flushOpen") /\ ssts' = FlushFile
  /\ fl' = IdleFlush
  /\ UNCHANGED <<lifeVars, genCounter, memVars, tblVars, chVars, wals, snapVars,
                 wr, cp, rd>>

\* The MemTable objects that something still points to.
Reachable(im) == {mem} \cup im \cup UNION {{rd[r].mem} \cup rd[r].imm : r \in Readers}

\* Faulty variant: the whole list is cleared.
NoImm == {}

\* e.imm without the flushed MemTable.
RemainingImm == imm \ {fl.job}

\* Under e.mu.Lock: the table replaces the immutable MemTable.
FlushCommit ==
  /\ fl.pc = "commit"
  /\ LockFree
  /\ tables' = Append(tables, [level |-> 0, gen |-> fl.gen])
  /\ handles' = With(handles, fl.gen, NewHandle)
  /\ imm' = RemainingImm
  /\ mts' = Restrict(mts, DOMAIN mts \cap Reachable(RemainingImm))
  /\ fl' = [fl EXCEPT !.pc = "remove"]
  /\ UNCHANGED <<lifeVars, genCounter, seq, mem, chVars, diskVars, snapVars,
                 wr, cp, rd, faults>>

\* Remove the flushed WAL; a failure is only logged.
FlushRemoveWAL ==
  /\ fl.pc = "remove"
  /\ \/ wals' = Without(wals, fl.job) /\ UNCHANGED faults
     \/ Fail("walRemove") /\ UNCHANGED wals
  /\ fl' = [fl EXCEPT !.pc = "trigger"]
  /\ UNCHANGED <<lifeVars, genCounter, memVars, tblVars, chVars, ssts, snapVars,
                 wr, cp, rd>>

FlushTrigger ==
  /\ fl.pc = "trigger"
  /\ MaybeTrigger
  /\ fl' = IdleFlush
  /\ UNCHANGED <<lifeVars, genCounter, memVars, tblVars, flushCh, diskVars,
                 snapVars, wr, cp, rd, faults>>

FlushNext ==
  \/ FlushTake \/ FlushStop \/ FlushWrite \/ FlushError \/ FlushCommit
  \/ FlushRemoveWAL \/ FlushTrigger
=============================================================================
