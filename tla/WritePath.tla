------------------------------ MODULE WritePath ------------------------------
(***************************************************************************)
(* Put and Delete (Engine.write) and rotate.                               *)
(***************************************************************************)
EXTENDS EngineState

(***************************************************************************)
(* Engine.write.  A writer takes e.mu.RLock and a Seq, appends to the WAL, *)
(* applies to the MemTable, reads its size and unlocks.  A call on a closed *)
(* engine returns ErrClosed and changes nothing.                           *)
(***************************************************************************)

\* Check closed and allocate the Seq.
WriteBegin(w, k, v) ==
  /\ phase = "up"
  /\ wr[w].pc = "idle"
  /\ seq < MaxSeq /\ session <= WriteSessions
  /\ seq' = seq + 1
  /\ wr' = [wr EXCEPT ![w] =
       [pc |-> "append", rec |-> [key |-> k, seq |-> seq + 1, val |-> v], job |-> 0]]
  /\ UNCHANGED <<lifeVars, genCounter, mem, imm, mts, tblVars, chVars, diskVars,
                 snapVars, fl, cp, rd, faults>>

Put(w, k, v) == v \in Values /\ WriteBegin(w, k, v)
Delete(w, k) == k \in DeleteKeys /\ WriteBegin(w, k, Tombstone)

\* wal.Append writes, flushes and fsyncs the record under the WAL's own lock.
LogAppend(rec) == [wals EXCEPT ![mem].recs = Append(@, rec)]

WriteAppend(w) ==
  /\ wr[w].pc = "append"
  /\ ~wals[mem].broken
  /\ wals' = LogAppend(wr[w].rec)
  /\ wr' = [wr EXCEPT ![w].pc = "apply"]
  /\ UNCHANGED <<lifeVars, genCounter, memVars, tblVars, chVars, ssts, snapVars,
                 fl, cp, rd, faults>>

\* wal.Append fails.  A failed write leaves at most a torn tail, which Replay
\* ignores, and the buffered writer returns its error to every later call; a
\* failed fsync leaves the whole record in the file.
WriteAppendError(w) ==
  /\ wr[w].pc = "append"
  /\ \/ wals[mem].broken /\ UNCHANGED <<wals, faults>>
     \/ ~wals[mem].broken /\ Fail("append") /\ wals' = [wals EXCEPT ![mem].broken = TRUE]
     \/ ~wals[mem].broken /\ Fail("fsync") /\ wals' = LogAppend(wr[w].rec)
  /\ wr' = [wr EXCEPT ![w] = IdleWriter]
  /\ UNCHANGED <<lifeVars, genCounter, memVars, tblVars, chVars, ssts, snapVars,
                 fl, cp, rd>>

\* MemTable.Put / Delete: an unconditional overwrite, and size always grows.
Apply(mt, rec) == [data |-> [mt.data EXCEPT ![rec.key] = rec], size |-> mt.size + 1]

WriteApply(w) ==
  /\ wr[w].pc = "apply"
  /\ mts' = [mts EXCEPT ![mem] = Apply(@, wr[w].rec)]
  /\ wr' = [wr EXCEPT ![w] = [pc |-> "check", rec |-> NoRecord, job |-> 0]]
  /\ UNCHANGED <<lifeVars, genCounter, seq, mem, imm, tblVars, chVars, diskVars,
                 snapVars, fl, cp, rd, faults>>

\* full := mt.Size() >= threshold; RUnlock.  Not full: the call returns nil.
WriteCheck(w) ==
  /\ wr[w].pc = "check"
  /\ wr' = [wr EXCEPT ![w] =
       IF mts[mem].size >= FlushThreshold
       THEN [pc |-> "rotate", rec |-> NoRecord, job |-> 0]
       ELSE IdleWriter]
  /\ UNCHANGED <<lifeVars, genCounter, memVars, tblVars, chVars, diskVars,
                 snapVars, fl, cp, rd, faults>>

-----------------------------------------------------------------------------
(* rotate.  It does not look at e.closed.                                   *)

\* Another writer already rotated.
RotateSkip(w) ==
  /\ wr[w].pc = "rotate"
  /\ LockFree
  /\ mts[mem].size < FlushThreshold
  /\ wr' = [wr EXCEPT ![w] = IdleWriter]
  /\ UNCHANGED <<lifeVars, genCounter, memVars, tblVars, chVars, diskVars,
                 snapVars, fl, cp, rd, faults>>

\* Faulty variant: only the WAL is replaced.
RotateSwapKeepsMemTable(w) ==
  /\ wr[w].pc = "rotate"
  /\ LockFree
  /\ mts[mem].size >= FlushThreshold
  /\ genCounter' = genCounter + 1
  /\ wals' = With(wals, genCounter + 1, EmptyWAL)
  /\ mem' = genCounter + 1
  /\ imm' = imm \cup {mem}
  /\ wr' = [wr EXCEPT ![w] = [pc |-> "send", rec |-> NoRecord, job |-> mem]]
  /\ UNCHANGED <<lifeVars, seq, mts, tblVars, chVars, ssts, snapVars, fl, cp, rd, faults>>

\* Faulty variant: rotate does not wait for the writers that hold the lock.
RotateSwapUnlocked(w) ==
  /\ wr[w].pc = "rotate"
  /\ mts[mem].size >= FlushThreshold
  /\ genCounter' = genCounter + 1
  /\ wals' = With(wals, genCounter + 1, EmptyWAL)
  /\ mts' = With(mts, genCounter + 1, EmptyMem)
  /\ mem' = genCounter + 1
  /\ imm' = imm \cup {mem}
  /\ wr' = [wr EXCEPT ![w] = [pc |-> "send", rec |-> NoRecord, job |-> mem]]
  /\ UNCHANGED <<lifeVars, seq, tblVars, chVars, ssts, snapVars, fl, cp, rd, faults>>

\* Swap in a fresh MemTable and WAL; the old MemTable becomes immutable.
RotateSwap(w) ==
  LET newGen == genCounter + 1
  IN  /\ wr[w].pc = "rotate"
      /\ LockFree
      /\ mts[mem].size >= FlushThreshold
      /\ genCounter' = newGen
      /\ wals' = With(wals, newGen, EmptyWAL)
      /\ mts' = With(mts, newGen, EmptyMem)
      /\ mem' = newGen
      /\ imm' = imm \cup {mem}
      /\ wr' = [wr EXCEPT ![w] = [pc |-> "send", rec |-> NoRecord, job |-> mem]]
      /\ UNCHANGED <<lifeVars, seq, tblVars, chVars, ssts, snapVars, fl, cp, rd, faults>>

\* The new WAL cannot be opened: Put returns an error for an applied write.
RotateError(w) ==
  /\ wr[w].pc = "rotate"
  /\ LockFree
  /\ mts[mem].size >= FlushThreshold
  /\ Fail("walOpen")
  /\ genCounter' = genCounter + 1
  /\ wr' = [wr EXCEPT ![w] = IdleWriter]
  /\ UNCHANGED <<lifeVars, memVars, tblVars, chVars, diskVars, snapVars, fl, cp, rd>>

\* Faulty variant: a send that does not block, so a full queue drops the job.
RotateSendDrops(w) ==
  /\ wr[w].pc = "send"
  /\ flushCh' = IF Len(flushCh) < FlushQueueDepth THEN Append(flushCh, wr[w].job) ELSE flushCh
  /\ wr' = [wr EXCEPT ![w] = IdleWriter]
  /\ UNCHANGED <<lifeVars, genCounter, memVars, tblVars, compactCh, diskVars,
                 snapVars, fl, cp, rd, faults>>

\* Hand the old MemTable to the flush worker, after e.mu is released.
RotateSend(w) ==
  /\ wr[w].pc = "send"
  /\ Len(flushCh) < FlushQueueDepth
  /\ flushCh' = Append(flushCh, wr[w].job)
  /\ wr' = [wr EXCEPT ![w] = IdleWriter]
  /\ UNCHANGED <<lifeVars, genCounter, memVars, tblVars, compactCh, diskVars,
                 snapVars, fl, cp, rd, faults>>

WriterNext ==
  \E w \in Writers :
    \/ \E k \in Keys : Delete(w, k) \/ \E v \in Values : Put(w, k, v)
    \/ WriteAppend(w) \/ WriteAppendError(w) \/ WriteApply(w) \/ WriteCheck(w)
    \/ RotateSkip(w) \/ RotateSwap(w) \/ RotateError(w) \/ RotateSend(w)
=============================================================================
