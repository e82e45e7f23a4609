------------------------------ MODULE Lifecycle ------------------------------
(***************************************************************************)
(* Open (scanDir, recoverFromWALs), Close, and the end of the process, by  *)
(* exit or by crash, at any moment.                                        *)
(***************************************************************************)
EXTENDS EngineState

AllIdle ==
  /\ wr' = [w \in Writers |-> IdleWriter]
  /\ fl' = IdleFlush
  /\ cp' = IdleCompaction
  /\ rd' = [r \in Readers |-> IdleReader]
  /\ snap' = [s \in Snapshots |-> NoSnapshot]
  /\ activeSnapshots' = <<>>
  /\ flushCh' = <<>>
  /\ compactCh' = FALSE

\* The process ends: only the files remain.  A WAL record whose append has
\* begun is either in the file (the step WriteAppend was taken) or a torn tail.
Exit ==
  /\ phase # "down"
  /\ session < MaxSessions
  /\ phase' = "down"
  /\ redo' = {}
  /\ AllIdle
  /\ seq' = 0 /\ genCounter' = 0 /\ mem' = 0
  /\ imm' = {} /\ mts' = <<>> /\ tables' = <<>> /\ handles' = <<>>
  /\ wals' = [g \in DOMAIN wals |-> [wals[g] EXCEPT !.broken = FALSE]]
  /\ UNCHANGED <<ssts, session, faults>>

-----------------------------------------------------------------------------
\* scanDir: the tables in the order of their generations.
Found == LET gens == InOrder(DOMAIN ssts)
         IN  [i \in DOMAIN gens |-> [level |-> ssts[gens[i]].level, gen |-> gens[i]]]

\* Faulty variant: recovery does not keep tombstones.
LoggedValues == {r \in {Logged(k) : k \in Keys} \ {NoRecord} : r.val # Tombstone}

LoggedRecords == {Logged(k) : k \in Keys} \ {NoRecord}

\* The greatest Seq in the WAL files: the SSTables are not consulted.
MaxLoggedSeq ==
  Max({0} \cup UNION {{wals[g].recs[i].seq : i \in DOMAIN wals[g].recs} : g \in DOMAIN wals})

\* Open lists the directory, opens every SSTable, replays every WAL into one
\* MemTable and writes that MemTable, if not empty, as a level-0 table.  An
\* error before that leaves the disk as it was.
OpenRecover ==
  LET top == Max({0} \cup DOMAIN wals \cup DOMAIN ssts)
      new == top + 1
      nothing == LoggedRecords = {}
  IN  /\ phase = "down"
      /\ session' = session + 1
      /\ phase' = "recovering"
      /\ redo' = DOMAIN wals
      /\ seq' = MaxLoggedSeq
      /\ genCounter' = IF nothing THEN top ELSE new
      /\ ssts' = IF nothing THEN ssts
                 ELSE With(ssts, new, [level |-> 0, recs |-> LoggedRecords])
      /\ tables' = IF nothing THEN Found ELSE Append(Found, [level |-> 0, gen |-> new])
      /\ handles' = [g \in DOMAIN ssts' |-> NewHandle]
      /\ UNCHANGED <<mem, imm, mts, chVars, wals, snapVars, wr, fl, cp, rd, faults>>

\* The replayed WALs are removed oldest first.  If a removal fails, Open
\* returns an error: the step Exit.
OpenRemoveWAL ==
  /\ phase = "recovering"
  /\ redo # {}
  /\ wals' = Without(wals, Min(redo))
  /\ redo' = redo \ {Min(redo)}
  /\ UNCHANGED <<phase, session, genCounter, memVars, tblVars, chVars, ssts,
                 snapVars, wr, fl, cp, rd, faults>>

\* A fresh WAL and MemTable; the workers start.
OpenFinish ==
  /\ phase = "recovering"
  /\ redo = {}
  /\ phase' = "up"
  /\ genCounter' = genCounter + 1
  /\ mem' = genCounter + 1
  /\ wals' = With(wals, genCounter + 1, EmptyWAL)
  /\ mts' = With(mts, genCounter + 1, EmptyMem)
  /\ UNCHANGED <<redo, session, seq, imm, tblVars, chVars, ssts, snapVars,
                 wr, fl, cp, rd, faults>>

-----------------------------------------------------------------------------
\* Close sets e.closed under e.mu.Lock and closes stopCh.
CloseBegin ==
  /\ phase = "up"
  /\ LockFree
  /\ phase' = "closing"
  /\ UNCHANGED <<redo, session, genCounter, memVars, tblVars, chVars, diskVars,
                 snapVars, wr, fl, cp, rd, faults>>

WorkersExited == fl.pc = "exited" /\ cp.pc = "exited"

\* After wg.Wait, under e.mu.Lock: the active MemTable becomes a table.
CloseFlush ==
  LET recs == RecordsOf(mts[mem])
      new  == genCounter + 1
  IN  /\ phase = "closing"
      /\ WorkersExited
      /\ LockFree
      /\ phase' = "locked"
      /\ IF recs = {} THEN UNCHANGED <<genCounter, ssts, tblVars>>
         ELSE /\ genCounter' = new
              /\ ssts' = With(ssts, new, [level |-> 0, recs |-> recs])
              /\ tables' = Append(tables, [level |-> 0, gen |-> new])
              /\ handles' = With(handles, new, NewHandle)
      /\ UNCHANGED <<redo, session, memVars, chVars, wals, snapVars, wr, fl, cp, rd, faults>>

\* Faulty variant: Close goes on after the error and removes the WAL.
CloseFlushErrorIgnored ==
  /\ phase = "closing"
  /\ WorkersExited
  /\ LockFree
  /\ RecordsOf(mts[mem]) # {}
  /\ genCounter' = genCounter + 1
  /\ Fail("closeWrite")
  /\ phase' = "locked"
  /\ UNCHANGED <<redo, session, memVars, tblVars, chVars, diskVars, snapVars, wr, fl, cp, rd>>

\* The final flush fails, in Write or in Open: Close returns, the WAL stays.
CloseFlushError ==
  LET recs == RecordsOf(mts[mem])
      new  == genCounter + 1
  IN  /\ phase = "closing"
      /\ WorkersExited
      /\ LockFree
      /\ recs # {}
      /\ genCounter' = new
      /\ \/ Fail("closeWrite") /\ UNCHANGED ssts
         \/ Fail("closeOpen") /\ ssts' = With(ssts, new, [level |-> 0, recs |-> recs])
      /\ phase' = "closed"
      /\ UNCHANGED <<redo, session, memVars, tblVars, chVars, wals, snapVars, wr, fl, cp, rd>>

\* wal.Close returns the sticky error of a broken WAL, or removing the file
\* fails: Close returns, the WAL and the table references stay.
CloseWALError ==
  /\ phase = "locked"
  /\ \/ wals[mem].broken /\ UNCHANGED faults
     \/ ~wals[mem].broken /\ Fail("walRemove")
  /\ phase' = "closed"
  /\ UNCHANGED <<redo, session, genCounter, memVars, tblVars, chVars, diskVars,
                 snapVars, wr, fl, cp, rd>>

\* The WAL is removed and the engine gives up its reference on every table.
CloseFinish ==
  LET listed(g) == Cardinality({i \in DOMAIN tables : tables[i].gen = g})
      kept == {g \in DOMAIN handles : handles[g].refCount > listed(g)}
  IN  /\ phase = "locked"
      /\ ~wals[mem].broken
      /\ phase' = "closed"
      /\ wals' = Without(wals, mem)
      /\ handles' = [g \in kept |-> [handles[g] EXCEPT !.refCount = @ - listed(g)]]
      /\ UNCHANGED <<redo, session, genCounter, memVars, tables, chVars, ssts,
                     snapVars, wr, fl, cp, rd, faults>>

LifecycleNext ==
  \/ Exit \/ OpenRecover \/ OpenRemoveWAL \/ OpenFinish
  \/ CloseBegin \/ CloseFlush \/ CloseFlushError \/ CloseWALError \/ CloseFinish
=============================================================================
