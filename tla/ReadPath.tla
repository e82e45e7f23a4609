------------------------------ MODULE ReadPath ------------------------------
(***************************************************************************)
(* Get and Scan (getAt, scanAt, ScanIterator) and Snapshot.                *)
(*                                                                         *)
(* Get and Scan share their shape: under e.mu.RLock they copy the list of  *)
(* sources and take a reference on every table, then they read without the *)
(* lock, then they release the tables.  A Get reads one key, a Scan all of *)
(* its range; immutable MemTables and tables do not change, so the one read *)
(* whose moment matters is that of the MemTable that was active.           *)
(***************************************************************************)
EXTENDS EngineState

\* Faulty variant: the immutable MemTables are left out.
ReadBeginSkipsImm(r, K, max) ==
  /\ phase = "up"
  /\ rd[r].pc = "idle"
  /\ rd' = [rd EXCEPT ![r] =
       [pc |-> "read", keys |-> K, max |-> max, mem |-> mem, imm |-> {},
        tbs |-> GensOf(tables), out |-> <<>>]]
  /\ UNCHANGED <<lifeVars, genCounter, memVars, tblVars, chVars, diskVars,
                 snapVars, wr, fl, cp, faults>>

ReadBegin(r, K, max) ==
  /\ phase = "up"
  /\ rd[r].pc = "idle"
  /\ rd' = [rd EXCEPT ![r] =
       [pc |-> "read", keys |-> K, max |-> max, mem |-> mem, imm |-> imm,
        tbs |-> GensOf(tables), out |-> <<>>]]
  /\ handles' = [g \in DOMAIN handles |->
       [handles[g] EXCEPT !.refCount =
          @ + Cardinality({i \in DOMAIN tables : tables[i].gen = g})]]
  /\ UNCHANGED <<lifeVars, genCounter, memVars, tables, chVars, diskVars,
                 snapVars, wr, fl, cp, faults>>

Get(r, k) == ReadBegin(r, {k}, UnboundedSeq)
Scan(r) == ReadBegin(r, Keys, UnboundedSeq)
SnapshotScan(r, s) == snap[s].pc = "open" /\ ReadBegin(r, Keys, snap[s].seq)

\* Faulty variant: a return that forgets releaseAll.
ReadResolveLeaks(r) ==
  /\ rd[r].pc = "read"
  /\ rd' = [rd EXCEPT ![r] = IdleReader]
  /\ UNCHANGED <<lifeVars, genCounter, memVars, tblVars, chVars, diskVars,
                 snapVars, wr, fl, cp, faults>>

\* MemTable.Get / MemTable.Range and the choice among the sources.
ReadResolve(r) ==
  /\ rd[r].pc = "read"
  /\ rd' = [rd EXCEPT ![r].pc = "release", ![r].mem = 0, ![r].imm = {},
       ![r].out = [k \in rd[r].keys |->
                     ReadAt(rd[r].mem, rd[r].imm, rd[r].tbs, k, rd[r].max)]]
  /\ UNCHANGED <<lifeVars, genCounter, memVars, tblVars, chVars, diskVars,
                 snapVars, wr, fl, cp, faults>>

\* releaseAll, one table after the other.
ReadRelease(r) ==
  /\ rd[r].pc = "release"
  /\ rd[r].tbs # <<>>
  /\ Release(Head(rd[r].tbs), FALSE)
  /\ rd' = [rd EXCEPT ![r].tbs = Tail(@)]
  /\ UNCHANGED <<lifeVars, genCounter, memVars, tables, chVars, wals, snapVars,
                 wr, fl, cp, faults>>

ReadReturn(r) ==
  /\ rd[r].pc = "release"
  /\ rd[r].tbs = <<>>
  /\ rd' = [rd EXCEPT ![r] = IdleReader]
  /\ UNCHANGED <<lifeVars, genCounter, memVars, tblVars, chVars, diskVars,
                 snapVars, wr, fl, cp, faults>>

-----------------------------------------------------------------------------
\* Engine.Snapshot reads e.seq under e.mu.RLock ...
SnapshotLoad(s) ==
  /\ phase = "up"
  /\ snap[s].pc = "none"
  /\ snap' = [snap EXCEPT ![s] = [pc |-> "loaded", seq |-> seq]]
  /\ UNCHANGED <<lifeVars, genCounter, memVars, tblVars, chVars, diskVars,
                 activeSnapshots, wr, fl, cp, rd, faults>>

\* ... and registers it under snapMu afterwards.
SnapshotRegister(s) ==
  LET n == snap[s].seq
      open == IF n \in DOMAIN activeSnapshots THEN activeSnapshots[n] ELSE 0
  IN  /\ snap[s].pc = "loaded"
      /\ activeSnapshots' = With(activeSnapshots, n, open + 1)
      /\ snap' = [snap EXCEPT ![s].pc = "open"]
      /\ UNCHANGED <<lifeVars, genCounter, memVars, tblVars, chVars, diskVars,
                     wr, fl, cp, rd, faults>>

\* Faulty variant: the count is not looked at.
SnapshotCloseForgetsOthers(s) ==
  /\ snap[s].pc = "open"
  /\ activeSnapshots' = Without(activeSnapshots, snap[s].seq)
  /\ snap' = [snap EXCEPT ![s] = [pc |-> "closed", seq |-> 0]]
  /\ UNCHANGED <<lifeVars, genCounter, memVars, tblVars, chVars, diskVars,
                 wr, fl, cp, rd, faults>>

\* Snapshot.Close; a second call does nothing.
SnapshotClose(s) ==
  LET n == snap[s].seq
  IN  /\ snap[s].pc = "open"
      /\ activeSnapshots' = IF activeSnapshots[n] <= 1 THEN Without(activeSnapshots, n)
                            ELSE [activeSnapshots EXCEPT ![n] = @ - 1]
      /\ snap' = [snap EXCEPT ![s] = [pc |-> "closed", seq |-> 0]]
      /\ UNCHANGED <<lifeVars, genCounter, memVars, tblVars, chVars, diskVars,
                     wr, fl, cp, rd, faults>>

ReaderNext ==
  \E r \in Readers :
    \/ \E k \in Keys : Get(r, k)
    \/ Scan(r)
    \/ \E s \in Snapshots : SnapshotScan(r, s)
    \/ ReadResolve(r) \/ ReadRelease(r) \/ ReadReturn(r)

SnapshotNext ==
  \E s \in Snapshots : SnapshotLoad(s) \/ SnapshotRegister(s) \/ SnapshotClose(s)
=============================================================================
