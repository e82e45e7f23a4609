-------------------------------- MODULE Calls --------------------------------
(***************************************************************************)
(* The engine as its callers see it: a call enters under the read lock,    *)
(* meets the closed flag, does its work, leaves the lock and then counts   *)
(* itself in the metrics (engine/engine.go).  What the work does inside is *)
(* the Engine module's business; here a write is an identity that the call *)
(* adds to the log.                                                        *)
(***************************************************************************)
EXTENDS Metrics

CONSTANTS
  Clients,        \* goroutines that serve requests or run the benchmark
  Console,        \* the main goroutine
  Workloads       \* what is asked of the process, one of which a behaviour
                  \* picks: its mode, and bounds of the model on the calls,
                  \* on their kinds, on installed flushes and compactions,
                  \* and whether a page is rendered

Actors == Clients \cup {Console}

Ops == {"put", "delete", "get", "scan", "stats", "snapshot", "release"}

ASSUME CallsAssumption ==
  /\ IsFiniteSet(Clients)
  /\ \A w \in Workloads :
       w.mode \in {"serve", "repl", "bench"} /\ w.ops \subseteq Ops \cup {"plain"}

VARIABLES
  work,           \* the workload
  call,           \* the call each goroutine is in
  calls,          \* calls made so far
  closed,         \* Engine.closed
  exclusive,      \* Close holds the lock for its final flush
  stopped,        \* the workers have stopped
  wal,            \* writes held by a log file
  table,          \* writes held by the table of the final flush
  level,          \* tables on each level, level 0 first
  installs,
  active          \* the sum of Engine.activeSnapshots

callVars == <<work, call, calls, closed, exclusive, stopped, wal, table, level, installs, active>>
engineVars == <<work, calls, closed, exclusive, stopped, wal, table, level, installs, active>>

Writes == {"put", "delete"}
NoCall == [pc |-> "idle", op |-> "none", id |-> 0, at |-> 0, res |-> "none"]

InitCalls ==
  /\ work \in Workloads
  /\ call = [a \in Actors |-> NoCall]
  /\ calls = 0
  /\ closed = FALSE
  /\ exclusive = FALSE
  /\ stopped = FALSE
  /\ wal = {}
  /\ table = {}
  /\ level = [l \in Levels |-> IF l = 1 THEN 1 ELSE 0]
  /\ installs = 0
  /\ active = 0

(* Faulty variant: a write lets go of the lock once it has seen the flag. *)
ReadersButWriters ==
  {a \in Actors : call[a].pc \in {"work", "level"} /\ call[a].op \notin Writes}

(* Faulty variant: Stats lets go of the lock before it sets the gauges of  *)
(* the levels.                                                             *)
ReadersAtWork == {a \in Actors : call[a].pc = "work"}

(* The goroutines that hold the read lock. *)
Readers == {a \in Actors : call[a].pc \in {"work", "level"}}

Invoked(op) ==
  [NoCall EXCEPT !.pc = IF op = "release" THEN "release" ELSE "enter",
                 !.op = op, !.id = calls + 1]

Goto(a, pc) == call' = [call EXCEPT ![a].pc = pc]
Finish(a, pc, res) == call' = [call EXCEPT ![a].pc = pc, ![a].res = res]

(* A write and a get count themselves whatever came of them. *)
Counted(op) == IF op \in Writes \cup {"get"} THEN "observe" ELSE "done"

(* Take the read lock and look at the closed flag, which Stats ignores.  A *)
(* scan counts itself before it takes the lock.                            *)
Enter(a) ==
  /\ call[a].pc = "enter"
  /\ ~exclusive
  /\ IF closed /\ call[a].op # "stats"
     THEN Finish(a, Counted(call[a].op), "closed")
     ELSE Goto(a, "work")
  /\ IF call[a].op = "scan" THEN Inc("scans") ELSE UNCHANGED counter
  /\ UNCHANGED <<engineVars, histogram, gauge, scraping, page>>

(* Log the write and apply it.  A write that fails may have reached the    *)
(* log, or the rotation behind it failed.                                  *)
DoWrite(a) ==
  /\ call[a].pc = "work" /\ call[a].op \in Writes
  /\ \/ /\ Finish(a, "observe", "ok")
        /\ wal' = wal \cup {call[a].id}
     \/ /\ Finish(a, "observe", "error")
        /\ wal' \in {wal, wal \cup {call[a].id}}
  /\ UNCHANGED <<work, calls, closed, exclusive, stopped, table, level, installs, active, metricVars>>

(* A table that cannot be read fails a get, and a scan at any point of it. *)
DoRead(a) ==
  /\ call[a].pc = "work"
  /\ \/ /\ call[a].op = "get"
        /\ \E res \in {"ok", "notfound", "error"} : Finish(a, "observe", res)
     \/ /\ call[a].op = "scan"
        /\ \E res \in {"ok", "error"} : Finish(a, "done", res)
     \/ /\ call[a].op = "snapshot"
        /\ Finish(a, "register", "ok")
  /\ UNCHANGED <<engineVars, metricVars>>

(* Stats sets the gauge of all tables and then the one of every level. *)
SetTotal(a) ==
  /\ call[a].pc = "work" /\ call[a].op = "stats"
  /\ gauge' = [gauge EXCEPT !.sstables = SumFunction(level)]
  /\ call' = [call EXCEPT ![a].pc = "level", ![a].at = 1]
  /\ UNCHANGED <<engineVars, counter, histogram, scraping, page>>

SetLevel(a) ==
  /\ call[a].pc = "level"
  /\ gauge' = [gauge EXCEPT !.level[call[a].at] = level[call[a].at]]
  /\ IF call[a].at < MaxLevels
     THEN call' = [call EXCEPT ![a].at = @ + 1]
     ELSE call' = [call EXCEPT ![a].pc = "done", ![a].at = 0, ![a].res = "ok"]
  /\ UNCHANGED <<engineVars, counter, histogram, scraping, page>>

Latency(op) == IF op \in Writes THEN "write" ELSE "get"

Observe(a) ==
  /\ \/ /\ call[a].pc = "observe"
        /\ ObserveCount(Latency(call[a].op))
        /\ Goto(a, "bucket")
     \/ /\ call[a].pc = "bucket"
        /\ \E b \in 1 .. Buckets + 1 : ObserveBucket(Latency(call[a].op), b)
        /\ Goto(a, "total")
  /\ UNCHANGED <<engineVars, counter, gauge, scraping, page>>

(* The counters of a write, and those of recordGet. *)
Count(a) ==
  /\ \/ /\ call[a].pc = "total"
        /\ Inc(CASE call[a].op = "put" -> "puts"
                 [] call[a].op = "delete" -> "deletes"
                 [] call[a].op = "get" -> "gets")
        /\ Goto(a, IF call[a].op = "get" /\ call[a].res \in {"ok", "notfound"}
                   THEN "outcome" ELSE "done")
     \/ /\ call[a].pc = "outcome"
        /\ Inc(IF call[a].res = "ok" THEN "hits" ELSE "misses")
        /\ Goto(a, "done")
  /\ UNCHANGED <<engineVars, histogram, gauge, scraping, page>>

(* Snapshot registers itself, and then counts itself twice. *)
OpenSnapshot(a) ==
  /\ \/ /\ call[a].pc = "register"
        /\ active' = active + 1
        /\ Goto(a, "opened")
        /\ UNCHANGED <<counter, gauge>>
     \/ /\ call[a].pc = "opened"
        /\ Inc("opened")
        /\ Goto(a, "gaugeUp")
        /\ UNCHANGED <<active, gauge>>
     \/ /\ call[a].pc = "gaugeUp"
        /\ gauge' = [gauge EXCEPT !.snapshots = @ + 1]
        /\ Goto(a, "done")
        /\ UNCHANGED <<active, counter>>
  /\ UNCHANGED <<work, calls, closed, exclusive, stopped, wal, table, level, installs,
                 histogram, scraping, page>>

CloseSnapshot(a) ==
  /\ \/ /\ call[a].pc = "release"
        /\ active' = active - 1
        /\ Goto(a, "gaugeDown")
        /\ UNCHANGED gauge
     \/ /\ call[a].pc = "gaugeDown"
        /\ gauge' = [gauge EXCEPT !.snapshots = @ - 1]
        /\ Finish(a, "done", "ok")
        /\ UNCHANGED active
  /\ UNCHANGED <<work, calls, closed, exclusive, stopped, wal, table, level, installs,
                 counter, histogram, scraping, page>>

CallStep(a) ==
  \/ Enter(a) \/ DoWrite(a) \/ DoRead(a) \/ SetTotal(a) \/ SetLevel(a)
  \/ Observe(a) \/ Count(a) \/ OpenSnapshot(a) \/ CloseSnapshot(a)

(* A flush adds a table to level 0, a compaction moves one down; both      *)
(* install their result under the lock, and Close waits for both workers    *)
(* before it takes the lock for its final flush.                           *)
Install ==
  /\ Readers = {} /\ ~exclusive /\ ~stopped
  /\ installs < work.installs
  /\ installs' = installs + 1
  /\ \/ level' = [level EXCEPT ![1] = @ + 1]
     \/ \E l \in Levels \ {MaxLevels} :
          /\ level[l] > 0
          /\ level' = [level EXCEPT ![l] = @ - 1, ![l + 1] = @ + 1]
  /\ UNCHANGED <<work, call, calls, closed, exclusive, stopped, wal, table, active, metricVars>>

(* Once every call of Stats has returned, the gauge of all tables is the   *)
(* sum of the gauges of the levels, however calls of Stats overlap and     *)
(* tables come and go between them.                                        *)
GaugesAgree ==
  (\A a \in Actors : call[a].pc # "level") =>
    gauge.sstables = SumFunction(gauge.level)
=============================================================================
