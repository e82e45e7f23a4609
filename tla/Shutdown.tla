------------------------------ MODULE Shutdown -------------------------------
(***************************************************************************)
(* How the process ends (main.go, and Close of engine/engine.go): the API  *)
(* server's Shutdown with its deadline, the debug server's, then           *)
(* Engine.Close, in the order in which main defers them.                   *)
(***************************************************************************)
EXTENDS Process

Frame == UNCHANGED <<conn, acked, snap, total>>

(* ---- The debug server ------------------------------------------------- *)

(* GET /metrics is accepted until the debug server's Shutdown is called.   *)
Scrape ==
  /\ main \in {"running", "shutdown", "unsnap", "report"}
  /\ work.page /\ page = << >>
  /\ BeginScrape
  /\ UNCHANGED <<callVars, processVars>>

RenderNext ==
  /\ Up /\ Render
  /\ UNCHANGED <<callVars, processVars>>

(* ---- runServer -------------------------------------------------------- *)

(* The first signal: Shutdown closes the listener and the idle connections. *)
Interrupt ==
  /\ mode = "serve" /\ Main("running", "shutdown")
  /\ listening' = FALSE
  /\ draining' = TRUE
  /\ UNCHANGED <<metricVars, callVars, outlived, task>> /\ Frame

(* ListenAndServe fails: runServer returns, the connections stay. *)
ListenFails ==
  /\ mode = "serve" /\ Main("running", "debug")
  /\ listening' = FALSE
  /\ outlived' = TRUE
  /\ UNCHANGED <<metricVars, callVars, draining, task>> /\ Frame

Busy == {c \in Clients : task[c].pc # "idle"}

(* Faulty variant: the server is closed without waiting for its handlers. *)
DrainedAtOnce ==
  /\ Main("shutdown", "debug")
  /\ UNCHANGED <<metricVars, callVars, listening, draining, outlived, task>> /\ Frame

(* Shutdown returns when the last handler has. *)
Drained ==
  /\ Main("shutdown", "debug")
  /\ Busy = {}
  /\ UNCHANGED <<metricVars, callVars, listening, draining, outlived, task>> /\ Frame

(* Faulty variant: Shutdown without a deadline. *)
NoDeadline ==
  /\ FALSE
  /\ UNCHANGED vars

(* Its ten seconds are over first. *)
ShutdownDeadline ==
  /\ Main("shutdown", "debug")
  /\ Busy # {}
  /\ outlived' = TRUE
  /\ UNCHANGED <<metricVars, callVars, listening, draining, task>> /\ Frame

(* ---- The deferred functions of main ----------------------------------- *)

(* The debug server's Shutdown returns: no page is being rendered, or its  *)
(* five seconds are over.                                                  *)
DebugDrained ==
  /\ Main("debug", "close")
  /\ ~scraping
  /\ UNCHANGED <<metricVars, callVars, listening, draining, outlived, task>> /\ Frame

DebugDeadline ==
  /\ Main("debug", "close")
  /\ scraping
  /\ UNCHANGED <<metricVars, callVars, listening, draining, outlived, task>> /\ Frame

(* Close takes the lock to set the flag, lets it go, and waits for the     *)
(* workers.                                                                *)
CloseFlag ==
  /\ Main("close", "wait")
  /\ Readers = {}
  /\ closed' = TRUE
  /\ UNCHANGED <<metricVars, work, call, calls, exclusive, stopped, wal, table, level, installs,
                 active, listening, draining, outlived, task>> /\ Frame

WorkersStop ==
  /\ Main("wait", "flush")
  /\ stopped' = TRUE
  /\ UNCHANGED <<metricVars, work, call, calls, closed, exclusive, wal, table, level, installs,
                 active, listening, draining, outlived, task>> /\ Frame

(* It takes the lock again and writes what the log holds to a table. *)
FinalFlush ==
  /\ Main("flush", "remove")
  /\ Readers = {}
  /\ exclusive' = TRUE
  /\ table' = table \cup wal
  /\ level' = IF wal = {} THEN level ELSE [level EXCEPT ![1] = @ + 1]
  /\ UNCHANGED <<metricVars, work, call, calls, closed, stopped, wal, installs, active,
                 listening, draining, outlived, task>> /\ Frame

(* The process is gone, with its goroutines and all it held in memory. *)
Gone ==
  /\ main' = "exited"
  /\ counter' = Zero.counter /\ histogram' = Zero.histogram /\ gauge' = Zero.gauge
  /\ scraping' = FALSE /\ page' = << >>
  /\ call' = [a \in Actors |-> NoCall]
  /\ calls' = 0 /\ installs' = 0 /\ active' = 0
  /\ closed' = FALSE /\ exclusive' = FALSE /\ stopped' = FALSE
  /\ listening' = FALSE /\ draining' = FALSE /\ outlived' = FALSE
  /\ conn' = {}
  /\ task' = [a \in Actors |-> Idle]
  /\ snap' = FALSE
  /\ total' = [t \in DOMAIN total |-> 0]
  /\ UNCHANGED <<work, acked, table, level>>

(* It removes the log, and main returns. *)
LogRemoved ==
  /\ main = "remove"
  /\ wal' = {}
  /\ Gone

(* The final flush or the removal fails: the log stays. *)
CloseFails ==
  /\ main \in {"flush", "remove"} /\ (main = "flush" => Readers = {})
  /\ Gone
  /\ UNCHANGED wal

(* A signal nobody is notified of: in the REPL and the benchmark always,   *)
(* in the server before and after runServer.  One that arrives during      *)
(* Shutdown is swallowed.                                                  *)
Killed ==
  /\ Up
  /\ mode = "serve" => main \notin {"running", "shutdown"}
  /\ Gone
  /\ UNCHANGED wal

Terminated == main = "exited" /\ UNCHANGED vars

(* ---- The specification ------------------------------------------------ *)

EngineStep(a) == Up /\ CallStep(a) /\ UNCHANGED processVars

Handler(c) ==
  \/ RequestPut(c) \/ BodyRead(c) \/ BodyFails(c) \/ RequestPlain(c)
  \/ RequestOther(c) \/ Respond(c) \/ Replied(c)

Worker(c) == WorkerCalls(c) \/ WorkerCounts(c)

MainStep ==
  \/ Drained \/ ShutdownDeadline \/ CommandReturns \/ Unsnapped
  \/ BenchWaited \/ BenchReported
  \/ DebugDrained \/ DebugDeadline
  \/ CloseFlag \/ WorkersStop \/ FinalFlush \/ LogRemoved

Next ==
  \/ \E a \in Actors : EngineStep(a)
  \/ Up /\ Install /\ UNCHANGED processVars
  \/ \E c \in Clients : Handler(c) \/ Worker(c)
  \/ Command \/ Quit \/ Interrupt \/ ListenFails \/ MainStep
  \/ Scrape \/ RenderNext
  \/ CloseFails \/ Killed \/ Terminated

(* Of the goroutines that compute, one makes progress: a call of the       *)
(* engine, which the engine's own model shows to return, or a worker of    *)
(* the benchmark.  The main goroutine keeps running, and its two deadlines *)
(* expire.  Nothing is assumed of a client, of whoever reads a page or of  *)
(* whoever types a command.                                                *)
Fairness ==
  /\ WF_vars((\E a \in Actors : EngineStep(a)) \/ (\E c \in Clients : Worker(c)))
  /\ WF_vars(MainStep)

Spec == Init /\ [][Next]_vars /\ Fairness

(* ---- Properties ------------------------------------------------------- *)

(* A write that was answered with success is in the log or in the table of *)
(* the final flush, also when its handler outlives runServer and runs side *)
(* by side with Engine.Close, and when the process is killed on its way    *)
(* out.                                                                    *)
AckedWritesSurvive == acked \subseteq wal \cup table

(* No client is told that the store is closed unless runServer returned    *)
(* with handlers running: Shutdown keeps Engine.Close behind every request *)
(* it waited for.                                                          *)
UnavailableOnlyIfOutlived ==
  \A c \in Clients :
    (task[c].status = 503 \/ call[c].res = "closed") => outlived

(* The REPL never closes the engine with its snapshot open, and the gauge  *)
(* of open snapshots is the number of the open ones whenever no call is    *)
(* opening or closing one.                                                 *)
SnapshotsReleased ==
  /\ closed => active = 0
  /\ call[Console].pc \notin {"opened", "gaugeUp", "gaugeDown"} =>
       gauge.snapshots = active

(* When the benchmark reports, its totals are the ones that the engine's   *)
(* counters tell, and no operation is missing, whatever calls failed.      *)
BenchTotalsExact ==
  mode = "bench" /\ main \notin {"running", "exited"} =>
    /\ total.gets = counter["hits"] + counter["misses"]
    /\ total.puts <= counter["puts"]
    /\ total.puts + total.gets + total.errors = counter["puts"] + counter["gets"]
    /\ total.puts + total.gets + total.errors = BenchOps * Cardinality(Clients)

(* Once it has been told to stop, or its input or its benchmark has come   *)
(* to an end, the process exits: no client and no reader of a page can     *)
(* hold it up.                                                             *)
ProcessEnds == (mode = "bench" \/ main # "running") ~> main = "exited"
=============================================================================
