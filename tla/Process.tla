------------------------------- MODULE Process -------------------------------
(***************************************************************************)
(* The process around the engine: the HTTP handlers (server/server.go),    *)
(* the three modes of the command, the debug server, and the way out       *)
(* through the deferred shutdowns and Engine.Close (main.go).              *)
(*                                                                         *)
(* External: net/http's listener, connections and Shutdown, the network    *)
(* and the operating system's signals.                                     *)
(***************************************************************************)
EXTENDS Calls

CONSTANT
  BenchOps        \* operations of each worker of the benchmark

ASSUME ProcessAssumption == BenchOps \in Nat /\ Console \notin Clients

VARIABLES
  main,           \* where the main goroutine is
  listening,      \* the API server accepts connections
  draining,       \* the API server's Shutdown has been called
  outlived,       \* runServer returned while handlers may be running
  conn,           \* clients that hold a connection
  task,           \* the handler, worker or command of each goroutine
  acked,          \* writes that were answered with success
  snap,           \* the REPL's snapshot is open
  total           \* what the benchmark counts

processVars == <<main, listening, draining, outlived, conn, task, acked, snap, total>>
vars == <<metricVars, callVars, processVars>>

Idle == [pc |-> "idle", status |-> 0, ops |-> 0]

Init ==
  /\ InitMetrics
  /\ InitCalls
  /\ main = "running"
  /\ listening = (work.mode = "serve")
  /\ draining = FALSE
  /\ outlived = FALSE
  /\ conn = {}
  /\ task = [a \in Actors |-> Idle]
  /\ acked = {}
  /\ snap = FALSE
  /\ total = [puts |-> 0, gets |-> 0, errors |-> 0]

(* What the flags ask for: "serve", "repl" or "bench". *)
mode == work.mode

Up == main # "exited"

(* Goroutine a calls the engine. *)
Invoke(a, op) ==
  /\ call[a] = NoCall
  /\ calls < work.calls
  /\ calls' = calls + 1
  /\ call' = [call EXCEPT ![a] = Invoked(op)]

(* ---- The HTTP handlers ------------------------------------------------ *)

(* net/http hands a request to its handler: on a new connection while the  *)
(* server listens, or on a kept one until Shutdown is called.              *)
CanRequest(c) ==
  /\ mode = "serve" /\ Up /\ ~draining
  /\ listening \/ c \in conn
  /\ task[c].pc = "idle"

Stay == UNCHANGED <<metricVars, work, closed, exclusive, stopped, wal, table, level, installs,
                    active, main, listening, draining, outlived, snap, total>>

(* A PUT has its body read first. *)
RequestPut(c) ==
  /\ CanRequest(c) /\ calls < work.calls /\ "put" \in work.ops
  /\ task' = [task EXCEPT ![c].pc = "body"]
  /\ conn' = conn \cup {c}
  /\ Stay /\ UNCHANGED <<call, calls, acked>>

BodyRead(c) ==
  /\ Up /\ task[c].pc = "body"
  /\ Invoke(c, "put")
  /\ task' = [task EXCEPT ![c].pc = "engine"]
  /\ Stay /\ UNCHANGED <<conn, acked>>

(* The client goes away, or sends more than maxRequestBody. *)
BodyFails(c) ==
  /\ Up /\ task[c].pc = "body"
  /\ \E status \in {400, 413} :
       task' = [task EXCEPT ![c].pc = "reply", ![c].status = status]
  /\ Stay /\ UNCHANGED <<call, calls, conn, acked>>

(* A health check, or a scan with an invalid limit: no call of the engine. *)
RequestPlain(c) ==
  /\ CanRequest(c) /\ "plain" \in work.ops
  /\ \E status \in {200, 400} :
       task' = [task EXCEPT ![c].pc = "reply", ![c].status = status]
  /\ conn' = conn \cup {c}
  /\ Stay /\ UNCHANGED <<call, calls, acked>>

RequestOther(c) ==
  /\ CanRequest(c)
  /\ \E op \in work.ops \cap {"delete", "get", "scan", "stats"} : Invoke(c, op)
  /\ task' = [task EXCEPT ![c].pc = "engine"]
  /\ conn' = conn \cup {c}
  /\ Stay /\ UNCHANGED acked

(* writeEngineError, and the statuses of success. *)
StatusOf(op, res) ==
  CASE res = "ok" -> IF op \in Writes THEN 204 ELSE 200
    [] res = "notfound" -> 404
    [] res = "closed" -> 503
    [] OTHER -> 500

(* The engine has returned: the handler sends its status. *)
Respond(c) ==
  /\ Up /\ mode = "serve" /\ task[c].pc = "engine" /\ call[c].pc = "done"
  /\ LET status == StatusOf(call[c].op, call[c].res)
     IN /\ task' = [task EXCEPT ![c].pc = "reply", ![c].status = status]
        /\ acked' = IF status = 204 THEN acked \cup {call[c].id} ELSE acked
  /\ call' = [call EXCEPT ![c] = NoCall]
  /\ Stay /\ UNCHANGED <<calls, conn>>

(* The response is with the client; net/http keeps the connection unless   *)
(* the server is shutting down.                                            *)
Replied(c) ==
  /\ Up /\ task[c].pc = "reply"
  /\ task' = [task EXCEPT ![c] = Idle]
  /\ conn' = IF draining THEN conn \ {c} ELSE conn
  /\ Stay /\ UNCHANGED <<call, calls, acked>>

(* ---- The REPL --------------------------------------------------------- *)

Main(from, to) == main = from /\ main' = to

(* A command of the REPL; there is at most one snapshot. *)
Command ==
  /\ mode = "repl" /\ main = "running" /\ task[Console].pc = "idle"
  /\ \E op \in work.ops :
       /\ op = "snapshot" => ~snap
       /\ op = "release" => snap
       /\ Invoke(Console, op)
  /\ task' = [task EXCEPT ![Console].pc = "engine"]
  /\ Stay /\ UNCHANGED <<conn, acked>>

CommandReturns ==
  /\ mode = "repl" /\ main = "running" /\ call[Console].pc = "done"
  /\ snap' = CASE call[Console].op = "snapshot" -> call[Console].res = "ok"
              [] call[Console].op = "release" -> FALSE
              [] OTHER -> snap
  /\ acked' = IF call[Console].op \in Writes /\ call[Console].res = "ok"
              THEN acked \cup {call[Console].id} ELSE acked
  /\ call' = [call EXCEPT ![Console] = NoCall]
  /\ task' = [task EXCEPT ![Console].pc = "idle"]
  /\ UNCHANGED <<metricVars, engineVars, main, listening, draining, outlived,
                 conn, total>>

(* Faulty variant: the way out forgets the snapshot. *)
QuitKeepsSnapshot ==
  /\ mode = "repl" /\ main = "running" /\ task[Console].pc = "idle"
  /\ main' = "debug"
  /\ UNCHANGED <<metricVars, callVars, listening, draining, outlived, conn, task,
                 acked, snap, total>>

(* EXIT or the end of the input: the deferred function closes the snapshot *)
(* before runREPL returns.                                                 *)
Quit ==
  /\ mode = "repl" /\ main = "running" /\ task[Console].pc = "idle"
  /\ main' = IF snap THEN "unsnap" ELSE "debug"
  /\ snap' = FALSE
  /\ call' = IF snap THEN [call EXCEPT ![Console] = Invoked("release")] ELSE call
  /\ UNCHANGED <<metricVars, engineVars, listening, draining, outlived, conn,
                 task, acked, total>>

Unsnapped ==
  /\ Main("unsnap", "debug")
  /\ call[Console].pc = "done"
  /\ call' = [call EXCEPT ![Console] = NoCall]
  /\ UNCHANGED <<metricVars, engineVars, listening, draining, outlived, conn,
                 task, acked, snap, total>>

(* ---- The benchmark ---------------------------------------------------- *)

WorkerCalls(c) ==
  /\ mode = "bench" /\ main = "running" /\ task[c].ops < BenchOps
  /\ call[c] = NoCall
  /\ \E op \in work.ops \cap {"put", "get"} : call' = [call EXCEPT ![c] = Invoked(op)]
  /\ calls' = calls + 1
  /\ Stay /\ UNCHANGED <<conn, task, acked>>

(* Faulty variant: a key that is not found is an error. *)
TallyOfFound(op, res) ==
  IF res # "ok" THEN "errors" ELSE IF op = "put" THEN "puts" ELSE "gets"

(* What a worker adds one to. *)
TallyOf(op, res) ==
  IF res \notin {"ok", "notfound"} THEN "errors"
  ELSE IF op = "put" THEN "puts" ELSE "gets"

WorkerCounts(c) ==
  /\ mode = "bench" /\ main = "running" /\ call[c].pc = "done"
  /\ total' = [total EXCEPT ![TallyOf(call[c].op, call[c].res)] = @ + 1]
  /\ task' = [task EXCEPT ![c].ops = @ + 1]
  /\ call' = [call EXCEPT ![c] = NoCall]
  /\ UNCHANGED <<metricVars, engineVars, main, listening, draining, outlived,
                 conn, acked, snap>>

(* wg.Wait returns when every worker is done; then Stats is called. *)
BenchWaited ==
  /\ mode = "bench" /\ Main("running", "report")
  /\ \A c \in Clients : task[c].ops = BenchOps
  /\ call' = [call EXCEPT ![Console] = Invoked("stats")]
  /\ UNCHANGED <<metricVars, engineVars, listening, draining, outlived, conn,
                 task, acked, snap, total>>

BenchReported ==
  /\ Main("report", "debug")
  /\ call[Console].pc = "done"
  /\ call' = [call EXCEPT ![Console] = NoCall]
  /\ UNCHANGED <<metricVars, engineVars, listening, draining, outlived, conn,
                 task, acked, snap, total>>
=============================================================================
