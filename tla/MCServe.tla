------------------------------- MODULE MCServe -------------------------------
(***************************************************************************)
(* Small instances of Shutdown for TLC.                                    *)
(***************************************************************************)
EXTENDS Shutdown

CONSTANTS c1, c2, console

(* Requests of every kind around a shutdown; two calls of Stats while      *)
(* tables change; a page that is rendered during a shutdown; the REPL with *)
(* all of its commands; the benchmark, alone and with a page rendered next *)
(* to it.                                                                  *)
Workload(m, ops, calls_, installs_, page_) ==
  [mode |-> m, ops |-> ops, calls |-> calls_, installs |-> installs_, page |-> page_]

MCWorkloads ==
  {Workload("serve", {"put"}, 2, 0, FALSE),
   Workload("serve", {"delete", "get"}, 2, 0, FALSE),
   Workload("serve", {"stats"}, 2, 2, FALSE),
   Workload("serve", {"scan", "plain"}, 1, 0, TRUE),
   Workload("repl", Ops, 3, 0, FALSE),
   Workload("bench", {"put", "get"}, 2, 0, FALSE),
   Workload("bench", {"put"}, 2, 0, TRUE),
   Workload("bench", {"get"}, 2, 0, TRUE)}
=============================================================================
