------------------------------- MODULE Metrics -------------------------------
(***************************************************************************)
(* The metrics registry (metrics/metrics.go) and the metrics the engine    *)
(* registers in it (engine/engine_metrics.go).                             *)
(*                                                                         *)
(* Every metric is a set of atomics that is updated and rendered without a *)
(* lock, so one update of a histogram is several steps, and a page is a    *)
(* sequence of loads between which any number of updates may happen.       *)
(*                                                                         *)
(* Abstracted: the sums of the histograms, names, help texts and the text  *)
(* format.  A page is the sequence of the values loaded for the counters   *)
(* and the histograms.  The loads of the gauges are left out: Stats sets   *)
(* the gauges one after the other, so a page may mix two calls of it.      *)
(***************************************************************************)
EXTENDS Integers, Sequences, FiniteSetsExt

CONSTANTS
  Buckets,        \* finite buckets of a latency histogram
  MaxLevels       \* levels of the engine, one gauge each

ASSUME MetricsAssumption ==
  /\ Buckets \in Nat \ {0}
  /\ MaxLevels \in Nat \ {0}

VARIABLES
  counter,        \* the counters
  histogram,      \* the latency histograms
  gauge,          \* the gauges
  scraping,       \* a GET /metrics is being served
  page            \* the values it has loaded

metricVars == <<counter, histogram, gauge, scraping, page>>

Counters == {"puts", "deletes", "gets", "hits", "misses", "scans", "opened"}
Latencies == {"write", "get"}
Levels == 1 .. MaxLevels

Zero ==
  [counter |-> [c \in Counters |-> 0],
   histogram |-> [h \in Latencies |->
                    [count |-> 0, bucket |-> [b \in 1 .. Buckets |-> 0]]],
   gauge |-> [sstables |-> 0, level |-> [l \in Levels |-> 0], snapshots |-> 0]]

InitMetrics ==
  /\ counter = Zero.counter
  /\ histogram = Zero.histogram
  /\ gauge = Zero.gauge
  /\ scraping = FALSE
  /\ page = << >>

Inc(c) == counter' = [counter EXCEPT ![c] = @ + 1]

(* The two steps of Observe: first the count, then the bucket the latency  *)
(* falls into.  Only the count knows of one above the last bound.          *)
ObserveCount(h) == histogram' = [histogram EXCEPT ![h].count = @ + 1]

ObserveBucket(h, b) ==
  histogram' = IF b > Buckets THEN histogram
                              ELSE [histogram EXCEPT ![h].bucket[b] = @ + 1]

(* The counters, in the order in which newEngineMetrics registers them;    *)
(* the two histograms come after them.                                     *)
Registered == <<"puts", "deletes", "gets", "hits", "misses", "scans", "opened">>

(* Faulty variant: a histogram whose count is loaded before its buckets. *)
CountLoadedFirst(h) ==
  <<<<h, Buckets + 1>>>> \o [b \in 1 .. Buckets |-> <<h, b>>]

(* A histogram loads its buckets in order and its count after them. *)
LoadsOf(h) == [b \in 1 .. Buckets + 1 |-> <<h, b>>]

(* The loads that render a page. *)
Loads ==
  [i \in DOMAIN Registered |-> <<Registered[i], 0>>] \o LoadsOf("write") \o LoadsOf("get")

Value(load) ==
  CASE load[1] \in Counters -> counter[load[1]]
    [] load[2] \in 1 .. Buckets -> histogram[load[1]].bucket[load[2]]
    [] OTHER -> histogram[load[1]].count

BeginScrape ==
  /\ ~scraping
  /\ scraping' = TRUE
  /\ page' = << >>
  /\ UNCHANGED <<counter, histogram, gauge>>

(* One load of Render; the page is complete after the last. *)
Render ==
  /\ scraping
  /\ page' = Append(page, Value(Loads[Len(page) + 1]))
  /\ scraping' = (Len(page') < Len(Loads))
  /\ UNCHANGED <<counter, histogram, gauge>>

(* What a complete page says of a metric. *)
Shown(m, part) == page[CHOOSE i \in DOMAIN Loads : Loads[i] = <<m, part>>]

(* Every complete page makes sense to whoever reads it, although nothing   *)
(* is locked while it is rendered: the buckets of a histogram never add up *)
(* to more than its +Inf bucket, and no call is counted by putTotal,       *)
(* deleteTotal or getTotal that its latency histogram does not know of.    *)
PagesAreConsistent ==
  Len(page) = Len(Loads) =>
    /\ \A h \in Latencies :
         SumFunction([b \in 1 .. Buckets |-> Shown(h, b)]) <= Shown(h, Buckets + 1)
    /\ Shown("puts", 0) + Shown("deletes", 0) <= Shown("write", Buckets + 1)
    /\ Shown("gets", 0) <= Shown("get", Buckets + 1)
=============================================================================
