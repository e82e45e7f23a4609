---------------------------- MODULE MetricsProofs ----------------------------
(***************************************************************************)
(* The numbers of the process, for any number of clients and any workload: *)
(* the gauges, the pages of metrics and the benchmark's totals say what    *)
(* the engine did.                                                         *)
(***************************************************************************)
EXTENDS ServeProofs

\* ---- The Gauges of the Tables ----

\* While a call of Stats sets the gauges it holds the lock: the tables do not
\* change, and whatever is set by now, by it or by another, is what they are.
GaugeInv ==
  /\ GaugesAgree
  /\ \A a \in Actors : call[a].pc = "level" =>
       /\ gauge.sstables = SumFunction(level)
       /\ \A j \in Levels : j < call[a].at => gauge.level[j] = level[j]

\* Steps that leave the gauges and the calls that set them alone.
LEMMA GaugesRest ==
  ASSUME GaugeInv, gauge'.sstables = gauge.sstables, gauge'.level = gauge.level,
         level' = level \/ (Readers = {} /\ call' = call),
         \A b \in Actors : \/ call'[b] = call[b]
                           \/ call[b].pc # "level" /\ call'[b].pc # "level"
  PROVE  GaugeInv'
<1>1. \A b \in Actors : call'[b].pc = "level" => call'[b] = call[b] /\ level' = level
  BY Zenon DEF Readers
<1>2. GaugesAgree'
  BY Zenon DEF GaugeInv, GaugesAgree
<1>3. \A a \in Actors : call'[a].pc = "level" =>
        /\ gauge'.sstables = SumFunction(level')
        /\ \A j \in Levels : j < call'[a].at => gauge'.level[j] = level'[j]
  BY <1>1 DEF GaugeInv
<1> QED BY <1>2, <1>3, Zenon DEF GaugeInv, Levels

\* Every step keeps GaugeInv.
LEMMA GaugeInvStep ==
  ASSUME ServeInv, GaugeInv, [Next]_vars
  PROVE  GaugeInv'
<1>1. LogInv /\ CallsInv /\ Valued /\ ConsoleInv /\ call \in [Actors -> CallRecord]
      /\ gauge \in Gauges /\ gauge.level \in [Levels -> Int] /\ level \in [Levels -> Int]
  BY Zenon DEF ServeInv, LogInv, Valued, Gauges
<1>2. level' = level \/ (Readers = {} /\ call' = call)
  BY <1>1, LevelMoves, Zenon
<1>3. ASSUME NEW a \in Actors, EngineStep(a) PROVE GaugeInv'
  <2>1. /\ CallStep(a) /\ Shape(call[a]) /\ call[a] \in CallRecord
        /\ \A b \in Actors : b # a => call'[b] = call[b]
    BY <1>1, <1>3, CallStepFrame, Zenon DEF EngineStep, CallsInv
  <2>2. CASE SetTotal(a)
    <3>1. /\ gauge'.sstables = SumFunction(level) /\ gauge'.level = gauge.level /\ level' = level
          /\ call'[a].pc = "level" /\ call'[a].at = 1
      BY <1>1, <2>1, <2>2, Zenon DEF SetTotal, engineVars, Gauges, CallRecord
    <3>2. \A j \in Levels : ~ (j < 1)
      BY DEF Levels
    <3>3. \A b \in Actors : call'[b].pc = "level" =>
            /\ gauge'.sstables = SumFunction(level')
            /\ \A j \in Levels : j < call'[b].at => gauge'.level[j] = level'[j]
      BY <2>1, <3>1, <3>2 DEF GaugeInv
    <3>4. GaugesAgree'
      BY <3>1, Zenon DEF GaugesAgree
    <3> QED BY <3>3, <3>4, Zenon DEF GaugeInv, Levels
  <2>3. CASE SetLevel(a)
    <3>1. PICK n \in Levels : n = call[a].at
      BY <2>1, <2>3, Zenon DEF SetLevel, Shape
    <3>2. /\ gauge.sstables = SumFunction(level)
          /\ \A j \in Levels : j < n => gauge.level[j] = level[j]
      BY <2>3, <3>1, Zenon DEF SetLevel, GaugeInv
    <3>3. /\ gauge'.sstables = gauge.sstables /\ level' = level
          /\ gauge'.level = [gauge.level EXCEPT ![n] = level[n]]
      BY <1>1, <2>3, <3>1, Zenon DEF SetLevel, engineVars, Gauges
    <3>4. /\ gauge'.level \in [Levels -> Int] /\ gauge'.level[n] = level[n]
          /\ \A j \in Levels : j # n => gauge'.level[j] = gauge.level[j]
      BY <1>1, <3>3, Zenon
    <3>5. \/ n < MaxLevels /\ call'[a].at = n + 1
          \/ ~ (n < MaxLevels) /\ call'[a].pc = "done"
      BY <2>1, <2>3, <3>1, <1>1 DEF SetLevel, CallRecord
    <3>6. ASSUME NEW b \in Actors, call'[b].pc = "level"
          PROVE  /\ gauge'.sstables = SumFunction(level')
                 /\ \A j \in Levels : j < call'[b].at => gauge'.level[j] = level'[j]
      <4>1. CASE b = a
        <5>1. call'[a].at = n + 1
          BY <3>5, <3>6, <4>1, Zenon
        <5>2. \A j \in Levels : j < n + 1 => j < n \/ j = n
          BY <3>1 DEF Levels
        <5> QED BY <3>2, <3>3, <3>4, <4>1, <5>1, <5>2
      <4>2. CASE b # a
        BY <2>1, <3>2, <3>3, <3>4, <3>6, <4>2, Zenon DEF GaugeInv
      <4> QED BY <4>1, <4>2, Zenon
    <3>7. GaugesAgree'
      <4>1. CASE n < MaxLevels
        <5>1. call'[a].pc = "level"
          BY <1>1, <2>1, <2>3, <3>1, <4>1 DEF SetLevel, CallRecord
        <5> QED BY <5>1, Zenon DEF GaugesAgree
      <4>2. CASE ~ (n < MaxLevels)
        <5>1. \A j \in Levels : j < n \/ j = n
          BY <3>1, <4>2, MetricsAssumption DEF Levels
        <5>2. \A j \in Levels : gauge'.level[j] = level[j]
          BY <3>2, <3>4, <5>1
        <5>3. gauge'.level = level
          BY <1>1, <3>4, <5>2
        <5> QED BY <3>2, <3>3, <5>3, Zenon DEF GaugesAgree
      <4> QED BY <4>1, <4>2, Zenon
    <3> QED BY <3>6, <3>7, Zenon DEF GaugeInv, Levels
  <2>4. CASE \/ Enter(a) \/ DoWrite(a) \/ DoRead(a) \/ Observe(a) \/ Count(a)
             \/ OpenSnapshot(a) \/ CloseSnapshot(a)
    <3>1. gauge'.sstables = gauge.sstables /\ gauge'.level = gauge.level
      <4>1. CASE Enter(a) \/ DoWrite(a) \/ DoRead(a) \/ Observe(a) \/ Count(a)
        BY <4>1, Zenon DEF Enter, DoWrite, DoRead, Observe, Count, metricVars
      <4>2. CASE OpenSnapshot(a) \/ CloseSnapshot(a)
        BY <1>1, <4>2, Zenon DEF OpenSnapshot, CloseSnapshot, Gauges
      <4> QED BY <2>4, <4>1, <4>2
    <3>2. call[a].pc # "level" /\ call'[a].pc # "level"
      BY <1>1, <2>4 DEF Enter, DoWrite, DoRead, Observe, Count, OpenSnapshot, CloseSnapshot, Goto,
         Finish, CallRecord, Counted
    <3> QED BY <1>2, <2>1, <3>1, <3>2, GaugesRest
  <2> QED BY <2>1, <2>2, <2>3, <2>4, Zenon DEF CallStep
<1>4. CASE Gone
  <2>1. gauge' = Zero.gauge /\ call' = [a \in Actors |-> NoCall]
    BY <1>4, Zenon DEF Gone
  <2>2. \A a \in Actors : call'[a].pc # "level"
    BY <2>1, NoCallTyped, Zenon
  <2>3. PICK g \in [Levels -> Int] : g = gauge'.level /\ \A l \in Levels : g[l] = 0
    BY <2>1, ZeroValues, Zenon DEF Gauges
  <2>4. SumFunction(g) = 0
    BY <2>3, LevelsFinite, SumZero
  <2>5. GaugesAgree'
    BY <2>1, <2>3, <2>4, ZeroValues, Zenon DEF GaugesAgree
  <2> QED BY <2>2, <2>5, Zenon DEF GaugeInv
<1>5. CASE Outside
  <2>1. \A b \in Actors : Between(b)
    BY <1>5, Zenon DEF Outside
  <2>2. \A op \in AllOps \ {"none"} : Invoked(op).pc # "level"
    BY <1>1, InvokedTyped, Zenon DEF LogInv
  <2>3. \A b \in Actors : call'[b] = call[b] \/ (call[b].pc # "level" /\ call'[b].pc # "level")
    BY <2>1, <2>2, NoCallTyped, Zenon DEF Between
  <2> QED BY <1>2, <1>5, <2>3, GaugesRest DEF Outside
<1> QED BY <1>1, <1>3, <1>4, <1>5, StepKinds

\* Once every call of Stats has returned, the gauge of all tables agrees with
\* the gauges of the levels, whatever the number of levels, however calls of
\* Stats overlap and flushes and compactions come between them (engine.go's
\* Stats, under the read lock).
THEOREM GaugesAgreeAlways == Spec => []GaugesAgree
<1>1. Init => GaugeInv
  <2> SUFFICES ASSUME Init PROVE GaugeInv
    BY Zenon
  <2>1. gauge = Zero.gauge /\ \A a \in Actors : call[a].pc # "level"
    BY NoCallTyped, Zenon DEF Init, InitMetrics, InitCalls
  <2>2. PICK g \in [Levels -> Int] : g = gauge.level /\ \A l \in Levels : g[l] = 0
    BY <2>1, ZeroValues, Zenon DEF Gauges
  <2>3. SumFunction(g) = 0
    BY <2>2, LevelsFinite, SumZero
  <2> QED BY <2>1, <2>2, <2>3, ZeroValues DEF GaugeInv, GaugesAgree
<1>2. ServeInv /\ GaugeInv /\ [Next]_vars => GaugeInv'
  BY GaugeInvStep, Zenon
<1>3. GaugeInv => GaugesAgree
  BY Zenon DEF GaugeInv
<1> QED BY <1>1, <1>2, <1>3, ServeInvAlways, PTL DEF Spec

\* ---- What a Call Does to the Metrics ----

\* A call that is counted takes four steps, the last one only if it is a get
\* that came to an answer.
MeasureStep(a) ==
  /\ call[a].pc = "observe" /\ call'[a].pc = "bucket"
  /\ call'[a].res = call[a].res /\ counter' = counter
  /\ \A h \in Latencies :
       /\ histogram'[h].bucket = histogram[h].bucket
       /\ histogram'[h].count = histogram[h].count + (IF h = Latency(call[a].op) THEN 1 ELSE 0)

BucketStep(a) ==
  /\ call[a].pc = "bucket" /\ call'[a].pc = "total"
  /\ call'[a].res = call[a].res /\ counter' = counter
  /\ \A h \in Latencies :
       /\ histogram'[h].count = histogram[h].count
       /\ \/ histogram'[h].bucket = histogram[h].bucket
          \/ /\ h = Latency(call[a].op)
             /\ \E b \in 1 .. Buckets :
                  histogram'[h].bucket = [histogram[h].bucket EXCEPT ![b] = @ + 1]

CounterOf(op) == IF op = "put" THEN "puts" ELSE IF op = "delete" THEN "deletes" ELSE "gets"

TotalStep(a) ==
  /\ call[a].pc = "total"
  /\ call'[a].pc = IF call[a].op = "get" /\ call[a].res \in {"ok", "notfound"}
                   THEN "outcome" ELSE "done"
  /\ call'[a].res = call[a].res /\ histogram' = histogram
  /\ counter' = [counter EXCEPT ![CounterOf(call[a].op)] = @ + 1]

OutcomeStep(a) ==
  /\ call[a].pc = "outcome" /\ call'[a].pc = "done"
  /\ call'[a].res = call[a].res /\ histogram' = histogram
  /\ counter' = [counter EXCEPT ![IF call[a].res = "ok" THEN "hits" ELSE "misses"] = @ + 1]

\* All other steps of a call.
QuietStep(a) ==
  /\ call[a].pc \notin {"observe", "bucket", "total", "outcome", "done"}
  /\ call'[a].pc \notin {"bucket", "total", "outcome"}
  /\ call'[a].pc = "done" => call[a].op \notin Writes \cup {"get"}
  /\ histogram' = histogram
  /\ \/ counter' = counter
     \/ \E k \in {"scans", "opened"} : counter' = [counter EXCEPT ![k] = @ + 1]

\* The steps of a call, by what they do to the counters and the histograms.
LEMMA MetricSteps ==
  ASSUME LogInv, CallsInv, Valued, NEW a \in Actors, CallStep(a)
  PROVE  /\ call'[a].op = call[a].op
         /\ MeasureStep(a) \/ BucketStep(a) \/ TotalStep(a) \/ OutcomeStep(a) \/ QuietStep(a)
<1>1. /\ call \in [Actors -> CallRecord] /\ call[a] \in CallRecord /\ Shape(call[a])
      /\ call'[a].op = call[a].op
  BY CallStepShape, Zenon DEF LogInv, CallsInv
<1>2. histogram \in [Latencies -> Histogram] /\ \A h \in Latencies : histogram[h] \in Histogram
  BY Zenon DEF Valued
<1>3. CASE Enter(a)
  <2>1. /\ call[a].pc = "enter" /\ call'[a].pc \in {"work", Counted(call[a].op)}
        /\ histogram' = histogram /\ (counter' = counter \/ Inc("scans"))
    BY <1>1, <1>3 DEF Enter, Goto, Finish, CallRecord
  <2>2. /\ Counted(call[a].op) \in {"observe", "done"}
        /\ Counted(call[a].op) = "done" => call[a].op \notin Writes \cup {"get"}
    BY Zenon DEF Counted
  <2> QED BY <1>1, <2>1, <2>2, Zenon DEF QuietStep, Inc
<1>4. CASE DoWrite(a) \/ DoRead(a)
  <2>1. histogram' = histogram /\ counter' = counter
    BY <1>4, Zenon DEF DoWrite, DoRead, metricVars
  <2>2. /\ call[a].pc = "work"
        /\ \/ call'[a].pc \in {"observe", "register"}
           \/ call'[a].pc = "done" /\ call[a].op = "scan"
    BY <1>1, <1>4 DEF DoWrite, DoRead, Finish, CallRecord
  <2> QED BY <1>1, <2>1, <2>2, Zenon DEF QuietStep, Writes
<1>5. CASE SetTotal(a) \/ SetLevel(a)
  <2>1. histogram' = histogram /\ counter' = counter
    BY <1>5, Zenon DEF SetTotal, SetLevel
  <2>2. /\ call[a].pc \in {"work", "level"} /\ call'[a].pc \in {"level", "done"}
        /\ call[a].op = "stats"
    BY <1>1, <1>5 DEF SetTotal, SetLevel, CallRecord, Shape
  <2> QED BY <1>1, <2>1, <2>2, Zenon DEF QuietStep, Writes
<1>6. CASE OpenSnapshot(a) \/ CloseSnapshot(a)
  <2>1. histogram' = histogram /\ (counter' = counter \/ Inc("opened"))
    BY <1>6, Zenon DEF OpenSnapshot, CloseSnapshot
  <2>2. /\ call[a].pc \in {"register", "opened", "gaugeUp", "release", "gaugeDown"}
        /\ call'[a].pc \in {"opened", "gaugeUp", "gaugeDown", "done"}
        /\ call[a].op \in {"snapshot", "release"}
    BY <1>1, <1>6 DEF OpenSnapshot, CloseSnapshot, Goto, Finish, CallRecord, Shape
  <2> QED BY <1>1, <2>1, <2>2, Zenon DEF QuietStep, Writes, Inc
<1>7. CASE Observe(a)
  <2>1. counter' = counter /\ call'[a].res = call[a].res
    BY <1>1, <1>7 DEF Observe, Goto, CallRecord
  <2>2. PICK h \in Latencies : h = Latency(call[a].op)
    BY Zenon DEF Latency, Latencies
  <2>3. CASE call[a].pc = "observe"
    <3>1. call'[a].pc = "bucket" /\ ObserveCount(h)
      BY <1>1, <1>7, <2>2, <2>3 DEF Observe, Goto, CallRecord
    <3>2. PICK r : r = [histogram[h] EXCEPT !.count = @ + 1]
      BY Zenon
    <3>3. r.bucket = histogram[h].bucket /\ r.count = histogram[h].count + 1
      BY <1>2, <3>2, Zenon DEF Histogram
    <3>4. histogram' = [histogram EXCEPT ![h] = r]
      BY <1>2, <3>1, <3>2 DEF ObserveCount
    <3>5. /\ histogram'[h] = r
          /\ \A i \in Latencies : i # h => histogram'[i] = histogram[i]
      BY <1>2, <3>4, Zenon
    <3>6. \A i \in Latencies : histogram[i].count + 0 = histogram[i].count
      BY <1>2 DEF Histogram
    <3>7. ASSUME NEW i \in Latencies
          PROVE  /\ histogram'[i].bucket = histogram[i].bucket
                 /\ histogram'[i].count =
                      histogram[i].count + (IF i = Latency(call[a].op) THEN 1 ELSE 0)
      <4>1. CASE i = h
        BY <2>2, <3>3, <3>5, <4>1
      <4>2. CASE i # h
        BY <2>2, <3>5, <3>6, <4>2
      <4> QED BY <4>1, <4>2, Zenon
    <3> QED BY <1>1, <2>1, <2>3, <3>1, <3>7, Zenon DEF MeasureStep
  <2>4. CASE call[a].pc # "observe"
    <3>1. call[a].pc = "bucket" /\ call'[a].pc = "total" /\ \E b \in 1 .. Buckets + 1 : ObserveBucket(h, b)
      BY <1>1, <1>7, <2>2, <2>4 DEF Observe, Goto, CallRecord
    <3>2. PICK b \in 1 .. Buckets + 1 : ObserveBucket(h, b)
      BY <3>1, Zenon
    <3>3. CASE b > Buckets
      <4>1. histogram' = histogram
        BY <3>2, <3>3, Zenon DEF ObserveBucket
      <4> QED BY <1>1, <2>1, <3>1, <4>1, Zenon DEF BucketStep
    <3>4. CASE ~ (b > Buckets)
      <4>1. b \in 1 .. Buckets
        BY <3>4, MetricsAssumption
      <4>2. PICK k \in [1 .. Buckets -> Nat] : k = histogram[h].bucket
        BY <1>2, Zenon DEF Histogram
      <4>3. PICK n : n = [k EXCEPT ![b] = @ + 1]
        BY Zenon
      <4>4. PICK r : r = [histogram[h] EXCEPT !.bucket = n]
        BY Zenon
      <4>5. r.bucket = n /\ r.count = histogram[h].count
        BY <1>2, <4>4 DEF Histogram
      <4>6. histogram' = [histogram EXCEPT ![h] = r]
        BY <1>2, <3>2, <3>4, <4>2, <4>3, <4>4 DEF ObserveBucket
      <4>7. histogram'[h] = r /\ \A i \in Latencies : i # h => histogram'[i] = histogram[i]
        BY <1>2, <4>6, Zenon
      <4>8. histogram'[h].bucket = [histogram[h].bucket EXCEPT ![b] = @ + 1]
        BY <4>2, <4>3, <4>5, <4>7
      <4>9. \A i \in Latencies :
              /\ histogram'[i].count = histogram[i].count
              /\ \/ histogram'[i].bucket = histogram[i].bucket
                 \/ i = Latency(call[a].op) /\ \E j \in 1 .. Buckets :
                      histogram'[i].bucket = [histogram[i].bucket EXCEPT ![j] = @ + 1]
        BY <2>2, <4>1, <4>5, <4>7, <4>8, Zenon
      <4> QED BY <1>1, <2>1, <3>1, <4>9, Zenon DEF BucketStep
    <3> QED BY <3>3, <3>4, Zenon
  <2> QED BY <2>3, <2>4, Zenon
<1>8. CASE Count(a)
  <2>1. histogram' = histogram /\ call'[a].res = call[a].res
    BY <1>1, <1>8 DEF Count, Goto, CallRecord
  <2>2. CASE call[a].pc = "total"
    <3>1. call[a].op \in Writes \cup {"get"}
      BY <1>1, <2>2, Zenon DEF Shape
    <3>2. Inc(CounterOf(call[a].op))
      BY <1>8, <2>2, <3>1, Zenon DEF Count, CounterOf, Writes
    <3>3. call'[a].pc = IF call[a].op = "get" /\ call[a].res \in {"ok", "notfound"}
                        THEN "outcome" ELSE "done"
      BY <1>1, <1>8, <2>2 DEF Count, Goto, CallRecord
    <3> QED BY <1>1, <2>1, <2>2, <3>2, <3>3, Zenon DEF TotalStep, Inc
  <2>3. CASE call[a].pc # "total"
    <3>1. /\ call[a].pc = "outcome" /\ call'[a].pc = "done"
          /\ Inc(IF call[a].res = "ok" THEN "hits" ELSE "misses")
      BY <1>1, <1>8, <2>3 DEF Count, Goto, CallRecord
    <3> QED BY <1>1, <2>1, <3>1, Zenon DEF OutcomeStep, Inc
  <2> QED BY <2>2, <2>3, Zenon
<1> QED BY <1>3, <1>4, <1>5, <1>6, <1>7, <1>8, Zenon DEF CallStep

\* ---- Histograms and Counters ----

\* Finitely many goroutines call the engine.
LEMMA ActorsFinite == IsFiniteSet(Actors)
  BY CallsAssumption, FS_AddElement, Zenon DEF Actors

\* How many there are when one element may come or go.
LEMMA OneMoves ==
  ASSUME NEW S, IsFiniteSet(S), NEW A \in SUBSET S, NEW B \in SUBSET S, NEW a \in S,
         \A b \in S : b # a => (b \in A <=> b \in B)
  PROVE  /\ Cardinality(A) \in Nat /\ Cardinality(B) \in Nat
         /\ a \in A /\ a \notin B => Cardinality(B) = Cardinality(A) - 1
         /\ a \notin A /\ a \in B => Cardinality(B) = Cardinality(A) + 1
         /\ (a \in A <=> a \in B) => Cardinality(B) = Cardinality(A)
<1>1. IsFiniteSet(A) /\ IsFiniteSet(B)
  BY FS_Subset, Zenon
<1>2. Cardinality(A) \in Nat /\ Cardinality(B) \in Nat
  BY <1>1, FS_CardinalityType, Zenon
<1>3. ASSUME a \in A, a \notin B PROVE Cardinality(B) = Cardinality(A) - 1
  <2>1. B = A \ {a}
    BY <1>3, Zenon
  <2> QED BY <1>1, <1>3, <2>1, FS_RemoveElement
<1>4. ASSUME a \notin A, a \in B PROVE Cardinality(B) = Cardinality(A) + 1
  <2>1. B = A \cup {a}
    BY <1>4, Zenon
  <2> QED BY <1>1, <1>4, <2>1, FS_AddElement
<1>5. ASSUME a \in A <=> a \in B PROVE Cardinality(B) = Cardinality(A)
  <2>1. A = B
    BY <1>5
  <2> QED BY <2>1, Zenon
<1> QED BY <1>2, <1>3, <1>4, <1>5

\* The calls that a histogram has counted and not put into a bucket, and the
\* ones that it has counted and their counter has not.
Measured(h) == {a \in Actors : call[a].pc = "bucket" /\ Latency(call[a].op) = h}
Uncounted(ops) == {a \in Actors : call[a].pc \in {"bucket", "total"} /\ call[a].op \in ops}

HistogramInv ==
  /\ \A h \in Latencies :
       SumFunction(histogram[h].bucket) + Cardinality(Measured(h)) <= histogram[h].count
  /\ counter["puts"] + counter["deletes"] + Cardinality(Uncounted(Writes))
       <= histogram["write"].count
  /\ counter["gets"] + Cardinality(Uncounted({"get"})) <= histogram["get"].count

\* The sum of a histogram's buckets grows by one with a bucket.
LEMMA BucketSums ==
  ASSUME Valued, NEW h \in Latencies
  PROVE  /\ histogram[h].bucket \in [1 .. Buckets -> Int] /\ histogram[h].count \in Nat
         /\ SumFunction(histogram[h].bucket) \in Int
         /\ \A b \in 1 .. Buckets :
              SumFunction([histogram[h].bucket EXCEPT ![b] = @ + 1])
                = SumFunction(histogram[h].bucket) + 1
         /\ IsFiniteSet(1 .. Buckets)
<1>1. 1 \in Int /\ Buckets \in Int
  BY MetricsAssumption
<1>2. IsFiniteSet(1 .. Buckets)
  BY <1>1, FS_Interval, Zenon
<1>3. PICK f \in [1 .. Buckets -> Nat] : f = histogram[h].bucket
  BY Zenon DEF Valued, Histogram
<1>4. f \in [1 .. Buckets -> Int] /\ histogram[h].count \in Nat
  BY <1>3 DEF Valued, Histogram
<1>5. SumFunction(f) \in Int
  BY <1>2, <1>4, SumType, Zenon
<1>6. \A b \in 1 .. Buckets : SumFunction([f EXCEPT ![b] = @ + 1]) = SumFunction(f) + 1
  BY <1>2, <1>4, SumAddOne, Zenon
<1> QED BY <1>2, <1>3, <1>4, <1>5, <1>6

\* A step of a call, and what it makes of the two kinds of calls.
LEMMA CallSets ==
  ASSUME NEW a \in Actors, \A b \in Actors : b # a => call'[b] = call[b],
         call'[a].op = call[a].op
  PROVE  /\ \A h \in Latencies :
              /\ Cardinality(Measured(h)) \in Nat /\ Cardinality(Measured(h)') \in Nat
              /\ call[a].pc # "bucket" /\ call'[a].pc # "bucket" =>
                   Cardinality(Measured(h)') = Cardinality(Measured(h))
              /\ call[a].pc = "bucket" /\ call'[a].pc # "bucket" =>
                   Cardinality(Measured(h)') =
                     Cardinality(Measured(h)) - (IF h = Latency(call[a].op) THEN 1 ELSE 0)
              /\ call[a].pc # "bucket" /\ call'[a].pc = "bucket" =>
                   Cardinality(Measured(h)') =
                     Cardinality(Measured(h)) + (IF h = Latency(call[a].op) THEN 1 ELSE 0)
         /\ \A ops \in {Writes, {"get"}} :
              /\ Cardinality(Uncounted(ops)) \in Nat /\ Cardinality(Uncounted(ops)') \in Nat
              /\ (call[a].pc \in {"bucket", "total"} <=> call'[a].pc \in {"bucket", "total"}) =>
                   Cardinality(Uncounted(ops)') = Cardinality(Uncounted(ops))
              /\ call[a].pc = "total" /\ call'[a].pc \notin {"bucket", "total"} =>
                   Cardinality(Uncounted(ops)') =
                     Cardinality(Uncounted(ops)) - (IF call[a].op \in ops THEN 1 ELSE 0)
              /\ call[a].pc \notin {"bucket", "total"} /\ call'[a].pc = "bucket" =>
                   Cardinality(Uncounted(ops)') =
                     Cardinality(Uncounted(ops)) + (IF call[a].op \in ops THEN 1 ELSE 0)
<1>1. ASSUME NEW h \in Latencies
      PROVE  /\ Cardinality(Measured(h)) \in Nat /\ Cardinality(Measured(h)') \in Nat
             /\ call[a].pc # "bucket" /\ call'[a].pc # "bucket" =>
                  Cardinality(Measured(h)') = Cardinality(Measured(h))
             /\ call[a].pc = "bucket" /\ call'[a].pc # "bucket" =>
                  Cardinality(Measured(h)') =
                    Cardinality(Measured(h)) - (IF h = Latency(call[a].op) THEN 1 ELSE 0)
             /\ call[a].pc # "bucket" /\ call'[a].pc = "bucket" =>
                  Cardinality(Measured(h)') =
                    Cardinality(Measured(h)) + (IF h = Latency(call[a].op) THEN 1 ELSE 0)
  <2>1. PICK A \in SUBSET Actors : A = Measured(h)
    BY Zenon DEF Measured
  <2>2. PICK B \in SUBSET Actors : B = Measured(h)'
    BY Zenon DEF Measured
  <2>3. \A b \in Actors :
          /\ b \in A <=> call[b].pc = "bucket" /\ Latency(call[b].op) = h
          /\ b \in B <=> call'[b].pc = "bucket" /\ Latency(call'[b].op) = h
    BY <2>1, <2>2, Zenon DEF Measured, Latency, Writes
  <2>4. \A b \in Actors : b # a => (b \in A <=> b \in B)
    BY <2>3, Zenon
  <2>5. /\ Cardinality(A) \in Nat /\ Cardinality(B) \in Nat
        /\ a \in A /\ a \notin B => Cardinality(B) = Cardinality(A) - 1
        /\ a \notin A /\ a \in B => Cardinality(B) = Cardinality(A) + 1
        /\ (a \in A <=> a \in B) => Cardinality(B) = Cardinality(A)
    BY <2>4, ActorsFinite, OneMoves
  <2> QED BY <2>1, <2>2, <2>3, <2>5
<1>2. ASSUME NEW ops \in {Writes, {"get"}}
      PROVE  /\ Cardinality(Uncounted(ops)) \in Nat /\ Cardinality(Uncounted(ops)') \in Nat
             /\ (call[a].pc \in {"bucket", "total"} <=> call'[a].pc \in {"bucket", "total"}) =>
                  Cardinality(Uncounted(ops)') = Cardinality(Uncounted(ops))
             /\ call[a].pc = "total" /\ call'[a].pc \notin {"bucket", "total"} =>
                  Cardinality(Uncounted(ops)') =
                    Cardinality(Uncounted(ops)) - (IF call[a].op \in ops THEN 1 ELSE 0)
             /\ call[a].pc \notin {"bucket", "total"} /\ call'[a].pc = "bucket" =>
                  Cardinality(Uncounted(ops)') =
                    Cardinality(Uncounted(ops)) + (IF call[a].op \in ops THEN 1 ELSE 0)
  <2>1. PICK A \in SUBSET Actors : A = Uncounted(ops)
    BY Zenon DEF Uncounted
  <2>2. PICK B \in SUBSET Actors : B = Uncounted(ops)'
    BY Zenon DEF Uncounted
  <2>3. \A b \in Actors :
          /\ b \in A <=> call[b].pc \in {"bucket", "total"} /\ call[b].op \in ops
          /\ b \in B <=> call'[b].pc \in {"bucket", "total"} /\ call'[b].op \in ops
    BY <2>1, <2>2, Zenon DEF Uncounted
  <2>4. \A b \in Actors : b # a => (b \in A <=> b \in B)
    BY <2>3, Zenon
  <2>5. /\ Cardinality(A) \in Nat /\ Cardinality(B) \in Nat
        /\ a \in A /\ a \notin B => Cardinality(B) = Cardinality(A) - 1
        /\ a \notin A /\ a \in B => Cardinality(B) = Cardinality(A) + 1
        /\ (a \in A <=> a \in B) => Cardinality(B) = Cardinality(A)
    BY <2>4, ActorsFinite, OneMoves
  <2> QED BY <2>1, <2>2, <2>3, <2>5
<1> QED BY <1>1, <1>2, Zenon

\* A process that begins, or that is gone, has measured nothing.
NothingMeasured ==
  /\ counter = Zero.counter /\ histogram = Zero.histogram
  /\ \A a \in Actors : call[a] = NoCall

\* HistogramInv holds when nothing has been measured.
LEMMA ZeroHistograms == Valued /\ NothingMeasured => HistogramInv
<1> SUFFICES ASSUME Valued, NothingMeasured PROVE HistogramInv
  BY Zenon
<1>1. \A h \in Latencies : Measured(h) = {}
  BY NoCallTyped, Zenon DEF NothingMeasured, Measured
<1>2. \A ops : Uncounted(ops) = {}
  BY NoCallTyped, Zenon DEF NothingMeasured, Uncounted
<1>3. /\ counter["puts"] = 0 /\ counter["deletes"] = 0 /\ counter["gets"] = 0
      /\ \A h \in Latencies : histogram[h].count = 0
  BY ZeroValues, Zenon DEF NothingMeasured, Counters
<1>4. ASSUME NEW h \in Latencies PROVE SumFunction(histogram[h].bucket) = 0
  <2>1. PICK f \in [1 .. Buckets -> Int] : f = histogram[h].bucket
    BY BucketSums, Zenon
  <2>2. \A b \in 1 .. Buckets : f[b] = 0
    BY <2>1, ZeroValues, Zenon DEF NothingMeasured
  <2> QED BY <2>1, <2>2, BucketSums, SumZero, Zenon
<1> QED BY <1>1, <1>2, <1>3, <1>4, FS_EmptySet DEF HistogramInv, Latencies

\* Every step keeps HistogramInv.
LEMMA HistogramInvStep ==
  ASSUME ServeInv, HistogramInv, [Next]_vars
  PROVE  HistogramInv'
<1>1. /\ LogInv /\ CallsInv /\ Valued /\ ConsoleInv
      /\ counter \in [Counters -> Nat] /\ Writes \in {Writes, {"get"}} /\ {"get"} \in {Writes, {"get"}}
      /\ {"write", "get", "puts", "deletes", "gets"} \subseteq Latencies \cup Counters
      /\ "write" \in Latencies /\ "get" \in Latencies
  BY Zenon DEF ServeInv, Valued, Latencies, Counters
<1>v. Valued'
  BY <1>1, ValuedStep
<1>2. ASSUME NEW a \in Actors, EngineStep(a) PROVE HistogramInv'
  <2>1. /\ CallStep(a) /\ call'[a].op = call[a].op
        /\ \A b \in Actors : b # a => call'[b] = call[b]
        /\ MeasureStep(a) \/ BucketStep(a) \/ TotalStep(a) \/ OutcomeStep(a) \/ QuietStep(a)
    BY <1>1, <1>2, CallStepFrame, MetricSteps, ZenonT(30) DEF EngineStep
  <2> DEFINE M(h) == Cardinality(Measured(h))
             U(ops) == Cardinality(Uncounted(ops))
             c == counter
             S(h) == SumFunction(histogram[h].bucket)
             N(h) == histogram[h].count
  <2>2. \A h \in Latencies : M(h) \in Nat /\ M(h)' \in Nat /\ S(h) \in Int /\ N(h) \in Nat
    BY <1>1, <2>1, CallSets, BucketSums, Zenon
  <2>3. U(Writes) \in Nat /\ U(Writes)' \in Nat /\ U({"get"}) \in Nat /\ U({"get"})' \in Nat
    BY <1>1, <2>1, CallSets, Zenon
  <2>4. /\ c["puts"] \in Nat /\ c["deletes"] \in Nat /\ c["gets"] \in Nat
    BY <1>1, Zenon DEF Counters
  <2>5. /\ \A h \in Latencies : S(h) + M(h) <= N(h)
        /\ c["puts"] + c["deletes"] + U(Writes) <= N("write")
        /\ c["gets"] + U({"get"}) <= N("get")
    BY Zenon DEF HistogramInv
  <2>6. SUFFICES /\ \A h \in Latencies : S(h)' + M(h)' <= N(h)'
                 /\ c'["puts"] + c'["deletes"] + U(Writes)' <= N("write")'
                 /\ c'["gets"] + U({"get"})' <= N("get")'
    BY Zenon DEF HistogramInv
  <2>7. CASE MeasureStep(a)
    <3>1. /\ call[a].pc = "observe" /\ call'[a].pc = "bucket" /\ c' = c
          /\ \A h \in Latencies : S(h)' = S(h) /\ N(h)' = N(h) + (IF h = Latency(call[a].op) THEN 1 ELSE 0)
      BY <2>7, Zenon DEF MeasureStep
    <3>2. /\ \A h \in Latencies : M(h)' = M(h) + (IF h = Latency(call[a].op) THEN 1 ELSE 0)
          /\ U(Writes)' = U(Writes) + (IF call[a].op \in Writes THEN 1 ELSE 0)
          /\ U({"get"})' = U({"get"}) + (IF call[a].op \in {"get"} THEN 1 ELSE 0)
      BY <1>1, <2>1, <3>1, CallSets, Zenon
    <3>3. /\ (call[a].op \in Writes => Latency(call[a].op) = "write")
          /\ (call[a].op = "get" => Latency(call[a].op) = "get")
      BY Zenon DEF Latency, Writes
    <3> HIDE DEF M, U, c, S, N
    <3>4. \A h \in Latencies : S(h)' + M(h)' <= N(h)'
      BY <2>2, <2>5, <3>1, <3>2
    <3>5. c'["puts"] + c'["deletes"] + U(Writes)' <= N("write")'
      <4>1. CASE call[a].op \in Writes
        BY <1>1, <2>2, <2>3, <2>4, <2>5, <3>1, <3>2, <3>3, <4>1
      <4>2. CASE call[a].op \notin Writes
        BY <1>1, <2>2, <2>3, <2>4, <2>5, <3>1, <3>2, <3>3, <4>2
      <4> QED BY <4>1, <4>2, Zenon
    <3>6. c'["gets"] + U({"get"})' <= N("get")'
      <4>1. CASE call[a].op = "get"
        BY <1>1, <2>2, <2>3, <2>4, <2>5, <3>1, <3>2, <3>3, <4>1
      <4>2. CASE call[a].op # "get"
        BY <1>1, <2>2, <2>3, <2>4, <2>5, <3>1, <3>2, <3>3, <4>2
      <4> QED BY <4>1, <4>2
    <3> QED BY <3>4, <3>5, <3>6
  <2>8. CASE BucketStep(a)
    <3>1. /\ call[a].pc = "bucket" /\ call'[a].pc = "total" /\ c' = c
          /\ \A h \in Latencies : N(h)' = N(h)
      BY <2>8, Zenon DEF BucketStep
    <3>2. \A h \in Latencies : S(h)' = S(h) \/ (h = Latency(call[a].op) /\ S(h)' = S(h) + 1)
      <4>1. TAKE h \in Latencies
      <4>2. CASE histogram'[h].bucket = histogram[h].bucket
        BY <4>2, Zenon
      <4>3. CASE histogram'[h].bucket # histogram[h].bucket
        <5>1. PICK b \in 1 .. Buckets :
                histogram'[h].bucket = [histogram[h].bucket EXCEPT ![b] = @ + 1]
          BY <2>8, <4>3, Zenon DEF BucketStep
        <5>2. SumFunction([histogram[h].bucket EXCEPT ![b] = @ + 1])
                = SumFunction(histogram[h].bucket) + 1
          BY <1>1, BucketSums, Zenon
        <5>3. h = Latency(call[a].op)
          BY <2>8, <4>3, Zenon DEF BucketStep
        <5> QED BY <5>1, <5>2, <5>3, Zenon
      <4> QED BY <4>2, <4>3, Zenon
    <3>3. /\ \A h \in Latencies : M(h)' = M(h) - (IF h = Latency(call[a].op) THEN 1 ELSE 0)
          /\ U(Writes)' = U(Writes) /\ U({"get"})' = U({"get"})
      BY <1>1, <2>1, <3>1, CallSets, Zenon
    <3> HIDE DEF M, U, c, S, N
    <3>4. ASSUME NEW h \in Latencies PROVE S(h)' + M(h)' <= N(h)'
      <4>1. CASE h = Latency(call[a].op)
        BY <2>2, <2>5, <3>1, <3>2, <3>3, <4>1
      <4>2. CASE h # Latency(call[a].op)
        BY <2>2, <2>5, <3>1, <3>2, <3>3, <4>2
      <4> QED BY <4>1, <4>2
    <3> QED BY <1>1, <2>5, <3>1, <3>3, <3>4
  <2>9. CASE TotalStep(a)
    <3>1. /\ call[a].pc = "total" /\ call'[a].pc \notin {"bucket", "total"}
          /\ \A h \in Latencies : N(h)' = N(h) /\ S(h)' = S(h)
          /\ c' = [c EXCEPT ![CounterOf(call[a].op)] = @ + 1]
      BY <2>9, Zenon DEF TotalStep
    <3>2. /\ \A h \in Latencies : M(h)' = M(h)
          /\ U(Writes)' = U(Writes) - (IF call[a].op \in Writes THEN 1 ELSE 0)
          /\ U({"get"})' = U({"get"}) - (IF call[a].op \in {"get"} THEN 1 ELSE 0)
      BY <1>1, <2>1, <3>1, CallSets, ZenonT(30)
    <3>3. call[a].op \in Writes \cup {"get"}
      BY <1>1, <3>1, Zenon DEF CallsInv, Shape
    <3>4. /\ call[a].op \in Writes => c'["puts"] + c'["deletes"] = c["puts"] + c["deletes"] + 1
                                      /\ c'["gets"] = c["gets"]
          /\ call[a].op = "get" => c'["gets"] = c["gets"] + 1 /\ c'["puts"] = c["puts"]
                                   /\ c'["deletes"] = c["deletes"]
      BY <1>1, <2>4, <3>1 DEF CounterOf, Writes, Counters
    <3> HIDE DEF M, U, c, S, N
    <3>5. CASE call[a].op \in Writes
      <4>1. call[a].op \notin {"get"}
        BY <3>5, Zenon DEF Writes
      <4> QED BY <1>1, <2>2, <2>3, <2>4, <2>5, <3>1, <3>2, <3>4, <3>5, <4>1
    <3>6. CASE call[a].op = "get"
      <4>1. call[a].op \notin Writes
        BY <3>6, Zenon DEF Writes
      <4> QED BY <1>1, <2>2, <2>3, <2>4, <2>5, <3>1, <3>2, <3>4, <3>6, <4>1
    <3> QED BY <3>3, <3>5, <3>6, ZenonT(30)
  <2>10. CASE OutcomeStep(a) \/ QuietStep(a)
    <3>1. /\ call[a].pc \notin {"bucket", "total"} /\ call'[a].pc \notin {"bucket", "total"}
          /\ \A h \in Latencies : N(h)' = N(h) /\ S(h)' = S(h)
      BY <2>10, Zenon DEF OutcomeStep, QuietStep
    <3>2. c'["puts"] = c["puts"] /\ c'["deletes"] = c["deletes"] /\ c'["gets"] = c["gets"]
      BY <1>1, <2>10, Zenon DEF OutcomeStep, QuietStep, Counters
    <3>3. /\ \A h \in Latencies : M(h)' = M(h)
          /\ U(Writes)' = U(Writes) /\ U({"get"})' = U({"get"})
      BY <1>1, <2>1, <3>1, CallSets, Zenon
    <3> HIDE DEF M, U, c, S, N
    <3> QED BY <1>1, <2>5, <3>1, <3>2, <3>3
  <2> QED BY <2>1, <2>7, <2>8, <2>9, <2>10, ZenonT(30)
<1>3. CASE Gone
  <2>1. /\ counter' = Zero.counter /\ histogram' = Zero.histogram
        /\ \A a \in Actors : call'[a] = NoCall
    BY <1>3, GoneCalls, Zenon DEF Gone
  <2>2. NothingMeasured'
    BY <2>1, Zenon DEF NothingMeasured, Zero, Counters, Latencies, Levels, NoCall
  <2>3. Valued' /\ NothingMeasured' => HistogramInv'
    BY ZeroHistograms, PTL
  <2> QED BY <1>v, <2>2, <2>3
<1>4. CASE Outside
  <2>1. \A b \in Actors : Between(b)
    BY <1>4, Zenon DEF Outside
  <2>2. \A op \in AllOps \ {"none"} : Invoked(op).pc \notin {"bucket", "total"}
    BY <1>1, InvokedTyped, Zenon DEF LogInv
  <2>3. \A b \in Actors : \/ call'[b] = call[b]
                          \/ /\ call[b].pc \notin {"bucket", "total"}
                             /\ call'[b].pc \notin {"bucket", "total"}
    BY <2>1, <2>2, NoCallTyped DEF Between
  <2>4. \A h \in Latencies : Measured(h)' = Measured(h)
    BY <2>3, Zenon DEF Measured, Latency, Writes
  <2>5. Uncounted(Writes)' = Uncounted(Writes) /\ Uncounted({"get"})' = Uncounted({"get"})
    BY <2>3, Zenon DEF Uncounted, Writes
  <2>6. counter' = counter /\ histogram' = histogram
    BY <1>4, Zenon DEF Outside
  <2> QED BY <2>4, <2>5, <2>6 DEF HistogramInv
<1> QED BY <1>1, <1>2, <1>3, <1>4, StepKinds

\* ---- Pages ----

\* Where the values of a page come from: the counters, the buckets and the
\* count of the writes, the buckets and the count of the gets.
Load == (Counters \cup Latencies) \X Nat
WriteCount == 8 + Buckets
GetCount == 9 + 2 * Buckets

\* Where the elements of a concatenation come from.
LEMMA Concatenation ==
  \A s, t \in Seq(Load) : \A u : u = s \o t =>
    /\ u \in Seq(Load) /\ Len(u) = Len(s) + Len(t)
    /\ \A i \in 1 .. Len(s) : u[i] = s[i]
    /\ \A j \in 1 .. Len(t) : u[Len(s) + j] = t[j]
<1> TAKE s, t \in Seq(Load)
<1> TAKE u
<1> HAVE u = s \o t
<1>1. u \in Seq(Load) /\ Len(u) = Len(s) + Len(t)
  OBVIOUS
<1>2. \A i \in 1 .. Len(s) : u[i] = s[i]
  OBVIOUS
<1>3. \A j \in 1 .. Len(t) : u[Len(s) + j] = t[j]
  OBVIOUS
<1> QED BY <1>1, <1>2, <1>3

\* The loads of a page, by their places.
LEMMA LoadsAre ==
  /\ Loads \in Seq(Load) /\ Len(Loads) = GetCount /\ DOMAIN Loads = 1 .. GetCount
  /\ \A i \in 1 .. 7 : Loads[i] = <<Registered[i], 0>>
  /\ \A b \in 1 .. Buckets + 1 : Loads[7 + b] = <<"write", b>> /\ Loads[WriteCount + b] = <<"get", b>>
<1> DEFINE c == [i \in DOMAIN Registered |-> <<Registered[i], 0>>]
           w == LoadsOf("write")
           g == LoadsOf("get")
<1>b. Buckets \in Nat /\ Buckets + 1 \in Nat
  BY MetricsAssumption
<1>1. DOMAIN Registered = 1 .. 7 /\ \A i \in 1 .. 7 : Registered[i] \in Counters
  BY DEF Registered, Counters
<1>2. c \in [1 .. 7 -> Load] /\ \A i \in 1 .. 7 : c[i] = <<Registered[i], 0>>
  BY <1>1 DEF Load
<1>3. /\ w \in [1 .. Buckets + 1 -> Load] /\ \A b \in 1 .. Buckets + 1 : w[b] = <<"write", b>>
      /\ g \in [1 .. Buckets + 1 -> Load] /\ \A b \in 1 .. Buckets + 1 : g[b] = <<"get", b>>
  BY <1>b DEF LoadsOf, Load, Latencies
<1>4. Loads = (c \o w) \o g
  BY Zenon DEF Loads
<1> HIDE DEF c, w, g
<1>f. \A n \in Nat : \A f \in [1 .. n -> Load] : f \in Seq(Load) /\ Len(f) = n
  OBVIOUS
<1>5. c \in Seq(Load) /\ Len(c) = 7
  BY <1>2, <1>f, Zenon
<1>6. w \in Seq(Load) /\ Len(w) = Buckets + 1 /\ g \in Seq(Load) /\ Len(g) = Buckets + 1
  BY <1>b, <1>3, <1>f
<1>7. PICK cw : cw = c \o w
  BY Zenon
<1>8. /\ cw \in Seq(Load) /\ Len(cw) = 7 + (Buckets + 1)
      /\ \A i \in 1 .. 7 : cw[i] = c[i]
      /\ \A b \in 1 .. Buckets + 1 : cw[7 + b] = w[b]
  <2>1. /\ cw \in Seq(Load) /\ Len(cw) = Len(c) + Len(w)
        /\ \A i \in 1 .. Len(c) : cw[i] = c[i]
        /\ \A j \in 1 .. Len(w) : cw[Len(c) + j] = w[j]
    <3>1. c \in Seq(Load) /\ w \in Seq(Load)
      BY <1>5, <1>6
    <3>2. \A u : u = c \o w =>
            /\ u \in Seq(Load) /\ Len(u) = Len(c) + Len(w)
            /\ \A i \in 1 .. Len(c) : u[i] = c[i]
            /\ \A j \in 1 .. Len(w) : u[Len(c) + j] = w[j]
      BY <3>1, Concatenation, Zenon
    <3> QED BY <1>7, <3>2, Zenon
  <2> QED BY <1>5, <1>6, <2>1, Zenon
<1>w. Len(cw) = WriteCount /\ WriteCount + (Buckets + 1) = GetCount
  BY <1>b, <1>8 DEF WriteCount, GetCount
<1>9. PICK all : all = cw \o g
  BY Zenon
<1>10. /\ all \in Seq(Load) /\ Len(all) = GetCount
       /\ \A i \in 1 .. WriteCount : all[i] = cw[i]
       /\ \A b \in 1 .. Buckets + 1 : all[WriteCount + b] = g[b]
  <2>1. /\ all \in Seq(Load) /\ Len(all) = Len(cw) + Len(g)
        /\ \A i \in 1 .. Len(cw) : all[i] = cw[i]
        /\ \A j \in 1 .. Len(g) : all[Len(cw) + j] = g[j]
    <3>1. cw \in Seq(Load) /\ g \in Seq(Load)
      BY <1>6, <1>8
    <3>2. \A u : u = cw \o g =>
            /\ u \in Seq(Load) /\ Len(u) = Len(cw) + Len(g)
            /\ \A i \in 1 .. Len(cw) : u[i] = cw[i]
            /\ \A j \in 1 .. Len(g) : u[Len(cw) + j] = g[j]
      BY <3>1, Concatenation, Zenon
    <3> QED BY <1>9, <3>2, Zenon
  <2> QED BY <1>6, <1>w, <2>1, Zenon
<1>11. /\ \A i \in 1 .. 7 : i \in 1 .. WriteCount
       /\ \A b \in 1 .. Buckets + 1 : 7 + b \in 1 .. WriteCount
  BY <1>b DEF WriteCount
<1>12. Loads = all
  BY <1>4, <1>7, <1>9
<1>13. Loads \in Seq(Load) /\ Len(Loads) = GetCount
  BY <1>10, <1>12, Zenon
<1>14. DOMAIN Loads = 1 .. GetCount
  BY <1>13
<1>15. ASSUME NEW i \in 1 .. 7 PROVE Loads[i] = <<Registered[i], 0>>
  BY <1>2, <1>8, <1>10, <1>11, <1>12, Zenon
<1>16. ASSUME NEW b \in 1 .. Buckets + 1
       PROVE  Loads[7 + b] = <<"write", b>> /\ Loads[WriteCount + b] = <<"get", b>>
  BY <1>3, <1>8, <1>10, <1>11, <1>12, Zenon
<1> QED BY <1>13, <1>14, <1>15, <1>16, Zenon

\* No two loads are of the same value.
LEMMA LoadsDiffer ==
  /\ \A i \in DOMAIN Loads : i \in 1 .. 7 \/ \E b \in 1 .. Buckets + 1 : i \in {7 + b, WriteCount + b}
  /\ \A i, j \in DOMAIN Loads : Loads[i] = Loads[j] => i = j
<1>b. Buckets \in Nat
  BY MetricsAssumption, Zenon
<1>1. \A i \in 1 .. GetCount : \/ i \in 1 .. 7
                               \/ i - 7 \in 1 .. Buckets + 1
                               \/ i - WriteCount \in 1 .. Buckets + 1
  BY <1>b DEF GetCount, WriteCount
<1>2. \A i \in DOMAIN Loads : i \in 1 .. 7 \/ \E b \in 1 .. Buckets + 1 : i \in {7 + b, WriteCount + b}
  <2>1. TAKE i \in DOMAIN Loads
  <2>2. i \in 1 .. GetCount
    BY LoadsAre, Zenon
  <2>3. CASE i - 7 \in 1 .. Buckets + 1
    <3>1. i = 7 + (i - 7)
      BY <2>2 DEF GetCount
    <3> QED BY <2>3, <3>1
  <2>4. CASE i - WriteCount \in 1 .. Buckets + 1
    <3>1. i = WriteCount + (i - WriteCount)
      BY <1>b, <2>2 DEF GetCount, WriteCount
    <3> QED BY <2>4, <3>1
  <2> QED BY <1>1, <2>2, <2>3, <2>4
<1>3. \A i, j \in 1 .. 7 : Registered[i] = Registered[j] => i = j
  BY DEF Registered
<1>4. \A i \in 1 .. 7 : Registered[i] \notin {"write", "get"}
  BY DEF Registered
<1>5. ASSUME NEW i \in DOMAIN Loads, NEW j \in DOMAIN Loads, Loads[i] = Loads[j] PROVE i = j
  <2>1. CASE i \in 1 .. 7
    <3>1. Loads[i][1] = Registered[i]
      BY <2>1, LoadsAre
    <3>2. j \in 1 .. 7
      <4>1. ASSUME NEW b \in 1 .. Buckets + 1, j \in {7 + b, WriteCount + b} PROVE FALSE
        <5>1. Loads[j] = <<"write", b>> \/ Loads[j] = <<"get", b>>
          BY <4>1, LoadsAre
        <5>2. Loads[j][1] \in {"write", "get"}
          BY <5>1
        <5> QED BY <1>4, <1>5, <2>1, <3>1, <5>2
      <4> QED BY <1>2, <4>1
    <3>3. Loads[j][1] = Registered[j]
      BY <3>2, LoadsAre
    <3> QED BY <1>3, <1>5, <2>1, <3>1, <3>2, <3>3
  <2>2. CASE i \notin 1 .. 7
    <3>1. PICK b \in 1 .. Buckets + 1 : i \in {7 + b, WriteCount + b}
      BY <1>2, <2>2
    <3>2. j \notin 1 .. 7
      <4>1. Loads[i] = <<"write", b>> \/ Loads[i] = <<"get", b>>
        BY <3>1, LoadsAre, Zenon
      <4>2. Loads[i][1] \in {"write", "get"}
        BY <4>1
      <4>3. j \in 1 .. 7 => Loads[j][1] = Registered[j]
        BY LoadsAre
      <4> QED BY <1>4, <1>5, <4>2, <4>3, Zenon
    <3>3. PICK d \in 1 .. Buckets + 1 : j \in {7 + d, WriteCount + d}
      BY <1>2, <3>2
    <3>4. Loads[i] = <<IF i = 7 + b THEN "write" ELSE "get", b>>
      BY <3>1, LoadsAre
    <3>5. Loads[j] = <<IF j = 7 + d THEN "write" ELSE "get", d>>
      BY <3>3, LoadsAre
    <3>6. /\ Loads[i][1] = (IF i = 7 + b THEN "write" ELSE "get") /\ Loads[i][2] = b
          /\ Loads[j][1] = (IF j = 7 + d THEN "write" ELSE "get") /\ Loads[j][2] = d
      BY <3>4, <3>5
    <3>7. b = d /\ (i = 7 + b <=> j = 7 + d)
      BY <1>5, <3>6
    <3> QED BY <3>1, <3>3, <3>7, Zenon
  <2> QED BY <2>1, <2>2
<1> QED BY <1>2, <1>5

\* What each load of a page reads.
ValuesAre ==
  /\ \A i \in 1 .. 7 : Value(Loads[i]) = counter[Registered[i]]
  /\ \A b \in 1 .. Buckets : /\ Value(Loads[7 + b]) = histogram["write"].bucket[b]
                             /\ Value(Loads[WriteCount + b]) = histogram["get"].bucket[b]
  /\ Value(Loads[WriteCount]) = histogram["write"].count
  /\ Value(Loads[GetCount]) = histogram["get"].count

\* Each place of a page loads one counter, bucket or count.
LEMMA Values == ValuesAre
<1>b. /\ Buckets \in Nat /\ \A b \in 1 .. Buckets : b \in 1 .. Buckets + 1
      /\ Buckets + 1 \in 1 .. Buckets + 1 /\ Buckets + 1 \notin 1 .. Buckets
  BY MetricsAssumption
<1>1. ASSUME NEW i \in 1 .. 7 PROVE Value(Loads[i]) = counter[Registered[i]]
  <2>1. Loads[i][1] = Registered[i] /\ Registered[i] \in Counters
    BY LoadsAre DEF Registered, Counters
  <2>2. PICK x : x = Loads[i]
    BY Zenon
  <2>3. x[1] \in Counters /\ x[2] \notin 1 .. Buckets
    BY <2>1, <2>2, LoadsAre
  <2>4. Value(x) = counter[x[1]]
    BY <2>3 DEF Value
  <2> QED BY <2>1, <2>2, <2>4, Zenon
<1>2. "write" \notin Counters /\ "get" \notin Counters
  BY Zenon DEF Counters
<1>3. \A b \in 1 .. Buckets + 1 :
        /\ Loads[7 + b][1] = "write" /\ Loads[7 + b][2] = b
        /\ Loads[WriteCount + b][1] = "get" /\ Loads[WriteCount + b][2] = b
  BY LoadsAre
<1>4. \A b \in 1 .. Buckets : /\ Value(Loads[7 + b]) = histogram["write"].bucket[b]
                              /\ Value(Loads[WriteCount + b]) = histogram["get"].bucket[b]
  BY <1>b, <1>2, <1>3 DEF Value
<1>5. 7 + (Buckets + 1) = WriteCount /\ WriteCount + (Buckets + 1) = GetCount
  BY <1>b DEF WriteCount, GetCount
<1>6. /\ Loads[WriteCount][1] = "write" /\ Loads[WriteCount][2] = Buckets + 1
      /\ Loads[GetCount][1] = "get" /\ Loads[GetCount][2] = Buckets + 1
  BY <1>b, <1>3, <1>5
<1>7. /\ Value(Loads[WriteCount]) = histogram["write"].count
      /\ Value(Loads[GetCount]) = histogram["get"].count
  BY <1>b, <1>2, <1>6 DEF Value
<1> QED BY <1>1, <1>4, <1>7 DEF ValuesAre

\* The places of a page.
LEMMA Places ==
  ASSUME NEW i \in 1 .. GetCount
  PROVE  \/ i \in 1 .. 7
         \/ \E b \in 1 .. Buckets : i \in {7 + b, WriteCount + b}
         \/ i \in {WriteCount, GetCount}
<1>1. Buckets \in Nat /\ DOMAIN Loads = 1 .. GetCount
  BY MetricsAssumption, LoadsAre
<1>2. ASSUME NEW b \in 1 .. Buckets + 1, i \in {7 + b, WriteCount + b}
      PROVE  b \in 1 .. Buckets \/ i \in {WriteCount, GetCount}
  BY <1>1, <1>2 DEF WriteCount, GetCount
<1>3. i \in 1 .. 7 \/ \E b \in 1 .. Buckets + 1 : i \in {7 + b, WriteCount + b}
  BY <1>1, LoadsDiffer, Zenon
<1> QED BY <1>2, <1>3, Zenon

\* While the process runs, no counter and no histogram goes back.
LEMMA MetricsGrow ==
  ASSUME ServeInv, [Next]_vars, ~ Gone
  PROVE  /\ \A c \in Counters : counter[c] \in Nat /\ counter'[c] \in Nat /\ counter[c] <= counter'[c]
         /\ \A h \in Latencies :
              /\ histogram[h].count \in Nat /\ histogram'[h].count \in Nat
              /\ histogram[h].count <= histogram'[h].count
              /\ \A b \in 1 .. Buckets :
                   /\ histogram[h].bucket[b] \in Nat /\ histogram'[h].bucket[b] \in Nat
                   /\ histogram[h].bucket[b] <= histogram'[h].bucket[b]
<1>1. LogInv /\ CallsInv /\ Valued /\ ConsoleInv
  BY Zenon DEF ServeInv
<1>2. Valued'
  BY <1>1, ValuedStep
<1>3. /\ counter \in [Counters -> Nat] /\ counter' \in [Counters -> Nat]
      /\ \A h \in Latencies :
           /\ histogram[h].count \in Nat /\ histogram'[h].count \in Nat
           /\ histogram[h].bucket \in [1 .. Buckets -> Nat]
           /\ histogram'[h].bucket \in [1 .. Buckets -> Nat]
  BY <1>1, <1>2 DEF Valued, Histogram
<1>s. /\ counter' = counter => \A c \in Counters : counter[c] <= counter'[c]
      /\ histogram' = histogram => \A h \in Latencies :
           /\ histogram[h].count <= histogram'[h].count
           /\ \A b \in 1 .. Buckets : histogram[h].bucket[b] <= histogram'[h].bucket[b]
  <2>1. \A n \in Nat : n <= n
    OBVIOUS
  <2>2. \A c \in Counters : counter[c] \in Nat
    BY <1>3, Zenon
  <2>3. \A h \in Latencies : \A b \in 1 .. Buckets : histogram[h].bucket[b] \in Nat
    BY <1>3, Zenon
  <2> QED BY <1>3, <2>1, <2>2, <2>3, Zenon
<1>t. /\ \A c \in Counters : counter[c] \in Nat /\ counter'[c] \in Nat
      /\ \A h \in Latencies :
           /\ histogram[h].count \in Nat /\ histogram'[h].count \in Nat
           /\ \A b \in 1 .. Buckets : histogram[h].bucket[b] \in Nat /\ histogram'[h].bucket[b] \in Nat
  BY <1>3, Zenon
<1>4. CASE counter' = counter /\ histogram' = histogram
  BY <1>s, <1>t, <1>4, Zenon
<1>5. ASSUME NEW a \in Actors, EngineStep(a)
      PROVE  /\ \A c \in Counters : counter[c] <= counter'[c]
             /\ \A h \in Latencies :
                  /\ histogram[h].count <= histogram'[h].count
                  /\ \A b \in 1 .. Buckets : histogram[h].bucket[b] <= histogram'[h].bucket[b]
  <2>1. MeasureStep(a) \/ BucketStep(a) \/ TotalStep(a) \/ OutcomeStep(a) \/ QuietStep(a)
    BY <1>1, <1>5, MetricSteps, Zenon DEF EngineStep
  <2>2. CASE MeasureStep(a)
    <3>1. counter' = counter /\ \A h \in Latencies : histogram'[h].bucket = histogram[h].bucket
      BY <2>2 DEF MeasureStep
    <3>2. ASSUME NEW h \in Latencies PROVE histogram[h].count <= histogram'[h].count
      BY <1>3, <2>2 DEF MeasureStep
    <3>3. \A n \in Nat : n <= n
      OBVIOUS
    <3> QED BY <1>s, <1>t, <3>1, <3>2, <3>3, Zenon
  <2>3. CASE BucketStep(a)
    <3>1. counter' = counter /\ \A h \in Latencies : histogram'[h].count = histogram[h].count
      BY <2>3, Zenon DEF BucketStep
    <3>2. ASSUME NEW h \in Latencies, NEW b \in 1 .. Buckets
          PROVE  histogram[h].bucket[b] <= histogram'[h].bucket[b]
      <4>1. PICK f \in [1 .. Buckets -> Nat] : f = histogram[h].bucket
        BY <1>3, Zenon
      <4>2. PICK g \in [1 .. Buckets -> Nat] : g = histogram'[h].bucket
        BY <1>3, Zenon
      <4>3. g = f \/ \E j \in 1 .. Buckets : g = [f EXCEPT ![j] = @ + 1]
        BY <2>3, <4>1, <4>2, Zenon DEF BucketStep
      <4>4. f[b] <= g[b]
        BY <4>3
      <4> QED BY <4>1, <4>2, <4>4
    <3>3. \A n \in Nat : n <= n
      OBVIOUS
    <3> QED BY <1>s, <1>t, <3>1, <3>2, <3>3, Zenon
  <2>4. CASE TotalStep(a) \/ OutcomeStep(a) \/ QuietStep(a)
    <3>1. histogram' = histogram
      BY <2>4, Zenon DEF TotalStep, OutcomeStep, QuietStep
    <3>2. counter' = counter \/ \E k : counter' = [counter EXCEPT ![k] = @ + 1]
      BY <2>4, Zenon DEF TotalStep, OutcomeStep, QuietStep
    <3>3. \A c \in Counters : counter[c] <= counter'[c]
      <4>1. CASE counter' = counter
        BY <1>s, <4>1
      <4>2. ASSUME NEW k, counter' = [counter EXCEPT ![k] = @ + 1]
            PROVE  \A c \in Counters : counter[c] <= counter'[c]
        BY <1>3, <4>2
      <4> QED BY <3>2, <4>1, <4>2
    <3> QED BY <1>s, <3>1, <3>3
  <2> QED BY <2>1, <2>2, <2>3, <2>4, ZenonT(30)
<1>6. ASSUME NEW a \in Actors, EngineStep(a)
      PROVE  /\ \A c \in Counters : counter[c] \in Nat /\ counter'[c] \in Nat /\ counter[c] <= counter'[c]
             /\ \A h \in Latencies :
                  /\ histogram[h].count \in Nat /\ histogram'[h].count \in Nat
                  /\ histogram[h].count <= histogram'[h].count
                  /\ \A b \in 1 .. Buckets :
                       /\ histogram[h].bucket[b] \in Nat /\ histogram'[h].bucket[b] \in Nat
                       /\ histogram[h].bucket[b] <= histogram'[h].bucket[b]
  BY <1>t, <1>5, <1>6
<1>7. CASE Outside
  BY <1>4, <1>7, Zenon DEF Outside
<1> QED BY <1>1, <1>6, <1>7, StepKinds, Zenon

\* What a load would read now is at most what it would read after the step.
LEMMA ValuesGrow ==
  ASSUME ServeInv, [Next]_vars, ~ Gone, NEW i \in 1 .. GetCount
  PROVE  Value(Loads[i]) \in Nat /\ Value(Loads[i])' \in Nat /\ Value(Loads[i]) <= Value(Loads[i])'
<1>2. /\ \A j \in 1 .. 7 : Value(Loads[j])' = counter'[Registered[j]]
      /\ \A b \in 1 .. Buckets : /\ Value(Loads[7 + b])' = histogram'["write"].bucket[b]
                                 /\ Value(Loads[WriteCount + b])' = histogram'["get"].bucket[b]
      /\ Value(Loads[WriteCount])' = histogram'["write"].count
      /\ Value(Loads[GetCount])' = histogram'["get"].count
  <2>1. ValuesAre'
    BY Values, PTL
  <2> QED BY <2>1, Zenon DEF ValuesAre
<1>3. \A j \in 1 .. 7 : Registered[j] \in Counters
  BY DEF Registered, Counters
<1>4. "write" \in Latencies /\ "get" \in Latencies
  BY Zenon DEF Latencies
<1>5. CASE i \in 1 .. 7
  BY <1>2, <1>3, <1>5, Values, MetricsGrow, Zenon DEF ValuesAre
<1>6. CASE i \in {WriteCount, GetCount}
  <2>1. \/ /\ Value(Loads[i]) = histogram["write"].count
           /\ Value(Loads[i])' = histogram'["write"].count
        \/ /\ Value(Loads[i]) = histogram["get"].count
           /\ Value(Loads[i])' = histogram'["get"].count
    BY <1>2, <1>6, Values, Zenon DEF ValuesAre
  <2> QED BY <1>4, <2>1, MetricsGrow, Zenon
<1>7. ASSUME NEW b \in 1 .. Buckets, i \in {7 + b, WriteCount + b}
      PROVE  Value(Loads[i]) \in Nat /\ Value(Loads[i])' \in Nat /\ Value(Loads[i]) <= Value(Loads[i])'
  BY <1>2, <1>4, <1>7, Values, MetricsGrow DEF ValuesAre
<1> QED BY <1>5, <1>6, <1>7, Places

\* The steps that load a value; every other one leaves the page alone.
LEMMA PageMoves ==
  ASSUME [Next]_vars
  PROVE  Gone \/ Scrape \/ RenderNext \/ UNCHANGED <<scraping, page>>
<1>1. ASSUME NEW a \in Actors, EngineStep(a) PROVE UNCHANGED <<scraping, page>>
  BY <1>1, Zenon DEF EngineStep, CallStep, Enter, DoWrite, DoRead, SetTotal, SetLevel, Observe,
     Count, OpenSnapshot, CloseSnapshot, metricVars
<1>2. ASSUME NEW c \in Clients, Handler(c) \/ Worker(c) PROVE UNCHANGED <<scraping, page>>
  BY <1>2, Zenon DEF Handler, RequestPut, BodyRead, BodyFails, RequestPlain, RequestOther, Respond,
     Replied, Worker, WorkerCalls, WorkerCounts, Stay, metricVars
<1>3. CASE MainStep
  BY <1>3, Zenon DEF MainStep, Drained, ShutdownDeadline, CommandReturns, Unsnapped, BenchWaited,
     BenchReported, DebugDrained, DebugDeadline, CloseFlag, WorkersStop, FinalFlush, LogRemoved,
     metricVars, Stay
<1>4. CASE Command \/ Quit \/ Interrupt \/ ListenFails \/ CloseFails \/ Killed \/ Terminated
           \/ (Install /\ UNCHANGED processVars) \/ UNCHANGED vars
  BY <1>4, Zenon DEF Command, Quit, Interrupt, ListenFails, CloseFails, Killed, Terminated, Install,
     metricVars, Stay, vars
<1> QED BY <1>1, <1>2, <1>3, <1>4, Zenon DEF Next

(***************************************************************************)
(* The page while it is being rendered.  Metrics only grow, so what a page *)
(* has loaded is at most what the metrics say now; a histogram's count is  *)
(* loaded after its buckets and after the counters of the calls it         *)
(* measures, and at that moment it covers them all.                        *)
(***************************************************************************)
WritePart ==
  /\ SumFunction([b \in 1 .. Buckets |-> page[7 + b]]) <= page[WriteCount]
  /\ page[1] + page[2] <= page[WriteCount]

GetPart ==
  /\ SumFunction([b \in 1 .. Buckets |-> page[WriteCount + b]]) <= page[GetCount]
  /\ page[3] <= page[GetCount]

PageInv ==
  /\ page \in Seq(Nat)
  /\ Len(page) <= GetCount
  /\ scraping => Len(page) < GetCount
  /\ \A i \in 1 .. Len(page) : page[i] <= Value(Loads[i])
  /\ Len(page) >= WriteCount => WritePart
  /\ Len(page) >= GetCount => GetPart

\* A histogram's buckets are loaded before its count.
LEMMA BucketPlaces ==
  /\ Buckets \in Nat /\ WriteCount \in Nat /\ GetCount \in Nat
  /\ 0 < WriteCount /\ WriteCount < GetCount /\ 7 < WriteCount
  /\ \A b \in 1 .. Buckets : /\ 7 + b \in 1 .. WriteCount - 1
                             /\ WriteCount + b \in 1 .. GetCount - 1
  BY MetricsAssumption DEF WriteCount, GetCount

\* A page that has loaded nothing is fine.
LEMMA EmptyPage == page = << >> /\ Len(page) = 0 => PageInv
  BY BucketPlaces DEF PageInv

\* The calls on their way are finitely many.
LEMMA SetsCounted ==
  /\ \A h : Cardinality(Measured(h)) \in Nat
  /\ \A ops : Cardinality(Uncounted(ops)) \in Nat
<1>1. ASSUME NEW h PROVE Cardinality(Measured(h)) \in Nat
  <2>1. Measured(h) \subseteq Actors
    BY DEF Measured
  <2> QED BY <2>1, ActorsFinite, FS_Subset, FS_CardinalityType
<1>2. ASSUME NEW ops PROVE Cardinality(Uncounted(ops)) \in Nat
  <2>1. Uncounted(ops) \subseteq Actors
    BY Zenon DEF Uncounted
  <2> QED BY <2>1, ActorsFinite, FS_Subset, FS_CardinalityType, Zenon
<1> QED BY <1>1, <1>2

\* The buckets that a page has loaded add up to no more than the count.
LEMMA BucketsCovered ==
  ASSUME Valued, HistogramInv, NEW h \in Latencies, NEW q \in [1 .. Buckets -> Nat],
         \A b \in 1 .. Buckets : q[b] <= histogram[h].bucket[b]
  PROVE  SumFunction(q) <= histogram[h].count
<1>1. PICK f \in [1 .. Buckets -> Int] : f = q
  OBVIOUS
<1>2. PICK g \in [1 .. Buckets -> Int] : g = histogram[h].bucket
  BY BucketSums, Zenon
<1>3. IsFiniteSet(1 .. Buckets) /\ SumFunction(g) \in Int /\ histogram[h].count \in Nat
  BY <1>2, BucketSums
<1>4. SumFunction(f) <= SumFunction(g)
  BY <1>1, <1>2, <1>3, SumMonotone, Zenon
<1>5. SumFunction(f) \in Int
  BY <1>3, SumType, Zenon
<1>6. Cardinality(Measured(h)) \in Nat
  BY SetsCounted, Zenon
<1>7. SumFunction(g) + Cardinality(Measured(h)) <= histogram[h].count
  BY <1>2, Zenon DEF HistogramInv
<1> QED BY <1>1, <1>3, <1>4, <1>5, <1>6, <1>7

\* The count of the writes is loaded, and the one of the gets.
LEMMA WriteLoaded ==
  ASSUME Valued, HistogramInv, PageInv, Len(page) + 1 = WriteCount,
         NEW p \in Seq(Nat), p[WriteCount] = histogram["write"].count,
         \A i \in 1 .. Len(page) : p[i] = page[i] /\ p[i] \in Nat
  PROVE  /\ SumFunction([b \in 1 .. Buckets |-> p[7 + b]]) <= p[WriteCount]
         /\ p[1] + p[2] <= p[WriteCount]
<1>1. /\ "write" \in Latencies /\ {"puts", "deletes"} \subseteq Counters
      /\ counter \in [Counters -> Nat] /\ histogram["write"].count \in Nat
  BY Zenon DEF Valued, Latencies, Counters, Histogram
<1>2. Len(page) \in Nat /\ Len(page) = WriteCount - 1
  BY BucketPlaces DEF PageInv
<1>3. /\ \A b \in 1 .. Buckets : 7 + b \in 1 .. Len(page)
      /\ 1 \in 1 .. Len(page) /\ 2 \in 1 .. Len(page)
  <2>1. WriteCount \in Nat /\ 7 < WriteCount
    BY BucketPlaces, Zenon
  <2>2. 1 \in 1 .. WriteCount - 1 /\ 2 \in 1 .. WriteCount - 1
    BY <2>1
  <2> QED BY <1>2, <2>2, BucketPlaces, Zenon
<1>4. \A i \in 1 .. Len(page) : p[i] \in Nat /\ p[i] <= Value(Loads[i])
  BY Zenon DEF PageInv
<1>5. \A b \in 1 .. Buckets : p[7 + b] \in Nat /\ p[7 + b] <= histogram["write"].bucket[b]
  BY <1>3, <1>4, Values, Zenon DEF ValuesAre
<1>6. PICK q : q = [b \in 1 .. Buckets |-> p[7 + b]]
  BY Zenon
<1>7. q \in [1 .. Buckets -> Nat] /\ \A b \in 1 .. Buckets : q[b] <= histogram["write"].bucket[b]
  BY <1>5, <1>6, Zenon
<1>8. SumFunction(q) <= p[WriteCount]
  BY <1>1, <1>7, BucketsCovered, Zenon
<1>9. Value(Loads[1]) = counter["puts"] /\ Value(Loads[2]) = counter["deletes"]
  BY Values DEF ValuesAre, Registered
<1>10. /\ p[1] \in Nat /\ p[2] \in Nat /\ p[1] <= counter["puts"] /\ p[2] <= counter["deletes"]
  BY <1>3, <1>4, <1>9, Zenon
<1>11. /\ counter["puts"] + counter["deletes"] + Cardinality(Uncounted(Writes)) <= p[WriteCount]
       /\ Cardinality(Uncounted(Writes)) \in Nat /\ counter["puts"] \in Nat /\ counter["deletes"] \in Nat
  BY <1>1, SetsCounted DEF HistogramInv
<1>12. p[1] + p[2] <= p[WriteCount]
  <2>1. \A a, b, c, d, k, n \in Nat : a <= c /\ b <= d /\ c + d + k <= n => a + b <= n
    OBVIOUS
  <2>2. p[WriteCount] \in Nat
    BY <1>1, Zenon
  <2> QED BY <1>10, <1>11, <2>1, <2>2, Zenon
<1> QED BY <1>6, <1>8, <1>12

\* The same for the gets.
LEMMA GetLoaded ==
  ASSUME Valued, HistogramInv, PageInv, Len(page) + 1 = GetCount,
         NEW p \in Seq(Nat), p[GetCount] = histogram["get"].count,
         \A i \in 1 .. Len(page) : p[i] = page[i] /\ p[i] \in Nat
  PROVE  /\ SumFunction([b \in 1 .. Buckets |-> p[WriteCount + b]]) <= p[GetCount]
         /\ p[3] <= p[GetCount]
<1>1. /\ "get" \in Latencies /\ "gets" \in Counters
      /\ counter \in [Counters -> Nat] /\ histogram["get"].count \in Nat
  BY Zenon DEF Valued, Latencies, Counters, Histogram
<1>2. Len(page) \in Nat /\ Len(page) = GetCount - 1
  BY BucketPlaces DEF PageInv
<1>3. /\ \A b \in 1 .. Buckets : WriteCount + b \in 1 .. Len(page)
      /\ 3 \in 1 .. Len(page)
  <2>1. WriteCount \in Nat /\ GetCount \in Nat /\ 7 < WriteCount /\ WriteCount < GetCount
    BY BucketPlaces, Zenon
  <2>2. 3 \in 1 .. GetCount - 1
    BY <2>1
  <2> QED BY <1>2, <2>2, BucketPlaces, Zenon
<1>4. \A i \in 1 .. Len(page) : p[i] \in Nat /\ p[i] <= Value(Loads[i])
  BY Zenon DEF PageInv
<1>5. \A b \in 1 .. Buckets :
        p[WriteCount + b] \in Nat /\ p[WriteCount + b] <= histogram["get"].bucket[b]
  BY <1>3, <1>4, Values, Zenon DEF ValuesAre
<1>6. PICK q : q = [b \in 1 .. Buckets |-> p[WriteCount + b]]
  BY Zenon
<1>7. q \in [1 .. Buckets -> Nat] /\ \A b \in 1 .. Buckets : q[b] <= histogram["get"].bucket[b]
  BY <1>5, <1>6
<1>8. SumFunction(q) <= p[GetCount]
  BY <1>1, <1>7, BucketsCovered, Zenon
<1>9. Value(Loads[3]) = counter["gets"]
  BY Values DEF ValuesAre, Registered
<1>10. p[3] \in Nat /\ p[3] <= counter["gets"]
  BY <1>3, <1>4, <1>9, Zenon
<1>11. /\ counter["gets"] + Cardinality(Uncounted({"get"})) <= p[GetCount]
       /\ Cardinality(Uncounted({"get"})) \in Nat /\ counter["gets"] \in Nat
  BY <1>1, SetsCounted DEF HistogramInv
<1>12. p[3] <= p[GetCount]
  BY <1>1, <1>10, <1>11
<1> QED BY <1>6, <1>8, <1>12

\* Every step keeps PageInv: values grow, and a load takes the current one.
LEMMA PageInvStep ==
  ASSUME ServeInv, HistogramInv, PageInv, [Next]_vars
  PROVE  PageInv'
<1>1. Valued
  BY Zenon DEF ServeInv
<1>p. /\ page \in Seq(Nat) /\ Len(page) \in Nat /\ DOMAIN page = 1 .. Len(page)
      /\ \A i \in 1 .. Len(page) : page[i] \in Nat
  BY DEF PageInv
<1>e. ASSUME page' = << >> PROVE PageInv'
  <2>1. Len(page)' = 0 /\ page' \in Seq(Nat)
    BY <1>e
  <2> QED BY <2>1, BucketPlaces DEF PageInv
<1>2. CASE Gone
  BY <1>2, <1>e DEF Gone
<1>3. CASE Scrape
  BY <1>3, <1>e DEF Scrape, BeginScrape
<1>4. CASE ~ Gone /\ UNCHANGED <<scraping, page>>
  <2>1. ASSUME NEW i \in 1 .. Len(page) PROVE page'[i] <= Value(Loads[i])'
    <3>1. i \in 1 .. GetCount
      BY <1>p, BucketPlaces DEF PageInv
    <3>2. Value(Loads[i]) \in Nat /\ Value(Loads[i])' \in Nat /\ Value(Loads[i]) <= Value(Loads[i])'
      BY <1>4, <3>1, ValuesGrow
    <3>3. page[i] <= Value(Loads[i]) /\ page[i] \in Nat /\ page'[i] = page[i]
      BY <1>4, <1>p DEF PageInv
    <3>4. \A a, b, c \in Nat : a <= b /\ b <= c => a <= c
      OBVIOUS
    <3> QED BY <3>2, <3>3, <3>4, Zenon
  <2>2. WritePart => WritePart'
    BY <1>4, Zenon DEF WritePart
  <2>3. GetPart => GetPart'
    BY <1>4, Zenon DEF GetPart
  <2> QED BY <1>4, <2>1, <2>2, <2>3, Zenon DEF PageInv
<1>5. CASE ~ Gone /\ RenderNext
  <2>1. /\ scraping /\ page' = Append(page, Value(Loads[Len(page) + 1]))
        /\ scraping' = (Len(page') < Len(Loads)) /\ counter' = counter /\ histogram' = histogram
    BY <1>5, Zenon DEF RenderNext, Render
  <2>2. Len(page) < GetCount /\ Len(page) + 1 \in 1 .. GetCount
    BY <1>p, <2>1, BucketPlaces DEF PageInv
  <2>3. PICK v : v = Value(Loads[Len(page) + 1])
    BY Zenon
  <2>4. v \in Nat
    BY <1>5, <2>2, <2>3, ValuesGrow
  <2>5. /\ page' \in Seq(Nat) /\ Len(page') = Len(page) + 1
        /\ \A i \in 1 .. Len(page) : page'[i] = page[i]
        /\ page'[Len(page) + 1] = v
    BY <1>p, <2>1, <2>3, <2>4
  <2>6. Len(page') <= GetCount /\ (scraping' => Len(page') < GetCount)
    <3>1. scraping' => Len(page') < Len(Loads)
      BY <2>1, Zenon
    <3>2. Len(page') <= GetCount
      BY <1>p, <2>2, <2>5, BucketPlaces
    <3> QED BY <3>1, <3>2, LoadsAre, Zenon
  <2>7. ASSUME NEW i \in 1 .. Len(page') PROVE page'[i] <= Value(Loads[i])'
    <3>1. Value(Loads[i])' = Value(Loads[i])
      BY <2>1, Zenon DEF Value
    <3>2. CASE i \in 1 .. Len(page)
      BY <2>5, <3>1, <3>2 DEF PageInv
    <3>3. CASE i = Len(page) + 1
      BY <2>3, <2>4, <2>5, <3>1, <3>3
    <3> QED BY <1>p, <2>5, <3>2, <3>3
  <2>8. ASSUME Len(page') >= WriteCount PROVE WritePart'
    <3>1. CASE Len(page) + 1 = WriteCount
      <4>1. page'[WriteCount] = histogram["write"].count
        BY <2>3, <2>5, <3>1, Values DEF ValuesAre
      <4>2. \A i \in 1 .. Len(page) : page'[i] = page[i] /\ page'[i] \in Nat
        BY <1>p, <2>5
      <4>3. /\ SumFunction([b \in 1 .. Buckets |-> page'[7 + b]]) <= page'[WriteCount]
            /\ page'[1] + page'[2] <= page'[WriteCount]
        BY <1>1, <2>5, <3>1, <4>1, <4>2, WriteLoaded, Zenon
      <4> QED BY <4>3 DEF WritePart
    <3>2. CASE Len(page) >= WriteCount
      <4>1. /\ \A b \in 1 .. Buckets : 7 + b \in 1 .. Len(page)
            /\ 1 \in 1 .. Len(page) /\ 2 \in 1 .. Len(page) /\ WriteCount \in 1 .. Len(page)
        <5>1. WriteCount \in Nat /\ 7 < WriteCount
          BY BucketPlaces, Zenon
        <5>2. /\ \A x \in 1 .. WriteCount - 1 : x \in 1 .. Len(page)
              /\ 1 \in 1 .. Len(page) /\ 2 \in 1 .. Len(page) /\ WriteCount \in 1 .. Len(page)
          BY <1>p, <3>2, <5>1
        <5> QED BY <5>2, BucketPlaces, Zenon
      <4>2. WritePart
        BY <3>2 DEF PageInv
      <4>3. /\ \A b \in 1 .. Buckets : page'[7 + b] = page[7 + b]
            /\ page'[1] = page[1] /\ page'[2] = page[2] /\ page'[WriteCount] = page[WriteCount]
        BY <2>5, <4>1, Zenon
      <4>4. [b \in 1 .. Buckets |-> page'[7 + b]] = [b \in 1 .. Buckets |-> page[7 + b]]
        BY <4>3
      <4> QED BY <4>2, <4>3, <4>4, Zenon DEF WritePart
    <3> QED BY <1>p, <2>5, <2>8, <3>1, <3>2, BucketPlaces
  <2>9. ASSUME Len(page') >= GetCount PROVE GetPart'
    <3>1. Len(page) + 1 = GetCount
      <4>1. /\ Len(page) \in Nat /\ GetCount \in Nat
            /\ Len(page) < GetCount /\ Len(page) + 1 >= GetCount
        BY <1>p, <2>2, <2>5, <2>9, BucketPlaces, Zenon
      <4> QED BY <4>1
    <3>2. page'[GetCount] = histogram["get"].count
      BY <2>3, <2>5, <3>1, Values DEF ValuesAre
    <3>3. \A i \in 1 .. Len(page) : page'[i] = page[i] /\ page'[i] \in Nat
      BY <1>p, <2>5, Zenon
    <3>4. /\ SumFunction([b \in 1 .. Buckets |-> page'[WriteCount + b]]) <= page'[GetCount]
          /\ page'[3] <= page'[GetCount]
      BY <1>1, <2>5, <3>1, <3>2, <3>3, GetLoaded, Zenon
    <3> QED BY <3>4 DEF GetPart
  <2> QED BY <2>5, <2>6, <2>7, <2>8, <2>9 DEF PageInv
<1> QED BY <1>2, <1>3, <1>4, <1>5, PageMoves

\* What a complete page shows of a metric is what it has loaded for it.
LEMMA ShownAt ==
  ASSUME NEW i \in DOMAIN Loads, NEW m, NEW part, Loads[i] = <<m, part>>
  PROVE  Shown(m, part) = page[i]
<1>1. \A j \in DOMAIN Loads : Loads[j] = <<m, part>> => j = i
  BY LoadsDiffer, Zenon
<1>2. (CHOOSE j \in DOMAIN Loads : Loads[j] = <<m, part>>) = i
  BY <1>1, Zenon
<1> QED BY <1>2, Zenon DEF Shown

\* PageInv makes a complete page consistent.
LEMMA PagesFollow == PageInv => PagesAreConsistent
<1> SUFFICES ASSUME PageInv, Len(page) = Len(Loads) PROVE PagesAreConsistent
  BY Zenon DEF PagesAreConsistent
<1>1. Len(page) = GetCount /\ DOMAIN Loads = 1 .. GetCount
  BY LoadsAre, Zenon
<1>2. WritePart /\ GetPart
  BY <1>1, BucketPlaces DEF PageInv
<1>3. /\ \A b \in 1 .. Buckets + 1 : 7 + b \in DOMAIN Loads /\ WriteCount + b \in DOMAIN Loads
      /\ \A b \in 1 .. Buckets : b \in 1 .. Buckets + 1
      /\ Buckets + 1 \in 1 .. Buckets + 1
      /\ 7 + (Buckets + 1) = WriteCount /\ WriteCount + (Buckets + 1) = GetCount
  BY <1>1, MetricsAssumption DEF WriteCount, GetCount
<1>4. \A b \in 1 .. Buckets + 1 : Shown("write", b) = page[7 + b] /\ Shown("get", b) = page[WriteCount + b]
  <2>1. TAKE b \in 1 .. Buckets + 1
  <2>2. Loads[7 + b] = <<"write", b>> /\ Loads[WriteCount + b] = <<"get", b>>
    BY LoadsAre
  <2> QED BY <1>3, <2>2, ShownAt, Zenon
<1>5. Shown("write", Buckets + 1) = page[WriteCount] /\ Shown("get", Buckets + 1) = page[GetCount]
  BY <1>3, <1>4, Zenon
<1>6. Shown("puts", 0) = page[1] /\ Shown("deletes", 0) = page[2] /\ Shown("gets", 0) = page[3]
  <2>1. 1 \in DOMAIN Loads /\ 2 \in DOMAIN Loads /\ 3 \in DOMAIN Loads
    BY <1>1, BucketPlaces
  <2>2. Loads[1] = <<"puts", 0>> /\ Loads[2] = <<"deletes", 0>> /\ Loads[3] = <<"gets", 0>>
    BY LoadsAre DEF Registered
  <2> QED BY <2>1, <2>2, ShownAt
<1>7. [b \in 1 .. Buckets |-> Shown("write", b)] = [b \in 1 .. Buckets |-> page[7 + b]]
  BY <1>3, <1>4
<1>8. [b \in 1 .. Buckets |-> Shown("get", b)] = [b \in 1 .. Buckets |-> page[WriteCount + b]]
  BY <1>3, <1>4
<1>9. /\ SumFunction([b \in 1 .. Buckets |-> Shown("write", b)]) <= Shown("write", Buckets + 1)
      /\ Shown("puts", 0) + Shown("deletes", 0) <= Shown("write", Buckets + 1)
  BY <1>2, <1>5, <1>6, <1>7, Zenon DEF WritePart
<1>10. /\ SumFunction([b \in 1 .. Buckets |-> Shown("get", b)]) <= Shown("get", Buckets + 1)
       /\ Shown("gets", 0) <= Shown("get", Buckets + 1)
  BY <1>2, <1>5, <1>6, <1>8, Zenon DEF GetPart
<1>11. \A h \in Latencies :
         SumFunction([b \in 1 .. Buckets |-> Shown(h, b)]) <= Shown(h, Buckets + 1)
  BY <1>9, <1>10, Zenon DEF Latencies
<1> QED BY <1>9, <1>10, <1>11, Zenon DEF PagesAreConsistent

(***************************************************************************)
(* Every page that GET /metrics serves makes sense, whatever calls run     *)
(* while it is rendered: the buckets of a histogram add up to at most its  *)
(* count, and no counter of calls exceeds the count of the histogram that  *)
(* measures them (Registry.Render and Histogram.Observe of metrics.go, and *)
(* the order in which Put, Delete and Get of engine.go count themselves).  *)
(***************************************************************************)
THEOREM PagesAreConsistentAlways == Spec => []PagesAreConsistent
<1>1. Init => HistogramInv /\ PageInv
  <2> SUFFICES ASSUME Init PROVE HistogramInv /\ PageInv
    BY Zenon
  <2>1. page = << >> /\ Len(page) = 0
    BY Zenon DEF Init, InitMetrics
  <2>2. Valued /\ NothingMeasured
    BY ServeInvInit, Zenon DEF ServeInv, NothingMeasured, Init, InitMetrics, InitCalls
  <2> QED BY <2>1, <2>2, EmptyPage, ZeroHistograms
<1>2. ServeInv /\ HistogramInv /\ PageInv /\ [Next]_vars => HistogramInv' /\ PageInv'
  BY HistogramInvStep, PageInvStep
<1> QED BY <1>1, <1>2, ServeInvAlways, PagesFollow, PTL DEF Spec

(***************************************************************************)
(* The benchmark.  The engine counts an operation before the worker does:  *)
(* between the two it is on its way, in one of three sets of workers.  The *)
(* operations that the workers have finished are a set of pairs, which is  *)
(* the whole grid when all workers are done.                               *)
(***************************************************************************)
IsTallied(r) == r.pc \in {"outcome", "done"}
IsFetched(r) == r.pc = "done" /\ r.op = "get" /\ r.res \in {"ok", "notfound"}
IsStored(r) == r.pc = "done" /\ r.op = "put" /\ r.res \in {"ok", "notfound"}

Tallied == {c \in Clients : IsTallied(call[c])}
Fetched == {c \in Clients : IsFetched(call[c])}
Stored == {c \in Clients : IsStored(call[c])}
Finished == {x \in Clients \X (1 .. BenchOps) : x[2] <= task[x[1]].ops}

Totals == {"puts", "gets", "errors"}

BenchInv ==
  mode = "bench" =>
    /\ total \in [Totals -> Nat]
    /\ \A c \in Clients : task[c].ops <= BenchOps /\ call[c].op \in {"none", "put", "get"}
    /\ main \notin {"running", "exited"} => \A c \in Clients : task[c].ops = BenchOps
    /\ counter["puts"] + counter["gets"]
         = total["puts"] + total["gets"] + total["errors"] + Cardinality(Tallied)
    /\ counter["hits"] + counter["misses"] = total["gets"] + Cardinality(Fetched)
    /\ total["puts"] + Cardinality(Stored) <= counter["puts"]
    /\ main # "exited" =>
         total["puts"] + total["gets"] + total["errors"] = Cardinality(Finished)

One(p) == IF p THEN 1 ELSE 0

\* How a count moves when one call enters or leaves the set.
LEMMA CountMoves ==
  \A x \in Nat : /\ x + 0 - 0 = x /\ x + 1 - 0 = x + 1 /\ x + 0 - 1 = x - 1 /\ x + 1 - 1 = x
                 /\ \A z \in {0, 1} : x + z - 0 = x + z /\ x + 0 - z = x - z
  OBVIOUS

\* What one worker's step does to the three sets.
LEMMA BenchSets ==
  ASSUME NEW a \in Clients, \A c \in Clients : c # a => call'[c] = call[c]
  PROVE  /\ Cardinality(Tallied) \in Nat /\ Cardinality(Fetched) \in Nat /\ Cardinality(Stored) \in Nat
         /\ Cardinality(Tallied') =
              Cardinality(Tallied) + One(IsTallied(call'[a])) - One(IsTallied(call[a]))
         /\ Cardinality(Fetched') =
              Cardinality(Fetched) + One(IsFetched(call'[a])) - One(IsFetched(call[a]))
         /\ Cardinality(Stored') =
              Cardinality(Stored) + One(IsStored(call'[a])) - One(IsStored(call[a]))
<1>f. IsFiniteSet(Clients)
  BY CallsAssumption
<1>o. ASSUME NEW A \in SUBSET Clients, NEW B \in SUBSET Clients,
             \A b \in Clients : b # a => (b \in A <=> b \in B)
      PROVE  /\ Cardinality(A) \in Nat
             /\ Cardinality(B) = Cardinality(A) + One(a \in B) - One(a \in A)
  <2>1. /\ Cardinality(A) \in Nat /\ Cardinality(B) \in Nat
        /\ a \in A /\ a \notin B => Cardinality(B) = Cardinality(A) - 1
        /\ a \notin A /\ a \in B => Cardinality(B) = Cardinality(A) + 1
        /\ (a \in A <=> a \in B) => Cardinality(B) = Cardinality(A)
    BY <1>f, <1>o, OneMoves
  <2> QED BY <2>1 DEF One
<1>1. /\ Cardinality(Tallied) \in Nat
      /\ Cardinality(Tallied') =
           Cardinality(Tallied) + One(IsTallied(call'[a])) - One(IsTallied(call[a]))
  <2>1. PICK A \in SUBSET Clients : A = Tallied
    BY Zenon DEF Tallied
  <2>2. PICK B \in SUBSET Clients : B = Tallied'
    BY Zenon DEF Tallied
  <2>3. \A b \in Clients : (b \in A <=> IsTallied(call[b])) /\ (b \in B <=> IsTallied(call'[b]))
    BY <2>1, <2>2 DEF Tallied, IsTallied
  <2>4. \A b \in Clients : b # a => (b \in A <=> b \in B)
    BY <2>3, Zenon
  <2>5. /\ Cardinality(A) \in Nat
        /\ Cardinality(B) = Cardinality(A) + One(a \in B) - One(a \in A)
    BY <1>o, <2>4
  <2>6. One(a \in B) = One(IsTallied(call'[a])) /\ One(a \in A) = One(IsTallied(call[a]))
    BY <2>3 DEF One
  <2> QED BY <2>1, <2>2, <2>5, <2>6
<1>2. /\ Cardinality(Fetched) \in Nat
      /\ Cardinality(Fetched') =
           Cardinality(Fetched) + One(IsFetched(call'[a])) - One(IsFetched(call[a]))
  <2>1. PICK A \in SUBSET Clients : A = Fetched
    BY Zenon DEF Fetched
  <2>2. PICK B \in SUBSET Clients : B = Fetched'
    BY Zenon DEF Fetched
  <2>3. \A b \in Clients : (b \in A <=> IsFetched(call[b])) /\ (b \in B <=> IsFetched(call'[b]))
    BY <2>1, <2>2 DEF Fetched, IsFetched
  <2>4. \A b \in Clients : b # a => (b \in A <=> b \in B)
    BY <2>3, Zenon
  <2>5. /\ Cardinality(A) \in Nat
        /\ Cardinality(B) = Cardinality(A) + One(a \in B) - One(a \in A)
    BY <1>o, <2>4, Zenon
  <2>6. One(a \in B) = One(IsFetched(call'[a])) /\ One(a \in A) = One(IsFetched(call[a]))
    BY <2>3, Zenon DEF One
  <2> QED BY <2>1, <2>2, <2>5, <2>6, Zenon
<1>3. /\ Cardinality(Stored) \in Nat
      /\ Cardinality(Stored') =
           Cardinality(Stored) + One(IsStored(call'[a])) - One(IsStored(call[a]))
  <2>1. PICK A \in SUBSET Clients : A = Stored
    BY Zenon DEF Stored
  <2>2. PICK B \in SUBSET Clients : B = Stored'
    BY Zenon DEF Stored
  <2>3. \A b \in Clients : (b \in A <=> IsStored(call[b])) /\ (b \in B <=> IsStored(call'[b]))
    BY <2>1, <2>2 DEF Stored, IsStored
  <2>4. \A b \in Clients : b # a => (b \in A <=> b \in B)
    BY <2>3, Zenon
  <2>5. /\ Cardinality(A) \in Nat
        /\ Cardinality(B) = Cardinality(A) + One(a \in B) - One(a \in A)
    BY <1>o, <2>4, Zenon
  <2>6. One(a \in B) = One(IsStored(call'[a])) /\ One(a \in A) = One(IsStored(call[a]))
    BY <2>3, Zenon DEF One
  <2> QED BY <2>1, <2>2, <2>5, <2>6, Zenon
<1> QED BY <1>1, <1>2, <1>3, Zenon

\* A step that no worker of the benchmark notices.
BenchRest ==
  /\ UNCHANGED <<work, counter, task, total>>
  /\ \A c \in Clients : call'[c] = call[c]
  /\ \/ main' = main
     \/ main' \notin {"exited", "running"} /\ main # "exited"
          /\ (main # "running" \/ \A c \in Clients : task[c].ops = BenchOps)

\* The steps of a process that runs the benchmark.
LEMMA BenchSteps ==
  ASSUME ServeInv, mode = "bench", [Next]_vars
  PROVE  \/ \E a \in Actors : EngineStep(a)
         \/ \E c \in Clients : WorkerCalls(c) \/ WorkerCounts(c)
         \/ Gone \/ BenchRest
<1>1. /\ StopInv /\ call \in [Actors -> CallRecord] /\ mode # "serve" /\ mode # "repl"
      /\ \A c \in Clients : task[c].pc = "idle"
      /\ main # "shutdown" /\ main # "unsnap"
  BY Zenon DEF ServeInv, LogInv, StopInv, ClientInv
<1>2. ASSUME NEW c \in Clients, Handler(c) PROVE FALSE
  <2>1. task[c].pc = "idle" /\ mode # "serve"
    BY <1>1
  <2> QED BY <1>2, <2>1, Zenon DEF Handler, RequestPut, BodyRead, BodyFails, RequestPlain,
        RequestOther, Respond, Replied, CanRequest
<1>3. CASE Drained \/ ShutdownDeadline \/ CommandReturns \/ Unsnapped \/ Command \/ Quit
           \/ Interrupt \/ ListenFails
  BY <1>1, <1>3, Zenon DEF Drained, ShutdownDeadline, CommandReturns, Unsnapped, Command, Quit,
     Interrupt, ListenFails, Main
<1>4. CASE DebugDrained \/ DebugDeadline \/ CloseFlag \/ WorkersStop \/ FinalFlush
  <2>1. UNCHANGED <<work, counter, task, total, call>>
    BY <1>4, Zenon DEF DebugDrained, DebugDeadline, CloseFlag, WorkersStop, FinalFlush, metricVars,
       callVars, Frame
  <2>2. /\ main \in {"debug", "close", "wait", "flush"}
        /\ main' \in {"close", "wait", "flush", "remove"}
    BY <1>4, Zenon DEF DebugDrained, DebugDeadline, CloseFlag, WorkersStop, FinalFlush, Main
  <2>3. main # "exited" /\ main # "running" /\ main' \notin {"exited", "running"}
    BY <2>2
  <2> QED BY <2>1, <2>3, Zenon DEF BenchRest
<1>5. CASE BenchWaited \/ BenchReported
  <2>1. UNCHANGED <<work, counter, task, total>>
    BY <1>5, Zenon DEF BenchWaited, BenchReported, metricVars, engineVars
  <2>2. \A c \in Clients : call'[c] = call[c]
    <3>1. \E r : call' = [call EXCEPT ![Console] = r]
      BY <1>5 DEF BenchWaited, BenchReported
    <3> QED BY <1>1, <3>1, ClientsAct
  <2>3. /\ main \in {"running", "report"} /\ main' \in {"report", "debug"}
        /\ main = "running" => \A c \in Clients : task[c].ops = BenchOps
    BY <1>5, Zenon DEF BenchWaited, BenchReported, Main
  <2>4. main # "exited" /\ main' \notin {"exited", "running"}
    BY <2>3, Zenon
  <2> QED BY <2>1, <2>2, <2>3, <2>4, Zenon DEF BenchRest
<1>6. CASE Scrape \/ RenderNext \/ Terminated \/ (Install /\ UNCHANGED processVars) \/ UNCHANGED vars
  <2>1. UNCHANGED <<work, counter, task, total, call, main>>
    BY <1>6, Zenon DEF Scrape, BeginScrape, RenderNext, Render, Terminated, Install, vars, metricVars,
       callVars, processVars
  <2> QED BY <2>1, Zenon DEF BenchRest
<1>7. CASE CloseFails \/ Killed \/ LogRemoved
  BY <1>7, Zenon DEF CloseFails, Killed, LogRemoved
<1> QED BY <1>2, <1>3, <1>4, <1>5, <1>6, <1>7, Zenon DEF Next, MainStep, Worker

\* Operations are finished only when a worker counts one.
LEMMA FinishedStays ==
  ASSUME \A c \in Clients : task'[c].ops = task[c].ops
  PROVE  Finished' = Finished
<1>1. \A x \in Clients \X (1 .. BenchOps) : task'[x[1]].ops = task[x[1]].ops
  BY Zenon
<1> QED BY <1>1, Zenon DEF Finished

\* A step that no worker notices keeps BenchInv.
LEMMA BenchRestKeeps ==
  ASSUME BenchInv, mode = "bench", BenchRest
  PROVE  BenchInv'
<1>1. Tallied' = Tallied /\ Fetched' = Fetched /\ Stored' = Stored
  BY Zenon DEF BenchRest, Tallied, Fetched, Stored, IsTallied, IsFetched, IsStored
<1>2. Finished' = Finished
  BY FinishedStays, Zenon DEF BenchRest
<1>3. UNCHANGED <<counter, total, task>> /\ mode' = "bench" /\ \A c \in Clients : call'[c] = call[c]
  BY Zenon DEF BenchRest, mode
<1>4. main' \notin {"running", "exited"} => \A c \in Clients : task[c].ops = BenchOps
  BY Zenon DEF BenchRest, BenchInv
<1>5. main' # "exited" => main # "exited"
  BY Zenon DEF BenchRest
<1> QED BY <1>1, <1>2, <1>3, <1>4, <1>5, Zenon DEF BenchInv

NothingDone ==
  /\ total \in [Totals -> {0}] /\ counter = Zero.counter
  /\ \A a \in Actors : call[a] = NoCall /\ task[a] = Idle
  /\ main \in {"running", "exited"}

\* BenchInv holds when nothing has been done.
LEMMA BenchStarts == NothingDone => BenchInv
<1> SUFFICES ASSUME NothingDone PROVE BenchInv
  BY Zenon
<1>1. Tallied = {} /\ Fetched = {} /\ Stored = {}
  BY NoCallTyped, ClientsAct DEF NothingDone, Tallied, Fetched, Stored, IsTallied, IsFetched, IsStored
<1>2. Finished = {}
  <2>1. \A c \in Clients : task[c].ops = 0
    BY ClientsAct DEF NothingDone, Idle
  <2>2. \A x \in Clients \X (1 .. BenchOps) : ~ (x[2] <= task[x[1]].ops)
    BY <2>1, ProcessAssumption
  <2> QED BY <2>2, Zenon DEF Finished
<1>3. \A c \in Clients : task[c].ops <= BenchOps /\ call[c].op \in {"none", "put", "get"}
  BY ClientsAct, ProcessAssumption, NoCallTyped DEF NothingDone, Idle
<1>4. /\ counter["puts"] = 0 /\ counter["gets"] = 0 /\ counter["hits"] = 0 /\ counter["misses"] = 0
  BY ZeroValues, Zenon DEF NothingDone, Zero, Counters
<1>5. total \in [Totals -> Nat] /\ total["puts"] = 0 /\ total["gets"] = 0 /\ total["errors"] = 0
  BY DEF NothingDone, Totals
<1>6. Cardinality({}) = 0
  BY FS_EmptySet, Zenon
<1> QED BY <1>1, <1>2, <1>3, <1>4, <1>5, <1>6 DEF NothingDone, BenchInv

\* A worker's call goes on inside the engine.
LEMMA BenchEngine ==
  ASSUME ServeInv, BenchInv, mode = "bench", NEW a \in Actors, EngineStep(a)
  PROVE  BenchInv'
<1>1. /\ LogInv /\ CallsInv /\ Valued /\ ConsoleInv /\ CallStep(a)
      /\ UNCHANGED <<main, task, total>>
  BY Zenon DEF ServeInv, EngineStep, processVars
<1>2. /\ UNCHANGED work /\ call[a].pc # "idle" /\ \A b \in Actors : b # a => call'[b] = call[b]
  BY <1>1, CallStepFrame
<1>3. /\ call'[a].op = call[a].op
      /\ MeasureStep(a) \/ BucketStep(a) \/ TotalStep(a) \/ OutcomeStep(a) \/ QuietStep(a)
  BY <1>1, MetricSteps, Zenon
<1>4. Shape(call[a]) /\ call[a].op # "none" /\ counter \in [Counters -> Nat]
  BY <1>1, <1>2, Zenon DEF CallsInv, Shape, NoCall, Valued
<1>5. mode' = "bench" /\ Finished' = Finished
  BY <1>1, <1>2, FinishedStays DEF mode
<1>6. CASE a = Console
  <2>1. call[a].op = "stats"
    <3>1. call[a] # NoCall
      BY <1>4 DEF NoCall
    <3> QED BY <1>1, <1>6, <3>1, Zenon DEF ConsoleInv, ServeInv, StopInv
  <2>2. call[a].pc \notin {"observe", "bucket", "total", "outcome"}
    BY <1>4, <2>1 DEF Shape, Writes
  <2>3. QuietStep(a)
    BY <1>3, <2>2, Zenon DEF MeasureStep, BucketStep, TotalStep, OutcomeStep
  <2>4. \A k \in {"puts", "gets", "hits", "misses"} : counter'[k] = counter[k]
    BY <1>4, <2>3, Zenon DEF QuietStep, Counters
  <2>5. \A c \in Clients : call'[c] = call[c]
    BY <1>2, <1>6, ClientsAct, Zenon
  <2>6. Tallied' = Tallied /\ Fetched' = Fetched /\ Stored' = Stored
    BY <2>5, Zenon DEF Tallied, Fetched, Stored, IsTallied, IsFetched, IsStored
  <2> QED BY <1>1, <1>5, <2>4, <2>5, <2>6, ZenonT(30) DEF BenchInv
<1>7. CASE a \in Clients
  <2>1. call[a].op \in {"put", "get"}
    BY <1>4, <1>7 DEF BenchInv
  <2>2. /\ Cardinality(Tallied) \in Nat /\ Cardinality(Fetched) \in Nat /\ Cardinality(Stored) \in Nat
        /\ Cardinality(Tallied') =
             Cardinality(Tallied) + One(IsTallied(call'[a])) - One(IsTallied(call[a]))
        /\ Cardinality(Fetched') =
             Cardinality(Fetched) + One(IsFetched(call'[a])) - One(IsFetched(call[a]))
        /\ Cardinality(Stored') =
             Cardinality(Stored) + One(IsStored(call'[a])) - One(IsStored(call[a]))
    BY <1>2, <1>7, ClientsAct, BenchSets, ZenonT(30)
  <2>3. \A c \in Clients : task'[c].ops <= BenchOps /\ call'[c].op \in {"none", "put", "get"}
    BY <1>1, <1>2, <1>3, ClientsAct, Zenon DEF BenchInv
  <2>4. /\ main' \notin {"running", "exited"} => \A c \in Clients : task'[c].ops = BenchOps
        /\ main' # "exited" =>
             total'["puts"] + total'["gets"] + total'["errors"] = Cardinality(Finished')
        /\ total' \in [Totals -> Nat]
    BY <1>1, <1>5 DEF BenchInv
  <2>5. \A k \in {"puts", "gets", "hits", "misses"} : counter[k] \in Nat
    BY <1>4 DEF Counters
  <2>6. \A k \in Totals : total[k] \in Nat /\ total'[k] = total[k]
    BY <1>1 DEF BenchInv
  <2>n. PICK n \in Nat : n = total["puts"] + total["gets"] + total["errors"]
    BY <2>6 DEF Totals
  <2>t. PICK tg \in Nat, tp \in Nat : tg = total["gets"] /\ tp = total["puts"]
    BY <2>6 DEF Totals
  <2> DEFINE Equations == /\ counter'["puts"] + counter'["gets"] = n + Cardinality(Tallied')
                          /\ counter'["hits"] + counter'["misses"] = tg + Cardinality(Fetched')
                          /\ tp + Cardinality(Stored') <= counter'["puts"]
  <2>7. /\ counter["puts"] + counter["gets"] = n + Cardinality(Tallied)
        /\ counter["hits"] + counter["misses"] = tg + Cardinality(Fetched)
        /\ tp + Cardinality(Stored) <= counter["puts"]
    BY <2>n, <2>t, Zenon DEF BenchInv
  <2>8. ASSUME \A k \in {"puts", "gets", "hits", "misses"} : counter'[k] = counter[k],
               call[a].pc \notin {"outcome", "done"}, call'[a].pc \notin {"outcome", "done"}
        PROVE  Equations
    <3>1. /\ One(IsTallied(call'[a])) = 0 /\ One(IsTallied(call[a])) = 0
          /\ One(IsFetched(call'[a])) = 0 /\ One(IsFetched(call[a])) = 0
          /\ One(IsStored(call'[a])) = 0 /\ One(IsStored(call[a])) = 0
      BY <2>8 DEF One, IsTallied, IsFetched, IsStored
    <3>2. /\ Cardinality(Tallied') = Cardinality(Tallied) /\ Cardinality(Fetched') = Cardinality(Fetched)
          /\ Cardinality(Stored') = Cardinality(Stored)
      BY <2>2, <3>1, CountMoves, Zenon
    <3>3. /\ counter'["puts"] = counter["puts"] /\ counter'["gets"] = counter["gets"]
          /\ counter'["hits"] = counter["hits"] /\ counter'["misses"] = counter["misses"]
      BY <2>8, Zenon
    <3> QED BY <2>7, <3>2, <3>3, ZenonT(30)
  <2>9. ASSUME MeasureStep(a) \/ BucketStep(a) \/ QuietStep(a) PROVE Equations
    <3>1. \A k \in {"puts", "gets", "hits", "misses"} : counter'[k] = counter[k]
      BY <1>4, <2>9, Zenon DEF MeasureStep, BucketStep, QuietStep, Counters
    <3>2. call[a].pc \notin {"outcome", "done"} /\ call'[a].pc \notin {"outcome", "done"}
      BY <2>1, <2>9, Zenon DEF MeasureStep, BucketStep, QuietStep, Writes
    <3> QED BY <2>8, <3>1, <3>2
  <2>10. ASSUME TotalStep(a) PROVE Equations
    <3>1. /\ One(IsTallied(call'[a])) = 1 /\ One(IsTallied(call[a])) = 0
          /\ One(IsFetched(call'[a])) = 0 /\ One(IsFetched(call[a])) = 0
          /\ One(IsStored(call'[a])) \in {0, 1} /\ One(IsStored(call[a])) = 0
          /\ call[a].op = "get" => One(IsStored(call'[a])) = 0
      BY <1>3, <2>1, <2>10, Zenon DEF TotalStep, One, IsTallied, IsFetched, IsStored
    <3>2. /\ call[a].op = "put" => counter'["puts"] = counter["puts"] + 1 /\ counter'["gets"] = counter["gets"]
          /\ call[a].op = "get" => counter'["puts"] = counter["puts"] /\ counter'["gets"] = counter["gets"] + 1
          /\ counter'["hits"] = counter["hits"] /\ counter'["misses"] = counter["misses"]
      BY <1>4, <2>1, <2>10, ZenonT(30) DEF TotalStep, CounterOf, Counters
    <3>3. /\ Cardinality(Tallied') = Cardinality(Tallied) + 1
          /\ Cardinality(Fetched') = Cardinality(Fetched)
          /\ Cardinality(Stored') = Cardinality(Stored) + One(IsStored(call'[a]))
      BY <2>2, <3>1, CountMoves, Zenon
    <3>4. counter'["puts"] + counter'["gets"] = n + Cardinality(Tallied')
      <4>1. /\ counter["puts"] \in Nat /\ counter["gets"] \in Nat /\ Cardinality(Tallied) \in Nat
            /\ counter["puts"] + counter["gets"] = n + Cardinality(Tallied)
        BY <2>2, <2>5, <2>7, Zenon
      <4>2. /\ (counter["puts"] + 1) + counter["gets"] = n + (Cardinality(Tallied) + 1)
            /\ counter["puts"] + (counter["gets"] + 1) = n + (Cardinality(Tallied) + 1)
        BY <4>1
      <4> QED BY <2>1, <3>2, <3>3, <4>2, Zenon
    <3>5. tp + Cardinality(Stored') <= counter'["puts"]
      <4>1. \A s, p \in Nat : tp + s <= p =>
              tp + (s + 0) <= p /\ tp + (s + 0) <= p + 1 /\ tp + (s + 1) <= p + 1
        OBVIOUS
      <4>2. /\ tp + (Cardinality(Stored) + 0) <= counter["puts"]
            /\ tp + (Cardinality(Stored) + 0) <= counter["puts"] + 1
            /\ tp + (Cardinality(Stored) + 1) <= counter["puts"] + 1
        BY <2>2, <2>5, <2>7, <4>1, Zenon
      <4> QED BY <2>1, <3>1, <3>2, <3>3, <4>2, Zenon
    <3>6. counter'["hits"] + counter'["misses"] = tg + Cardinality(Fetched')
      BY <2>7, <3>2, <3>3, Zenon
    <3> QED BY <3>4, <3>5, <3>6
  <2>11. ASSUME OutcomeStep(a) PROVE Equations
    <3>1. call[a].op = "get" /\ call[a].res \in {"ok", "notfound"}
      BY <1>4, <2>11, Zenon DEF OutcomeStep, Shape
    <3>2. /\ One(IsTallied(call'[a])) = 1 /\ One(IsTallied(call[a])) = 1
          /\ One(IsFetched(call'[a])) = 1 /\ One(IsFetched(call[a])) = 0
          /\ One(IsStored(call'[a])) = 0 /\ One(IsStored(call[a])) = 0
      BY <1>3, <2>11, <3>1, Zenon DEF OutcomeStep, One, IsTallied, IsFetched, IsStored
    <3>3. /\ counter'["hits"] + counter'["misses"] = counter["hits"] + counter["misses"] + 1
          /\ counter'["puts"] = counter["puts"] /\ counter'["gets"] = counter["gets"]
      BY <1>4, <2>11 DEF OutcomeStep, Counters
    <3>4. /\ Cardinality(Tallied') = Cardinality(Tallied)
          /\ Cardinality(Fetched') = Cardinality(Fetched) + 1
          /\ Cardinality(Stored') = Cardinality(Stored)
      BY <2>2, <3>2, CountMoves, Zenon
    <3>5. counter'["hits"] + counter'["misses"] = tg + Cardinality(Fetched')
      <4>1. \A x, y, c \in Nat : x + y = tg + c => x + y + 1 = tg + (c + 1)
        OBVIOUS
      <4>2. counter["hits"] + counter["misses"] + 1 = tg + (Cardinality(Fetched) + 1)
        BY <2>2, <2>5, <2>7, <4>1
      <4> QED BY <3>3, <3>4, <4>2, Zenon
    <3>6. /\ counter'["puts"] + counter'["gets"] = n + Cardinality(Tallied')
          /\ tp + Cardinality(Stored') <= counter'["puts"]
      BY <2>7, <3>3, <3>4, Zenon
    <3> QED BY <3>5, <3>6
  <2>12. Equations
    BY <1>3, <2>9, <2>10, <2>11, Zenon
  <2>13. /\ counter'["puts"] + counter'["gets"]
              = total'["puts"] + total'["gets"] + total'["errors"] + Cardinality(Tallied')
         /\ counter'["hits"] + counter'["misses"] = total'["gets"] + Cardinality(Fetched')
         /\ total'["puts"] + Cardinality(Stored') <= counter'["puts"]
    BY <1>1, <2>n, <2>t, <2>12, Zenon
  <2> HIDE DEF Equations
  <2> QED BY <2>3, <2>4, <2>13, Zenon DEF BenchInv
<1> QED BY <1>6, <1>7 DEF Actors

\* A worker begins a call.
LEMMA BenchCalls ==
  ASSUME ServeInv, BenchInv, mode = "bench", NEW c \in Clients, WorkerCalls(c)
  PROVE  BenchInv'
<1>1. /\ LogInv /\ call \in [Actors -> CallRecord] /\ c \in Actors
  BY ClientsAct DEF ServeInv, LogInv
<1>2. PICK op \in work.ops \cap {"put", "get"} : call' = [call EXCEPT ![c] = Invoked(op)]
  BY Zenon DEF WorkerCalls
<1>3. /\ call[c] = NoCall /\ call'[c] = Invoked(op)
      /\ \A b \in Clients : b # c => call'[b] = call[b]
  BY <1>1, <1>2, ClientsAct DEF WorkerCalls
<1>4. /\ UNCHANGED <<work, counter, task, total, main>> /\ mode' = "bench"
  BY Zenon DEF WorkerCalls, Stay, metricVars, mode
<1>5. Invoked(op).op = op /\ Invoked(op).pc = "enter"
  <2>1. op \in AllOps /\ op # "release" /\ calls \in Nat
    BY <1>1, <1>2 DEF AllOps, Ops, LogInv
  <2> QED BY <2>1 DEF Invoked, NoCall
<1>6. /\ Cardinality(Tallied) \in Nat /\ Cardinality(Fetched) \in Nat /\ Cardinality(Stored) \in Nat
      /\ Cardinality(Tallied') =
           Cardinality(Tallied) + One(IsTallied(call'[c])) - One(IsTallied(call[c]))
      /\ Cardinality(Fetched') =
           Cardinality(Fetched) + One(IsFetched(call'[c])) - One(IsFetched(call[c]))
      /\ Cardinality(Stored') =
           Cardinality(Stored) + One(IsStored(call'[c])) - One(IsStored(call[c]))
  BY <1>3, BenchSets, Zenon
<1>7. /\ One(IsTallied(call'[c])) = 0 /\ One(IsTallied(call[c])) = 0
      /\ One(IsFetched(call'[c])) = 0 /\ One(IsFetched(call[c])) = 0
      /\ One(IsStored(call'[c])) = 0 /\ One(IsStored(call[c])) = 0
  BY <1>3, <1>5, NoCallTyped, Zenon DEF One, IsTallied, IsFetched, IsStored
<1>8. /\ Cardinality(Tallied') = Cardinality(Tallied) /\ Cardinality(Fetched') = Cardinality(Fetched)
      /\ Cardinality(Stored') = Cardinality(Stored)
  BY <1>6, <1>7
<1>9. \A b \in Clients : task'[b].ops <= BenchOps /\ call'[b].op \in {"none", "put", "get"}
  BY <1>2, <1>3, <1>4, <1>5, Zenon DEF BenchInv
<1>10. Finished' = Finished
  BY <1>4, FinishedStays
<1> QED BY <1>4, <1>8, <1>9, <1>10, Zenon DEF BenchInv

\* A worker counts an operation that the engine has counted already.
LEMMA BenchCounts ==
  ASSUME ServeInv, BenchInv, mode = "bench", NEW c \in Clients, WorkerCounts(c)
  PROVE  BenchInv'
<1>1. /\ call \in [Actors -> CallRecord] /\ c \in Actors /\ call[c] \in CallRecord
      /\ task \in [Actors -> TaskRecord] /\ task[c] \in TaskRecord
      /\ Shape(call[c]) /\ ClientInv(c)
  BY ClientsAct, Zenon DEF ServeInv, LogInv, StopInv, CallsInv
<1>2. /\ call[c].pc = "done" /\ call'[c] = NoCall
      /\ \A b \in Clients : b # c => call'[b] = call[b]
      /\ UNCHANGED <<work, counter, main>> /\ mode' = "bench" /\ main = "running"
  BY <1>1, ClientsAct DEF WorkerCounts, metricVars, engineVars, mode
<1>3. call[c] # NoCall /\ call[c].op \in {"put", "get"}
  BY <1>1, <1>2, NoCallTyped, Zenon DEF Shape, BenchInv
<1>4. task[c].ops \in Nat /\ task[c].ops < BenchOps
  BY <1>1, <1>2, <1>3, Zenon DEF ClientInv, TaskRecord
<1>5. /\ task'[c].ops = task[c].ops + 1
      /\ \A b \in Clients : b # c => task'[b].ops = task[b].ops
  <2>1. PICK r : r = [task[c] EXCEPT !.ops = @ + 1]
    BY Zenon
  <2>2. r.ops = task[c].ops + 1
    BY <1>1, <2>1 DEF TaskRecord
  <2>3. task' = [task EXCEPT ![c] = r]
    BY <2>1, Zenon DEF WorkerCounts
  <2> QED BY <1>1, <2>2, <2>3, ClientsAct
<1>6. total \in [Totals -> Nat]
  BY Zenon DEF BenchInv
<1>7. PICK k \in Totals : k = TallyOf(call[c].op, call[c].res)
  BY Zenon DEF TallyOf, Totals
<1>8. total' = [total EXCEPT ![k] = @ + 1]
  BY <1>7 DEF WorkerCounts
<1>9. /\ total' \in [Totals -> Nat]
      /\ \A x \in Totals : total[x] \in Nat /\ total'[x] = total[x] + One(x = k)
  BY <1>6, <1>8 DEF One
<1>10. /\ Cardinality(Tallied) \in Nat /\ Cardinality(Fetched) \in Nat /\ Cardinality(Stored) \in Nat
       /\ Cardinality(Tallied') =
            Cardinality(Tallied) + One(IsTallied(call'[c])) - One(IsTallied(call[c]))
       /\ Cardinality(Fetched') =
            Cardinality(Fetched) + One(IsFetched(call'[c])) - One(IsFetched(call[c]))
       /\ Cardinality(Stored') =
            Cardinality(Stored) + One(IsStored(call'[c])) - One(IsStored(call[c]))
  BY <1>2, BenchSets, ZenonT(30)
<1>11. /\ One(IsTallied(call'[c])) = 0 /\ One(IsTallied(call[c])) = 1
       /\ One(IsFetched(call'[c])) = 0 /\ One(IsFetched(call[c])) = One("gets" = k)
       /\ One(IsStored(call'[c])) = 0 /\ One(IsStored(call[c])) = One("puts" = k)
  BY <1>2, <1>3, <1>7, NoCallTyped, Zenon DEF One, IsTallied, IsFetched, IsStored, TallyOf
<1>12. One("puts" = k) \in {0, 1} /\ One("gets" = k) \in {0, 1} /\ One("errors" = k) \in {0, 1}
       /\ One("puts" = k) + One("gets" = k) + One("errors" = k) = 1
  BY <1>7 DEF One, Totals
<1>13. /\ total'["puts"] = total["puts"] + One("puts" = k)
       /\ total'["gets"] = total["gets"] + One("gets" = k)
       /\ total'["errors"] = total["errors"] + One("errors" = k)
       /\ total["puts"] \in Nat /\ total["gets"] \in Nat /\ total["errors"] \in Nat
  BY <1>9, Zenon DEF Totals
<1>14. /\ Cardinality(Tallied') = Cardinality(Tallied) - 1
       /\ Cardinality(Fetched') = Cardinality(Fetched) - One("gets" = k)
       /\ Cardinality(Stored') = Cardinality(Stored) - One("puts" = k)
  <2>1. /\ Cardinality(Tallied) + 0 - 1 = Cardinality(Tallied) - 1
        /\ Cardinality(Fetched) + 0 - One("gets" = k) = Cardinality(Fetched) - One("gets" = k)
        /\ Cardinality(Stored) + 0 - One("puts" = k) = Cardinality(Stored) - One("puts" = k)
    <3>1. \A z \in {0, 1} : /\ Cardinality(Tallied) + 0 - 1 = Cardinality(Tallied) - 1
                            /\ Cardinality(Fetched) + 0 - z = Cardinality(Fetched) - z
                            /\ Cardinality(Stored) + 0 - z = Cardinality(Stored) - z
      BY <1>10, CountMoves, Zenon
    <3> QED BY <1>12, <3>1, Zenon
  <2> QED BY <1>10, <1>11, <2>1, Zenon
<1>15. total'["puts"] + total'["gets"] + total'["errors"]
         = total["puts"] + total["gets"] + total["errors"] + 1
  BY <1>12, <1>13
<1>16. PICK n \in Nat : n = total["puts"] + total["gets"] + total["errors"]
  BY <1>13
<1>17. counter'["puts"] + counter'["gets"]
         = total'["puts"] + total'["gets"] + total'["errors"] + Cardinality(Tallied')
  <2>1. counter["puts"] + counter["gets"] = n + Cardinality(Tallied)
    BY <1>16, Zenon DEF BenchInv
  <2>2. n + Cardinality(Tallied) = (n + 1) + (Cardinality(Tallied) - 1)
    BY <1>10
  <2>3. total'["puts"] + total'["gets"] + total'["errors"] = n + 1
    BY <1>15, <1>16, Zenon
  <2> QED BY <1>2, <1>14, <2>1, <2>2, <2>3, Zenon
<1>18. counter'["hits"] + counter'["misses"] = total'["gets"] + Cardinality(Fetched')
  <2>1. counter["hits"] + counter["misses"] = total["gets"] + Cardinality(Fetched)
    BY Zenon DEF BenchInv
  <2>2. total'["gets"] + Cardinality(Fetched') = total["gets"] + Cardinality(Fetched)
    <3>1. \A x, y, z \in Int : (x + z) + (y - z) = x + y
      OBVIOUS
    <3>2. One("gets" = k) \in Int
      BY <1>12
    <3>3. total["gets"] \in Int /\ Cardinality(Fetched) \in Int
      BY <1>10, <1>13
    <3>4. (total["gets"] + One("gets" = k)) + (Cardinality(Fetched) - One("gets" = k))
            = total["gets"] + Cardinality(Fetched)
      BY <3>1, <3>2, <3>3, Zenon
    <3> QED BY <1>13, <1>14, <3>4, Zenon
  <2> QED BY <1>2, <2>1, <2>2, ZenonT(30)
<1>19. total'["puts"] + Cardinality(Stored') <= counter'["puts"]
  <2>1. total["puts"] + Cardinality(Stored) <= counter["puts"]
    BY Zenon DEF BenchInv
  <2>2. total'["puts"] + Cardinality(Stored') = total["puts"] + Cardinality(Stored)
    <3>1. \A x, y, z \in Int : (x + z) + (y - z) = x + y
      OBVIOUS
    <3>2. One("puts" = k) \in Int
      BY <1>12
    <3>3. total["puts"] \in Int /\ Cardinality(Stored) \in Int
      BY <1>10, <1>13
    <3>4. (total["puts"] + One("puts" = k)) + (Cardinality(Stored) - One("puts" = k))
            = total["puts"] + Cardinality(Stored)
      BY <3>1, <3>2, <3>3, Zenon
    <3> QED BY <1>13, <1>14, <3>4, Zenon
  <2> QED BY <1>2, <2>1, <2>2, ZenonT(30)
<1>20. Cardinality(Finished') = Cardinality(Finished) + 1
  <2>1. PICK new : new = <<c, task[c].ops + 1>>
    BY Zenon
  <2>2. new \in Clients \X (1 .. BenchOps) /\ new[1] = c /\ new[2] = task[c].ops + 1
    BY <1>4, <2>1, ProcessAssumption
  <2>3. new \notin Finished
    BY <1>4, <2>2 DEF Finished
  <2>4. ASSUME NEW x \in Clients \X (1 .. BenchOps), x # new
        PROVE  x[2] <= task'[x[1]].ops <=> x[2] <= task[x[1]].ops
    <3>1. CASE x[1] # c
      BY <1>5, <3>1
    <3>2. CASE x[1] = c
      <4>1. x[2] # task[c].ops + 1
        BY <2>1, <2>4, <3>2
      <4>2. x[2] \in 1 .. BenchOps /\ BenchOps \in Nat
        BY ProcessAssumption
      <4> QED BY <1>4, <1>5, <3>2, <4>1, <4>2
    <3> QED BY <3>1, <3>2
  <2>5. new \in Finished'
    BY <1>4, <1>5, <2>2 DEF Finished
  <2>6. Finished' = Finished \cup {new}
    BY <2>2, <2>4, <2>5 DEF Finished
  <2>7. IsFiniteSet(Finished)
    <3>1. IsFiniteSet(1 .. BenchOps)
      <4>1. 1 \in Int /\ BenchOps \in Int
        BY ProcessAssumption
      <4> QED BY <4>1, FS_Interval
    <3>2. IsFiniteSet(Clients \X (1 .. BenchOps))
      BY <3>1, CallsAssumption, FS_Product, Zenon
    <3>3. Finished \subseteq Clients \X (1 .. BenchOps)
      BY Zenon DEF Finished
    <3> QED BY <3>2, <3>3, FS_Subset
  <2>8. Cardinality(Finished \cup {new}) = Cardinality(Finished) + 1
    BY <2>3, <2>7, FS_AddElement, Zenon
  <2> QED BY <2>6, <2>8, Zenon
<1>21. total'["puts"] + total'["gets"] + total'["errors"] = Cardinality(Finished')
  <2>1. total["puts"] + total["gets"] + total["errors"] = Cardinality(Finished)
    BY <1>2, Zenon DEF BenchInv
  <2> QED BY <1>15, <1>20, <2>1, Zenon
<1>22. \A b \in Clients : task'[b].ops <= BenchOps /\ call'[b].op \in {"none", "put", "get"}
  <2>1. task'[c].ops <= BenchOps /\ call'[c].op = "none"
    BY <1>2, <1>4, <1>5, ProcessAssumption, NoCallTyped
  <2>2. \A b \in Clients : task[b].ops <= BenchOps /\ call[b].op \in {"none", "put", "get"}
    BY Zenon DEF BenchInv
  <2> QED BY <1>2, <1>5, <2>1, <2>2, ZenonT(30)
<1>23. main' = "running"
  BY <1>2
<1> QED BY <1>2, <1>9, <1>17, <1>18, <1>19, <1>21, <1>22, <1>23, Zenon DEF BenchInv

\* Every step keeps BenchInv.
LEMMA BenchInvStep ==
  ASSUME ServeInv, BenchInv, [Next]_vars
  PROVE  BenchInv'
<1>w. ASSUME work' = work, mode # "bench" PROVE BenchInv'
  BY <1>w DEF BenchInv, mode
<1>1. work' = work
  <2>1. ASSUME NEW a \in Actors, EngineStep(a) PROVE work' = work
    BY <2>1, CallStepFrame DEF ServeInv, EngineStep
  <2>2. CASE Gone
    BY <2>2, Zenon DEF Gone
  <2>3. CASE Outside
    BY <2>3, Zenon DEF Outside
  <2> QED BY <2>1, <2>2, <2>3, StepKinds DEF ServeInv
<1>2. CASE mode = "bench" /\ Gone
  <2>1. /\ counter' = Zero.counter /\ main' = "exited"
        /\ \A a \in Actors : call'[a] = NoCall /\ task'[a] = Idle
    BY <1>2 DEF Gone
  <2>2. total' \in [Totals -> {0}]
    BY <1>2, Zenon DEF Gone, BenchInv
  <2>3. NothingDone'
    BY <2>1, <2>2 DEF NothingDone
  <2>4. NothingDone' => BenchInv'
    BY BenchStarts, PTL
  <2> QED BY <2>3, <2>4
<1>3. CASE mode = "bench"
  BY <1>2, <1>3, BenchSteps, BenchEngine, BenchCalls, BenchCounts, BenchRestKeeps
<1> QED BY <1>w, <1>1, <1>3

\* When every worker is done, the finished operations are the whole grid.
LEMMA AllFinished ==
  ASSUME \A c \in Clients : task[c].ops = BenchOps
  PROVE  Cardinality(Finished) = BenchOps * Cardinality(Clients)
<1>1. BenchOps \in Nat /\ 1 \in Int /\ BenchOps \in Int
  BY ProcessAssumption
<1>2. Finished = Clients \X (1 .. BenchOps)
  <2>1. \A x \in Clients \X (1 .. BenchOps) : x[2] <= task[x[1]].ops
    BY <1>1
  <2> QED BY <2>1, Zenon DEF Finished
<1>3. IsFiniteSet(1 .. BenchOps) /\ Cardinality(1 .. BenchOps) = BenchOps
  BY <1>1, FS_Interval
<1>4. Cardinality(Clients \X (1 .. BenchOps)) = Cardinality(Clients) * BenchOps
  BY <1>3, CallsAssumption, FS_Product, Zenon
<1>5. Cardinality(Clients) \in Nat
  BY CallsAssumption, FS_CardinalityType
<1>6. Cardinality(Clients) * BenchOps = BenchOps * Cardinality(Clients)
  BY <1>1, <1>5
<1> QED BY <1>2, <1>4, <1>6, Zenon

\* When the benchmark reports, nobody is inside the engine on its behalf.
LEMMA BenchTotalsFollow == ServeInv /\ BenchInv => BenchTotalsExact
<1> SUFFICES ASSUME ServeInv, BenchInv, mode = "bench", main \notin {"running", "exited"}
             PROVE  BenchTotalsExact
  BY Zenon DEF BenchTotalsExact
<1>1. \A c \in Clients : call[c] = NoCall
  BY Zenon DEF ServeInv, StopInv, ClientInv
<1>2. Tallied = {} /\ Fetched = {} /\ Stored = {}
  BY <1>1, NoCallTyped DEF Tallied, Fetched, Stored, IsTallied, IsFetched, IsStored
<1>3. Cardinality({}) = 0
  BY FS_EmptySet
<1>4. /\ total["puts"] \in Nat /\ total["gets"] \in Nat /\ total["errors"] \in Nat
      /\ total.puts = total["puts"] /\ total.gets = total["gets"] /\ total.errors = total["errors"]
  BY DEF BenchInv, Totals
<1>5. Cardinality(Finished) = BenchOps * Cardinality(Clients)
  BY AllFinished DEF BenchInv
<1>6. PICK n \in Nat : n = total["puts"] + total["gets"] + total["errors"]
  BY <1>4
<1>7. /\ counter["puts"] + counter["gets"] = n + 0
      /\ counter["hits"] + counter["misses"] = total["gets"] + 0
      /\ total["puts"] + 0 <= counter["puts"]
      /\ n = BenchOps * Cardinality(Clients)
  BY <1>2, <1>3, <1>5, <1>6, Zenon DEF BenchInv
<1>8. n + 0 = n /\ total["gets"] + 0 = total["gets"] /\ total["puts"] + 0 = total["puts"]
  BY <1>4
<1> QED BY <1>4, <1>6, <1>7, <1>8, Zenon DEF BenchTotalsExact

(***************************************************************************)
(* The report of the benchmark is exact: its totals are those of the       *)
(* engine's counters, and every operation of every worker is in one of     *)
(* them, whatever calls failed (main.go's runBenchmark, recordGet and the  *)
(* counters of engine/engine.go).                                          *)
(***************************************************************************)
THEOREM BenchTotalsExactAlways == Spec => []BenchTotalsExact
<1>1. Init => BenchInv
  <2> SUFFICES ASSUME Init PROVE BenchInv
    BY Zenon
  <2>1. total \in [Totals -> {0}]
    BY DEF Init, Totals
  <2>2. NothingDone
    BY <2>1 DEF NothingDone, Init, InitMetrics, InitCalls
  <2> QED BY <2>2, BenchStarts
<1>2. ServeInv /\ BenchInv /\ [Next]_vars => BenchInv'
  BY BenchInvStep, Zenon
<1> QED BY <1>1, <1>2, ServeInvAlways, BenchTotalsFollow, PTL DEF Spec
=============================================================================
