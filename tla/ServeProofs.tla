----------------------------- MODULE ServeProofs -----------------------------
(***************************************************************************)
(* The process, for any number of clients and any workload: no write that  *)
(* was acknowledged is lost on the way out, no request that Shutdown waits *)
(* for finds the engine closed, and the REPL's snapshot is released.       *)
(***************************************************************************)
EXTENDS Shutdown, Functions, FiniteSetTheorems, WellFoundedInduction, TLAPS

(* Least elements, and sums over finite sets.                              *)

\* A set of natural numbers has a least element.
LEMMA LeastExists ==
  ASSUME NEW S \in SUBSET Nat, S # {}
  PROVE  \E m \in S : \A y \in S : m <= y
<1> DEFINE R == {p \in Nat \X Nat : p[1] < p[2]}
<1>1. IsWellFoundedOn(R, Nat)
  BY NatLessThanWellFounded, Zenon DEF OpToRel
<1>2. PICK m \in S : \A y \in S : <<y, m>> \notin R
  <2> HIDE DEF R
  <2> QED BY <1>1, WFMin
<1>3. \A y \in S : ~(y < m)
  BY <1>2
<1> QED BY <1>3

\* A set of finite sets has a member of which no member is a proper part.
LEMMA SmallestSubset ==
  ASSUME NEW S, IsFiniteSet(S), NEW T \in SUBSET SUBSET S, T # {}
  PROVE  \E m \in T : \A u \in SUBSET m : u # m => u \notin T
<1>1. T \subseteq FiniteSubsetsOf(S)
  BY FS_Subset DEF FiniteSubsetsOf
<1>2. IsWellFoundedOn(StrictSubsetOrdering(S), FiniteSubsetsOf(S))
  BY FS_StrictSubsetOrderingWellFounded
<1>3. PICK m \in T : \A a \in T : ~ (<<a, m>> \in StrictSubsetOrdering(S))
  BY <1>1, <1>2, WFMin
<1>4. ASSUME NEW u \in SUBSET m, u # m, u \in T PROVE FALSE
  <2>1. u \in SUBSET S /\ m \in SUBSET S /\ u \subseteq m /\ m # u
    BY <1>3, <1>4
  <2>2. <<u, m>> \in StrictSubsetOrdering(S)
    BY <2>1, <1>1, <1>4 DEF StrictSubsetOrdering, FiniteSubsetsOf
  <2> QED BY <1>3, <1>4, <2>2
<1> QED BY <1>4

\* g holds the sums of f over the sets of arguments of f, taken as
\* SumFunction takes them: an element at a time.
Taken(s) == CHOOSE x \in s : TRUE
Sums(f, g) ==
  g = [s \in SUBSET DOMAIN f |->
         IF s = {} THEN 0 ELSE f[Taken(s)] + g[s \ {Taken(s)}]]

\* SumFunction(f) is what the partial sums of f say of all its arguments.
LEMMA SumIs ==
  ASSUME NEW f
  PROVE  SumFunction(f) = (CHOOSE g : Sums(f, g))[DOMAIN f]
  BY DEF SumFunction, SumFunctionOnSet, FoldFunctionOnSet, MapThenFoldSet, Sums, Taken

\* The element that a sum takes first is one of the set.
LEMMA TakenIn == ASSUME NEW s, s # {} PROVE Taken(s) \in s
  BY DEF Taken

\* The sums over the sets of at most n arguments.
Small(S, n) == {s \in SUBSET S : Cardinality(s) <= n}
SmallSums(f, S, n) ==
  {g \in [Small(S, n) -> Int] :
     \A s \in Small(S, n) :
       g[s] = IF s = {} THEN 0 ELSE f[Taken(s)] + g[s \ {Taken(s)}]}

\* There are sums over the sets of at most n arguments, for every n.
LEMMA SmallSumsExist ==
  ASSUME NEW S, IsFiniteSet(S), NEW f \in [S -> Int], NEW n \in Nat
  PROVE  SmallSums(f, S, n) # {}
<1> DEFINE Bad == {k \in Nat : SmallSums(f, S, k) = {}}
<1> SUFFICES ASSUME Bad # {} PROVE FALSE
  OBVIOUS
<1>1. PICK k \in Bad : \A y \in Bad : k <= y
  <2>1. Bad \in SUBSET Nat
    OBVIOUS
  <2> HIDE DEF Bad
  <2> QED BY <2>1, LeastExists
<1>2. \A s \in SUBSET S : IsFiniteSet(s) /\ Cardinality(s) \in Nat /\ (Cardinality(s) = 0 <=> s = {})
  BY FS_Subset, FS_CardinalityType, FS_EmptySet
<1>3. CASE k = 0
  <2>1. Small(S, 0) = {{}}
    BY <1>2 DEF Small
  <2>2. [s \in Small(S, 0) |-> 0] \in SmallSums(f, S, 0)
    BY <2>1 DEF SmallSums
  <2> QED BY <1>1, <1>3, <2>2
<1>4. CASE k # 0
  <2>1. k - 1 \in Nat /\ k - 1 \notin Bad
    BY <1>1, <1>4
  <2>2. PICK g : g \in SmallSums(f, S, k - 1)
    BY <2>1
  <2> DEFINE h == [s \in Small(S, k) |->
                     IF s = {} THEN 0 ELSE f[Taken(s)] + g[s \ {Taken(s)}]]
  <2>3. g \in [Small(S, k - 1) -> Int]
        /\ \A s \in Small(S, k - 1) :
             g[s] = IF s = {} THEN 0 ELSE f[Taken(s)] + g[s \ {Taken(s)}]
    BY <2>2 DEF SmallSums
  <2>4. Small(S, k - 1) \subseteq Small(S, k)
    BY <1>1, <1>2 DEF Small
  <2>5. \A s \in Small(S, k - 1) : h[s] = g[s]
    BY <2>3, <2>4, Zenon
  <2>6. ASSUME NEW s \in Small(S, k), s # {}
        PROVE  s \ {Taken(s)} \in Small(S, k - 1) /\ Taken(s) \in S
    <3>1. Taken(s) \in s /\ s \in SUBSET S /\ Cardinality(s) <= k /\ IsFiniteSet(s)
      BY <1>2, <2>6, TakenIn DEF Small
    <3>2. Cardinality(s \ {Taken(s)}) = Cardinality(s) - 1
      BY <3>1, FS_RemoveElement, Zenon
    <3> QED BY <1>1, <1>2, <3>1, <3>2 DEF Small
  <2>7. h \in [Small(S, k) -> Int]
    BY <2>3, <2>6
  <2>8. \A s \in Small(S, k) :
          h[s] = IF s = {} THEN 0 ELSE f[Taken(s)] + h[s \ {Taken(s)}]
    BY <2>5, <2>6, Zenon
  <2> HIDE DEF h
  <2>9. h \in SmallSums(f, S, k)
    BY <2>7, <2>8 DEF SmallSums
  <2> QED BY <1>1, <2>9
<1> QED BY <1>3, <1>4

\* The sums that SumFunction(f) is the last of.
AreSums(f, S, q) ==
  /\ SumFunction(f) = q[S]
  /\ q[{}] = 0
  /\ \A s \in SUBSET S : s # {} => q[s] = f[Taken(s)] + q[s \ {Taken(s)}]
  /\ \A s \in SUBSET S : q[s] \in Int

\* Partial sums exist for every finite set.
LEMMA SumsExist ==
  ASSUME NEW S, IsFiniteSet(S), NEW f \in [S -> Int]
  PROVE  \E q : AreSums(f, S, q)
<1>1. PICK n \in Nat : n = Cardinality(S)
  BY FS_CardinalityType
<1>2. Small(S, n) = SUBSET S
  BY <1>1, FS_Subset DEF Small
<1>3. PICK g : g \in SmallSums(f, S, n)
  BY SmallSumsExist
<1>4. g \in [SUBSET S -> Int]
      /\ \A s \in SUBSET S :
           g[s] = IF s = {} THEN 0 ELSE f[Taken(s)] + g[s \ {Taken(s)}]
  BY <1>2, <1>3 DEF SmallSums
<1>5. Sums(f, g)
  BY <1>4 DEF Sums
<1>6. Sums(f, CHOOSE r : Sums(f, r))
  BY <1>5
<1>7. PICK q : q = CHOOSE r : Sums(f, r)
  OBVIOUS
<1>8. q = [s \in SUBSET S |->
             IF s = {} THEN 0 ELSE f[Taken(s)] + q[s \ {Taken(s)}]]
  BY <1>6, <1>7, Zenon DEF Sums
<1>9. /\ q[{}] = 0
      /\ \A s \in SUBSET S : s # {} => q[s] = f[Taken(s)] + q[s \ {Taken(s)}]
  <2>1. \A s \in SUBSET S : q[s] = IF s = {} THEN 0 ELSE f[Taken(s)] + q[s \ {Taken(s)}]
    BY <1>8, Zenon
  <2> QED BY <2>1, Zenon
<1>10. \A s \in SUBSET S : q[s] \in Int
  <2> DEFINE T == {s \in SUBSET S : q[s] \notin Int}
  <2> SUFFICES ASSUME T # {} PROVE FALSE
    OBVIOUS
  <2>1. PICK m \in T : \A u \in SUBSET m : u # m => u \notin T
    <3>1. T \in SUBSET SUBSET S
      OBVIOUS
    <3> HIDE DEF T
    <3> QED BY <3>1, SmallestSubset
  <2>2. m \in SUBSET S /\ m # {}
    <3>1. {} \notin T
      BY <1>9
    <3> QED BY <2>1, <3>1, Zenon
  <2>3. Taken(m) \in m /\ m \ {Taken(m)} \in SUBSET S /\ m \ {Taken(m)} # m
    BY <2>2, TakenIn
  <2>4. q[m \ {Taken(m)}] \in Int
    BY <2>1, <2>3
  <2>5. f[Taken(m)] \in Int
    BY <2>2, <2>3
  <2>6. q[m] = f[Taken(m)] + q[m \ {Taken(m)}]
    BY <1>9, <2>2
  <2>7. q[m] \in Int
    BY <2>4, <2>5, <2>6
  <2> QED BY <2>1, <2>7
<1>11. SumFunction(f) = q[S]
  BY <1>7, SumIs
<1> QED BY <1>9, <1>10, <1>11, Zenon DEF AreSums

\* Sums of functions that are pointwise in order are in order.
LEMMA SumMonotone ==
  ASSUME NEW S, IsFiniteSet(S), NEW f \in [S -> Int], NEW h \in [S -> Int],
         \A x \in S : f[x] <= h[x]
  PROVE  SumFunction(f) <= SumFunction(h)
<1>1. PICK p : AreSums(f, S, p)
  BY SumsExist
<1>q. PICK q : AreSums(h, S, q)
  BY SumsExist
<1>2. /\ SumFunction(f) = p[S] /\ p[{}] = 0
      /\ \A s \in SUBSET S : s # {} => p[s] = f[Taken(s)] + p[s \ {Taken(s)}]
      /\ \A s \in SUBSET S : p[s] \in Int
  BY <1>1 DEF AreSums
<1>3. /\ SumFunction(h) = q[S] /\ q[{}] = 0
      /\ \A s \in SUBSET S : s # {} => q[s] = h[Taken(s)] + q[s \ {Taken(s)}]
      /\ \A s \in SUBSET S : q[s] \in Int
  BY <1>q DEF AreSums
<1> DEFINE T == {s \in SUBSET S : ~ (p[s] <= q[s])}
<1>4. T = {}
  <2> SUFFICES ASSUME T # {} PROVE FALSE
    OBVIOUS
  <2>1. PICK m \in T : \A u \in SUBSET m : u # m => u \notin T
    <3>1. T \in SUBSET SUBSET S
      OBVIOUS
    <3> HIDE DEF T
    <3> QED BY <3>1, SmallestSubset
  <2>2. m \in SUBSET S /\ m # {}
    <3>1. {} \notin T
      BY <1>2, <1>3
    <3> QED BY <2>1, <3>1, Zenon
  <2>3. Taken(m) \in m /\ m \ {Taken(m)} \in SUBSET S /\ m \ {Taken(m)} # m
    BY <2>2, TakenIn
  <2>4. p[m \ {Taken(m)}] <= q[m \ {Taken(m)}]
    BY <2>1, <2>3
  <2>5. f[Taken(m)] <= h[Taken(m)] /\ f[Taken(m)] \in Int /\ h[Taken(m)] \in Int
    BY <2>2, <2>3
  <2>6. p[m] = f[Taken(m)] + p[m \ {Taken(m)}] /\ q[m] = h[Taken(m)] + q[m \ {Taken(m)}]
    BY <1>2, <1>3, <2>2, Zenon
  <2>7. p[m \ {Taken(m)}] \in Int /\ q[m \ {Taken(m)}] \in Int
    BY <1>2, <1>3, <2>3
  <2>8. p[m] <= q[m]
    BY <2>4, <2>5, <2>6, <2>7
  <2> QED BY <2>1, <2>8
<1> QED BY <1>2, <1>3, <1>4

\* One more at one place is one more in the sum.
LEMMA SumAddOne ==
  ASSUME NEW S, IsFiniteSet(S), NEW f \in [S -> Int], NEW e \in S
  PROVE  SumFunction([f EXCEPT ![e] = @ + 1]) = SumFunction(f) + 1
<1>1. PICK h : h = [f EXCEPT ![e] = @ + 1]
  BY Zenon
<1>h. h \in [S -> Int] /\ h[e] = f[e] + 1 /\ \A x \in S : x # e => h[x] = f[x]
  BY <1>1
<1>p. PICK p : AreSums(f, S, p)
  BY SumsExist
<1>q. PICK q : AreSums(h, S, q)
  BY <1>h, SumsExist
<1>2. /\ SumFunction(f) = p[S] /\ p[{}] = 0
      /\ \A s \in SUBSET S : s # {} => p[s] = f[Taken(s)] + p[s \ {Taken(s)}]
      /\ \A s \in SUBSET S : p[s] \in Int
  BY <1>p, Zenon DEF AreSums
<1>3. /\ SumFunction(h) = q[S] /\ q[{}] = 0
      /\ \A s \in SUBSET S : s # {} => q[s] = h[Taken(s)] + q[s \ {Taken(s)}]
      /\ \A s \in SUBSET S : q[s] \in Int
  BY <1>q, Zenon DEF AreSums
<1> DEFINE More(s) == IF e \in s THEN 1 ELSE 0
           T == {s \in SUBSET S : q[s] # p[s] + More(s)}
<1>4. T = {}
  <2> SUFFICES ASSUME T # {} PROVE FALSE
    OBVIOUS
  <2>1. PICK m \in T : \A u \in SUBSET m : u # m => u \notin T
    <3>1. T \in SUBSET SUBSET S
      OBVIOUS
    <3> HIDE DEF T
    <3> QED BY <3>1, SmallestSubset
  <2>2. m \in SUBSET S /\ m # {}
    <3>1. More({}) = 0 /\ {} \notin T
      BY <1>2, <1>3
    <3> QED BY <2>1, <3>1, Zenon
  <2>3. Taken(m) \in m /\ m \ {Taken(m)} \in SUBSET S /\ m \ {Taken(m)} # m
    BY <2>2, TakenIn
  <2>4. q[m \ {Taken(m)}] = p[m \ {Taken(m)}] + More(m \ {Taken(m)})
    BY <2>1, <2>3
  <2>6. p[m] = f[Taken(m)] + p[m \ {Taken(m)}] /\ q[m] = h[Taken(m)] + q[m \ {Taken(m)}]
    BY <1>2, <1>3, <2>2, Zenon
  <2>7. p[m \ {Taken(m)}] \in Int /\ q[m \ {Taken(m)}] \in Int /\ f[Taken(m)] \in Int
    BY <1>2, <1>3, <2>2, <2>3
  <2>8. q[m] = p[m] + More(m)
    <3>1. CASE Taken(m) = e
      BY <1>h, <2>3, <2>4, <2>6, <2>7, <3>1
    <3>2. CASE Taken(m) # e
      <4>1. h[Taken(m)] = f[Taken(m)] /\ More(m \ {Taken(m)}) = More(m)
        BY <1>h, <2>2, <2>3, <3>2
      <4> QED BY <2>4, <2>6, <2>7, <4>1
    <3> QED BY <3>1, <3>2
  <2> QED BY <2>1, <2>8
<1>5. q[S] = p[S] + More(S)
  BY <1>4
<1> QED BY <1>1, <1>2, <1>3, <1>5

\* The sum of zeros.
LEMMA SumZero ==
  ASSUME NEW S, IsFiniteSet(S), NEW f \in [S -> Int], \A x \in S : f[x] = 0
  PROVE  SumFunction(f) = 0
<1>1. PICK p : AreSums(f, S, p)
  BY SumsExist
<1>2. /\ SumFunction(f) = p[S] /\ p[{}] = 0
      /\ \A s \in SUBSET S : s # {} => p[s] = f[Taken(s)] + p[s \ {Taken(s)}]
  BY <1>1 DEF AreSums
<1> DEFINE T == {s \in SUBSET S : p[s] # 0}
<1>4. T = {}
  <2> SUFFICES ASSUME T # {} PROVE FALSE
    OBVIOUS
  <2>1. PICK m \in T : \A u \in SUBSET m : u # m => u \notin T
    <3>1. T \in SUBSET SUBSET S
      OBVIOUS
    <3> HIDE DEF T
    <3> QED BY <3>1, SmallestSubset
  <2>2. m \in SUBSET S /\ m # {}
    BY <1>2, <2>1, Zenon
  <2>3. Taken(m) \in m /\ m \ {Taken(m)} \in SUBSET S /\ m \ {Taken(m)} # m
    BY <2>2, TakenIn
  <2>4. p[m \ {Taken(m)}] = 0 /\ f[Taken(m)] = 0
    BY <2>1, <2>2, <2>3
  <2>5. p[m] = 0
    BY <1>2, <2>2, <2>4
  <2> QED BY <2>1, <2>5
<1> QED BY <1>2, <1>4

\* The sum of integers is one.
LEMMA SumType ==
  ASSUME NEW S, IsFiniteSet(S), NEW f \in [S -> Int]
  PROVE  SumFunction(f) \in Int
<1>1. PICK q : AreSums(f, S, q)
  BY SumsExist
<1> QED BY <1>1 DEF AreSums

-----------------------------------------------------------------------------
(* What the calls are made of.                                             *)

CallSteps ==
  {"idle", "enter", "work", "level", "observe", "bucket", "total", "outcome",
   "register", "opened", "gaugeUp", "release", "gaugeDown", "done"}
Results == {"none", "ok", "notfound", "closed", "error"}
AllOps == Ops \cup {"plain", "none"}
CallRecord == [pc : CallSteps, op : AllOps, id : Nat, at : Nat, res : Results]

\* Close removes the log when the table holds all of it and no call is inside
\* the engine; a write that returned without error is in one of the two.
LogInv ==
  /\ work \in Workloads
  /\ call \in [Actors -> CallRecord] /\ calls \in Nat
  /\ main = "remove" => exclusive /\ Readers = {} /\ wal \subseteq table
  /\ AckedWritesSurvive
  /\ \A a \in Actors :
       /\ call[a].op \in Writes /\ call[a].res = "ok" => call[a].id \in wal \cup table
       /\ call[a].pc \in {"level", "release", "gaugeDown"} => call[a].op \notin Writes

\* A step that writes nothing, acknowledges nothing and lets no call into the
\* engine while Close holds the lock.
Harmless ==
  /\ UNCHANGED <<work, wal, table, acked, exclusive>>
  /\ main' = main \/ (main # "remove" /\ main' # "remove")
  /\ call' \in [Actors -> CallRecord] /\ calls' \in Nat
  /\ \A a \in Actors :
       /\ call'[a].op \in Writes /\ call'[a].res = "ok" =>
            call[a].op \in Writes /\ call[a].res = "ok" /\ call'[a].id = call[a].id
       /\ call'[a].pc \in {"level", "release", "gaugeDown"} => call'[a].op \notin Writes
       /\ exclusive /\ call'[a].pc \in {"work", "level"} => call[a].pc \in {"work", "level"}

\* A harmless step keeps LogInv.
LEMMA HarmlessKeepsLog == LogInv /\ Harmless => LogInv'
<1> SUFFICES ASSUME LogInv, Harmless PROVE LogInv'
  BY Zenon
<1>1. main' = "remove" => exclusive' /\ Readers' = {} /\ wal' \subseteq table'
  BY Zenon DEF LogInv, Harmless, Readers
<1>2. AckedWritesSurvive'
  BY Zenon DEF LogInv, Harmless, AckedWritesSurvive
<1>3. \A a \in Actors :
        /\ call'[a].op \in Writes /\ call'[a].res = "ok" => call'[a].id \in wal' \cup table'
        /\ call'[a].pc \in {"level", "release", "gaugeDown"} => call'[a].op \notin Writes
  BY Zenon DEF LogInv, Harmless
<1> QED BY <1>1, <1>2, <1>3, Zenon DEF LogInv, Harmless

\* One goroutine's call changes.
LEMMA OneCall ==
  ASSUME NEW a \in Actors, NEW c \in CallRecord, call \in [Actors -> CallRecord],
         call' = [call EXCEPT ![a] = c]
  PROVE  /\ call' \in [Actors -> CallRecord]
         /\ call'[a] = c
         /\ \A b \in Actors : b # a => call'[b] = call[b]
  BY Zenon

\* The record of a goroutine that is in no call.
LEMMA NoCallTyped ==
  NoCall \in CallRecord /\ NoCall.op = "none" /\ NoCall.res = "none" /\ NoCall.pc = "idle"
  BY Zenon DEF NoCall, CallRecord, CallSteps, AllOps, Results

\* The record of a call that begins.
LEMMA InvokedTyped ==
  ASSUME calls \in Nat, NEW op \in AllOps
  PROVE  /\ Invoked(op) \in CallRecord
         /\ Invoked(op).op = op /\ Invoked(op).res = "none"
         /\ Invoked(op).pc = IF op = "release" THEN "release" ELSE "enter"
<1>1. NoCall \in CallRecord /\ NoCall.res = "none" /\ calls + 1 \in Nat
  BY NoCallTyped
<1>2. PICK pc \in CallSteps : pc = IF op = "release" THEN "release" ELSE "enter"
  BY Zenon DEF CallSteps
<1>3. Invoked(op) = [NoCall EXCEPT !.pc = pc, !.op = op, !.id = calls + 1]
  BY <1>2, Zenon DEF Invoked
<1> QED BY <1>1, <1>2, <1>3, Zenon DEF CallRecord

\* What a call does inside the engine, other than a write.
LEMMA EnterHarmless ==
  ASSUME LogInv, NEW a \in Actors, Enter(a), UNCHANGED processVars
  PROVE  Harmless
<1>1. UNCHANGED <<work, wal, table, acked, exclusive, main, calls>> /\ calls \in Nat
  BY Zenon DEF Enter, engineVars, processVars, LogInv
<1>2. call \in [Actors -> CallRecord] /\ ~exclusive
  BY Zenon DEF LogInv, Enter
<1>3. call' \in [Actors -> CallRecord]
  BY <1>2 DEF Enter, Finish, Goto, Counted, CallRecord, CallSteps, Results
<1>4. /\ call'[a].op = call[a].op /\ call'[a].id = call[a].id
      /\ call'[a].res \in {call[a].res, "closed"}
      /\ call'[a].pc \in {"work", "observe", "done"}
      /\ \A b \in Actors : b # a => call'[b] = call[b]
  BY <1>2 DEF Enter, Finish, Goto, Counted, CallRecord
<1> QED BY <1>1, <1>2, <1>3, <1>4, Zenon DEF Harmless, LogInv

\* The steps of a read are harmless.
LEMMA ReadHarmless ==
  ASSUME LogInv, NEW a \in Actors, DoRead(a) \/ SetTotal(a) \/ SetLevel(a), UNCHANGED processVars
  PROVE  Harmless
<1>1. UNCHANGED <<work, wal, table, acked, exclusive, main, calls>> /\ calls \in Nat
  BY Zenon DEF DoRead, SetTotal, SetLevel, engineVars, processVars, LogInv
<1>2. call \in [Actors -> CallRecord] /\ call[a].pc \in {"work", "level"}
  BY Zenon DEF LogInv, DoRead, SetTotal, SetLevel
<1>3. call[a].op \notin Writes
  BY Zenon DEF DoRead, SetTotal, SetLevel, LogInv, Writes
<1>4. call' \in [Actors -> CallRecord]
  BY <1>2 DEF DoRead, SetTotal, SetLevel, Finish, CallRecord, CallSteps, Results
<1>5. call'[a].op = call[a].op /\ \A b \in Actors : b # a => call'[b] = call[b]
  BY <1>2 DEF DoRead, SetTotal, SetLevel, Finish, CallRecord
<1> QED BY <1>1, <1>2, <1>3, <1>4, <1>5, Zenon DEF Harmless, LogInv

\* The steps in which a call counts itself are harmless.
LEMMA CountHarmless ==
  ASSUME LogInv, NEW a \in Actors,
         Observe(a) \/ Count(a) \/ OpenSnapshot(a) \/ CloseSnapshot(a), UNCHANGED processVars
  PROVE  Harmless
<1>1. UNCHANGED <<work, wal, table, acked, exclusive, main, calls>> /\ calls \in Nat
  BY Zenon DEF Observe, Count, OpenSnapshot, CloseSnapshot, engineVars, processVars, LogInv
<1>2. call \in [Actors -> CallRecord]
  BY Zenon DEF LogInv
<1>3. call' \in [Actors -> CallRecord]
  BY <1>2 DEF Observe, Count, OpenSnapshot, CloseSnapshot, Goto, Finish, CallRecord, CallSteps, Results
<1>4. /\ call'[a].op = call[a].op /\ call'[a].id = call[a].id
      /\ call'[a].pc \notin {"work", "level", "release"}
      /\ \A b \in Actors : b # a => call'[b] = call[b]
  BY <1>2 DEF Observe, Count, OpenSnapshot, CloseSnapshot, Goto, Finish, CallRecord
<1>5. \/ call[a].op \notin Writes
      \/ call'[a].res = call[a].res /\ call'[a].pc # "gaugeDown"
  BY <1>2 DEF Observe, Count, OpenSnapshot, CloseSnapshot, Goto, Finish, CallRecord, LogInv
<1> QED BY <1>1, <1>2, <1>3, <1>4, <1>5, Zenon DEF Harmless, LogInv
\* A call that begins and a call that is over are harmless as well.
LEMMA NewCallHarmless ==
  ASSUME LogInv, NEW a \in Actors, NEW c \in CallRecord,
         call' = call \/ call' = [call EXCEPT ![a] = c],
         c.res = "none", c.pc \in {"idle", "enter", "release"},
         c.pc = "release" => c.op \notin Writes,
         calls' \in Nat, UNCHANGED <<work, wal, table, acked, exclusive>>,
         main' = main \/ (main # "remove" /\ main' # "remove")
  PROVE  Harmless
<1>1. call' \in [Actors -> CallRecord]
      /\ \A b \in Actors : call'[b] = call[b] \/ call'[b] = c
  BY OneCall, Zenon DEF LogInv
<1> QED BY <1>1, Zenon DEF Harmless, LogInv

\* The operations of a workload are operations of the engine.
LEMMA OpsTyped == LogInv => work.ops \subseteq AllOps /\ "stats" \in AllOps /\ "release" \in AllOps
                            /\ "put" \in AllOps
  BY CallsAssumption, Zenon DEF LogInv, AllOps, Ops

\* To begin a call is harmless.
LEMMA InvokeHarmless ==
  ASSUME LogInv, NEW a \in Actors, NEW op \in AllOps, call' = [call EXCEPT ![a] = Invoked(op)],
         calls' \in Nat, UNCHANGED <<work, wal, table, acked, exclusive>>,
         main' = main \/ (main # "remove" /\ main' # "remove")
  PROVE  Harmless
<1>1. calls \in Nat
  BY Zenon DEF LogInv
<1>2. PICK c \in CallRecord : c = Invoked(op)
  BY <1>1, InvokedTyped, Zenon
<1>3. /\ c.res = "none" /\ c.pc \in {"idle", "enter", "release"}
      /\ c.pc = "release" => c.op \notin Writes
  BY <1>1, <1>2, InvokedTyped, Zenon DEF Writes
<1> QED BY <1>2, <1>3, NewCallHarmless, Zenon

\* So is a step that at most ends a call and leaves log and table alone.
LEMMA RestHarmless ==
  ASSUME LogInv, NEW a \in Actors,
         call' = call \/ call' = [call EXCEPT ![a] = NoCall],
         calls' = calls, UNCHANGED <<work, wal, table, acked, exclusive>>,
         main' = main \/ (main # "remove" /\ main' # "remove")
  PROVE  Harmless
<1>1. calls' \in Nat
  BY Zenon DEF LogInv
<1> QED BY <1>1, NoCallTyped, NewCallHarmless, Zenon

\* Handlers and workers, but for the answer to a write.
LEMMA HandlerHarmless ==
  ASSUME LogInv, NEW c \in Clients, Handler(c) \/ Worker(c), ~ Respond(c)
  PROVE  Harmless
<1> USE DEF Stay
<1>1. c \in Actors /\ calls \in Nat /\ calls + 1 \in Nat
  BY DEF Actors, LogInv
<1>2. CASE RequestPut(c) \/ BodyFails(c) \/ RequestPlain(c) \/ Replied(c)
  <2>1. UNCHANGED <<call, calls, work, wal, table, acked, exclusive, main>>
    BY <1>2, Zenon DEF RequestPut, BodyFails, RequestPlain, Replied
  <2> QED BY <2>1, <1>1, RestHarmless, Zenon
<1>3. CASE BodyRead(c)
  <2>1. /\ UNCHANGED <<work, wal, table, acked, exclusive, main>> /\ calls' = calls + 1
        /\ call' = [call EXCEPT ![c] = Invoked("put")]
    BY <1>3, Zenon DEF BodyRead, Invoke
  <2> QED BY <2>1, <1>1, OpsTyped, InvokeHarmless, Zenon
<1>4. CASE RequestOther(c)
  <2>1. PICK op \in work.ops : Invoke(c, op)
    BY <1>4, Zenon DEF RequestOther
  <2>2. UNCHANGED <<work, wal, table, acked, exclusive, main>>
    BY <1>4, Zenon DEF RequestOther
  <2> QED BY <2>1, <2>2, <1>1, OpsTyped, InvokeHarmless, Zenon DEF Invoke
<1>5. CASE WorkerCalls(c)
  <2>1. PICK op \in work.ops : call' = [call EXCEPT ![c] = Invoked(op)]
    BY <1>5, Zenon DEF WorkerCalls
  <2>2. UNCHANGED <<work, wal, table, acked, exclusive, main>> /\ calls' = calls + 1
    BY <1>5, Zenon DEF WorkerCalls
  <2> QED BY <2>1, <2>2, <1>1, OpsTyped, InvokeHarmless, Zenon
<1>6. CASE WorkerCounts(c)
  <2>1. /\ UNCHANGED <<calls, work, wal, table, acked, exclusive, main>>
        /\ call' = [call EXCEPT ![c] = NoCall]
    BY <1>6, Zenon DEF WorkerCounts, engineVars
  <2> QED BY <2>1, <1>1, RestHarmless, Zenon
<1> QED BY <1>2, <1>3, <1>4, <1>5, <1>6, Zenon DEF Handler, Worker

\* The main goroutine up to the final flush, the debug server and the installs.
LEMMA MainHarmless ==
  ASSUME LogInv,
         \/ Command \/ Quit \/ Unsnapped \/ BenchWaited \/ BenchReported
         \/ Interrupt \/ ListenFails \/ Drained \/ ShutdownDeadline \/ DebugDrained \/ DebugDeadline
         \/ CloseFlag \/ WorkersStop \/ Scrape \/ RenderNext \/ Terminated
         \/ Install /\ UNCHANGED processVars
  PROVE  Harmless
<1> USE DEF Stay, Main, Frame
<1>1. Console \in Actors /\ calls \in Nat /\ calls + 1 \in Nat
  BY DEF Actors, LogInv
<1>2. CASE Command
  <2>1. PICK op \in work.ops : Invoke(Console, op)
    BY <1>2, Zenon DEF Command
  <2>2. UNCHANGED <<work, wal, table, acked, exclusive, main>>
    BY <1>2, Zenon DEF Command
  <2> QED BY <2>1, <2>2, <1>1, OpsTyped, InvokeHarmless, Zenon DEF Invoke
<1>3. CASE Quit
  <2>1. UNCHANGED <<calls, work, wal, table, acked, exclusive>> /\ main = "running"
        /\ main' \in {"unsnap", "debug"}
        /\ (call' = call \/ call' = [call EXCEPT ![Console] = Invoked("release")])
    BY <1>3, Zenon DEF Quit, engineVars
  <2> QED BY <2>1, <1>1, OpsTyped, InvokeHarmless, RestHarmless, Zenon
<1>4. CASE BenchWaited
  <2>1. UNCHANGED <<calls, work, wal, table, acked, exclusive>> /\ main = "running"
        /\ main' = "report" /\ call' = [call EXCEPT ![Console] = Invoked("stats")]
    BY <1>4, Zenon DEF BenchWaited, engineVars
  <2> QED BY <2>1, <1>1, OpsTyped, InvokeHarmless, Zenon
<1>5. CASE Unsnapped \/ BenchReported
  <2>1. UNCHANGED <<calls, work, wal, table, acked, exclusive>> /\ main \in {"unsnap", "report"}
        /\ main' = "debug" /\ call' = [call EXCEPT ![Console] = NoCall]
    BY <1>5, Zenon DEF Unsnapped, BenchReported, engineVars
  <2> QED BY <2>1, <1>1, RestHarmless, Zenon
<1>6. CASE Interrupt \/ ListenFails \/ Drained \/ ShutdownDeadline \/ DebugDrained \/ DebugDeadline
           \/ CloseFlag \/ WorkersStop
  <2>1. UNCHANGED <<call, calls, work, wal, table, acked, exclusive>>
    BY <1>6, Zenon DEF Interrupt, ListenFails, Drained, ShutdownDeadline, DebugDrained,
       DebugDeadline, CloseFlag, WorkersStop, callVars
  <2>2. main # "remove" /\ main' # "remove"
    BY <1>6, Zenon DEF Interrupt, ListenFails, Drained, ShutdownDeadline, DebugDrained,
       DebugDeadline, CloseFlag, WorkersStop
  <2> QED BY <2>1, <2>2, <1>1, RestHarmless, Zenon
<1>7. CASE Scrape \/ RenderNext \/ Terminated \/ (Install /\ UNCHANGED processVars)
  <2>1. UNCHANGED <<call, calls, work, wal, table, acked, exclusive, main>>
    BY <1>7, Zenon DEF Scrape, RenderNext, Terminated, Install, callVars, processVars, vars
  <2> QED BY <2>1, <1>1, RestHarmless, Zenon
<1> QED BY <1>2, <1>3, <1>4, <1>5, <1>6, <1>7
\* A write is in the log before its call returns without error; the lock that
\* it holds keeps Close from its final flush.
LEMMA WriteKeepsLog ==
  ASSUME LogInv, NEW a \in Actors, DoWrite(a), UNCHANGED processVars
  PROVE  LogInv'
<1>1. /\ UNCHANGED <<work, calls, table, acked, exclusive, main>>
      /\ call[a].pc = "work" /\ call[a].op \in Writes
  BY Zenon DEF DoWrite, processVars
<1>2. call \in [Actors -> CallRecord] /\ calls \in Nat /\ work \in Workloads
  BY Zenon DEF LogInv
<1>3. call' \in [Actors -> CallRecord]
  BY <1>2 DEF DoWrite, Finish, CallRecord, CallSteps, Results
<1>4. /\ call'[a].op = call[a].op /\ call'[a].id = call[a].id /\ call'[a].pc = "observe"
      /\ \A b \in Actors : b # a => call'[b] = call[b]
  BY <1>2 DEF DoWrite, Finish, CallRecord
<1>5. wal \subseteq wal' /\ (call'[a].res = "ok" => call[a].id \in wal')
  BY <1>2, Zenon DEF DoWrite, Finish, CallRecord
<1>6. main # "remove"
  BY <1>1, Zenon DEF LogInv, Readers
<1>7. AckedWritesSurvive'
  BY <1>1, <1>5, Zenon DEF LogInv, AckedWritesSurvive
<1>8. \A b \in Actors :
        /\ call'[b].op \in Writes /\ call'[b].res = "ok" => call'[b].id \in wal' \cup table'
        /\ call'[b].pc \in {"level", "release", "gaugeDown"} => call'[b].op \notin Writes
  BY <1>1, <1>4, <1>5, Zenon DEF LogInv
<1> QED BY <1>1, <1>2, <1>3, <1>6, <1>7, <1>8, Zenon DEF LogInv

\* Only a write that returned without error is acknowledged.
LEMMA AnswerKeepsLog ==
  ASSUME LogInv, \/ \E c \in Clients : Respond(c)
                 \/ CommandReturns
  PROVE  LogInv'
<1>1. PICK a \in Actors :
        /\ acked' \subseteq acked \cup {call[a].id}
        /\ acked' = acked \/ (call[a].op \in Writes /\ call[a].res = "ok")
        /\ call' = [call EXCEPT ![a] = NoCall]
        /\ UNCHANGED <<work, calls, wal, table, exclusive, main>>
  <2>1. CASE \E c \in Clients : Respond(c)
    <3>1. PICK c \in Clients : Respond(c)
      BY <2>1, Zenon
    <3>2. StatusOf(call[c].op, call[c].res) = 204 => call[c].op \in Writes /\ call[c].res = "ok"
      BY DEF StatusOf
    <3>3. c \in Actors
      BY Zenon DEF Actors
    <3> QED BY <3>1, <3>2, <3>3, Zenon DEF Respond, Stay
  <2>2. CASE CommandReturns
    <3>1. Console \in Actors
      BY Zenon DEF Actors
    <3> QED BY <2>2, <3>1, Zenon DEF CommandReturns, engineVars
  <2> QED BY <2>1, <2>2, Zenon
<1>2. AckedWritesSurvive'
  BY <1>1, Zenon DEF LogInv, AckedWritesSurvive
<1>3. call' \in [Actors -> CallRecord]
      /\ \A b \in Actors : call'[b] = call[b] \/ call'[b] = NoCall
  BY <1>1, NoCallTyped, OneCall, Zenon DEF LogInv
<1>4. Readers' \subseteq Readers
  BY <1>3, NoCallTyped, Zenon DEF Readers
<1>5. \A b \in Actors :
        /\ call'[b].op \in Writes /\ call'[b].res = "ok" => call'[b].id \in wal' \cup table'
        /\ call'[b].pc \in {"level", "release", "gaugeDown"} => call'[b].op \notin Writes
  BY <1>1, <1>3, NoCallTyped, Zenon DEF LogInv
<1>6. main' = "remove" => exclusive' /\ Readers' = {} /\ wal' \subseteq table'
  BY <1>1, <1>4, Zenon DEF LogInv
<1> QED BY <1>1, <1>2, <1>3, <1>5, <1>6, Zenon DEF LogInv

\* The final flush copies the log while no call is inside, and the log is
\* removed only behind it.
LEMMA EndKeepsLog ==
  ASSUME LogInv, FinalFlush \/ LogRemoved \/ CloseFails \/ Killed
  PROVE  LogInv'
<1>1. CASE FinalFlush
  <2>1. /\ UNCHANGED <<work, call, calls, wal, acked>> /\ exclusive' = TRUE
        /\ table' = table \cup wal /\ Readers = {}
    BY <1>1, Zenon DEF FinalFlush, Frame
  <2>2. Readers' = {} /\ AckedWritesSurvive'
    BY <2>1, Zenon DEF Readers, AckedWritesSurvive, LogInv
  <2> QED BY <2>1, <2>2, Zenon DEF LogInv
<1>2. CASE LogRemoved \/ CloseFails \/ Killed
  <2>1. /\ UNCHANGED <<work, acked, table>> /\ main' = "exited" /\ calls' = 0
        /\ call' = [a \in Actors |-> NoCall]
    BY <1>2, Zenon DEF LogRemoved, CloseFails, Killed, Gone
  <2>2. wal' = wal \/ wal \subseteq table
    BY <1>2, Zenon DEF LogRemoved, CloseFails, Killed, LogInv
  <2>3. AckedWritesSurvive'
    BY <2>1, <2>2, Zenon DEF LogInv, AckedWritesSurvive
  <2>4. call' \in [Actors -> CallRecord] /\ \A b \in Actors : call'[b] = NoCall
    BY <2>1, NoCallTyped, Zenon
  <2> QED BY <2>1, <2>3, <2>4, NoCallTyped, Zenon DEF LogInv
<1> QED BY <1>1, <1>2, Zenon

\* Nothing is logged or acknowledged at the start.
LEMMA LogInvInit == Init => LogInv
<1> SUFFICES ASSUME Init PROVE LogInv
  BY Zenon
<1>1. /\ work \in Workloads /\ calls = 0 /\ acked = {} /\ main = "running"
      /\ call = [a \in Actors |-> NoCall]
  BY Zenon DEF Init, InitCalls
<1>2. call \in [Actors -> CallRecord] /\ \A a \in Actors : call[a] = NoCall
  BY <1>1, NoCallTyped, Zenon
<1> QED BY <1>1, <1>2, NoCallTyped, Zenon DEF LogInv, AckedWritesSurvive

\* Every step keeps LogInv.
LEMMA LogInvStep == LogInv /\ [Next]_vars => LogInv'
<1> SUFFICES ASSUME LogInv, [Next]_vars PROVE LogInv'
  BY Zenon
<1>1. ASSUME NEW a \in Actors, EngineStep(a) PROVE LogInv'
  <2>1. CallStep(a) /\ UNCHANGED processVars
    BY <1>1, Zenon DEF EngineStep
  <2> QED BY <2>1, EnterHarmless, ReadHarmless, CountHarmless, HarmlessKeepsLog, WriteKeepsLog, Zenon
          DEF CallStep
<1>2. ASSUME NEW c \in Clients, Handler(c) \/ Worker(c) PROVE LogInv'
  BY <1>2, HandlerHarmless, HarmlessKeepsLog, AnswerKeepsLog, Zenon
<1>3. CASE MainStep
  BY <1>3, MainHarmless, HarmlessKeepsLog, AnswerKeepsLog, EndKeepsLog, Zenon DEF MainStep
<1>4. CASE \/ Install /\ UNCHANGED processVars
           \/ Command \/ Quit \/ Interrupt \/ ListenFails \/ Scrape \/ RenderNext \/ Terminated
  BY <1>4, MainHarmless, HarmlessKeepsLog, Zenon
<1>5. CASE CloseFails \/ Killed
  BY <1>5, EndKeepsLog, Zenon
<1>6. CASE UNCHANGED vars
  BY <1>6, HarmlessKeepsLog, RestHarmless, Zenon DEF vars, callVars, processVars, Actors
<1> QED BY <1>1, <1>2, <1>3, <1>4, <1>5, <1>6, Zenon DEF Next

\* A write that was answered with success survives every way out of the
\* process: Engine.Close beside handlers that outlived runServer, a final
\* flush that fails, a kill at any point (main.go, Engine.Close).
THEOREM AckedWritesSurviveAlways == Spec => []AckedWritesSurvive
<1>1. LogInv => AckedWritesSurvive
  BY Zenon DEF LogInv
<1> QED BY <1>1, LogInvInit, LogInvStep, PTL DEF Spec

\* ---- Requests and Shutdown ----

TaskRecord == [pc : {"idle", "body", "engine", "reply"}, status : Nat, ops : Nat]
Leaving == {"debug", "close", "wait", "flush", "remove"}

\* What goroutine c may be doing in each mode, and what is left of it once
\* runServer, runREPL or runBenchmark has returned.
ClientInv(c) ==
  /\ task[c] \in TaskRecord
  /\ mode = "serve" /\ task[c].pc # "engine" => call[c] = NoCall
  /\ mode = "repl" => call[c] = NoCall
  /\ mode # "serve" => task[c].pc = "idle"
  /\ mode = "bench" /\ call[c] # NoCall => task[c].ops < BenchOps /\ main = "running"
  /\ main \in Leaving /\ ~outlived => task[c].pc = "idle"
  /\ task[c].status = 503 \/ call[c].res = "closed" => outlived

\* Engine.Close is called behind Shutdown, which lets no request in and has
\* seen every handler out, unless its deadline passed or it was never called.
StopInv ==
  /\ task \in [Actors -> TaskRecord]
  /\ closed => main \in {"wait", "flush", "remove"}
  /\ main = "shutdown" => mode = "serve" /\ draining
  /\ main \in Leaving /\ mode = "serve" /\ ~outlived => draining
  /\ main = "report" => mode = "bench"
  /\ main = "unsnap" => mode = "repl"
  /\ \A c \in Clients : ClientInv(c)

\* The process runs in one of three modes.
LEMMA Modes == LogInv => mode \in {"serve", "repl", "bench"}
  BY CallsAssumption, Zenon DEF LogInv, mode

\* Clients and the main goroutine are the callers of the engine.
LEMMA ClientsAct == Clients \subseteq Actors /\ Console \in Actors /\ Console \notin Clients
  BY ProcessAssumption, Zenon DEF Actors

\* Nothing of a call changes but the call; it reports the engine closed only
\* when it met the flag.
LEMMA CallStepFrame ==
  ASSUME LogInv, NEW a \in Actors, CallStep(a)
  PROVE  /\ call[a].pc # "idle" /\ UNCHANGED <<work, closed>>
         /\ \A b \in Actors : b # a => call'[b] = call[b]
         /\ call'[a].res = "closed" => closed \/ call[a].res = "closed"
<1>1. call \in [Actors -> CallRecord]
  BY Zenon DEF LogInv
<1>2. CASE Enter(a) \/ DoWrite(a) \/ DoRead(a)
  BY <1>1, <1>2 DEF Enter, DoWrite, DoRead, Finish, Goto, engineVars, CallRecord
<1>3. CASE SetTotal(a) \/ SetLevel(a)
  BY <1>1, <1>3 DEF SetTotal, SetLevel, engineVars, CallRecord
<1>4. CASE Observe(a) \/ Count(a)
  BY <1>1, <1>4 DEF Observe, Count, Goto, engineVars, CallRecord
<1>5. CASE OpenSnapshot(a) \/ CloseSnapshot(a)
  BY <1>1, <1>5 DEF OpenSnapshot, CloseSnapshot, Goto, Finish, engineVars, CallRecord
<1> QED BY <1>2, <1>3, <1>4, <1>5, Zenon DEF CallStep

\* A step inside the engine keeps StopInv.
LEMMA EngineStepStops ==
  ASSUME LogInv, StopInv, NEW a \in Actors, EngineStep(a)
  PROVE  StopInv'
<1>1. UNCHANGED <<main, draining, outlived, task>>
  BY Zenon DEF EngineStep, processVars
<1>2. /\ call[a].pc # "idle" /\ UNCHANGED <<work, closed>>
      /\ \A b \in Actors : b # a => call'[b] = call[b]
      /\ call'[a].res = "closed" => closed \/ call[a].res = "closed"
  BY CallStepFrame, Zenon DEF EngineStep
<1>3. ASSUME NEW c \in Clients PROVE ClientInv(c)'
  <2>1. c \in Actors /\ ClientInv(c) /\ mode' = mode
    BY <1>2, ClientsAct, Zenon DEF StopInv, mode
  <2>2. CASE c # a
    BY <1>1, <1>2, <2>1, <2>2 DEF ClientInv
  <2>3. CASE c = a
    <3>1. call[c] # NoCall
      BY <1>2, <2>3, NoCallTyped, Zenon
    <3>2. closed => outlived
      BY <2>1, <3>1, Modes DEF StopInv, ClientInv, Leaving
    <3> QED BY <1>1, <1>2, <2>1, <2>3, <3>1, <3>2 DEF ClientInv
  <2> QED BY <2>2, <2>3, Zenon
<1> QED BY <1>1, <1>2, <1>3, Zenon DEF StopInv, mode

\* A step of goroutine c alone.
LEMMA OneClient ==
  ASSUME StopInv, NEW c \in Clients, UNCHANGED <<work, closed, main, draining, outlived>>,
         task' \in [Actors -> TaskRecord],
         \A b \in Actors : b # c => task'[b] = task[b] /\ call'[b] = call[b], ClientInv(c)'
  PROVE  StopInv'
<1>1. ASSUME NEW b \in Clients PROVE ClientInv(b)'
  <2>1. CASE b = c
    BY <2>1, Zenon
  <2>2. CASE b # c
    BY <2>2, ClientsAct DEF StopInv, ClientInv, mode
  <2> QED BY <2>1, <2>2, Zenon
<1> QED BY <1>1, Zenon DEF StopInv, mode

\* A call that begins is a call, with no result yet.
LEMMA InvokedCalls ==
  ASSUME LogInv, NEW op \in AllOps
  PROVE  Invoked(op).res # "closed" /\ Invoked(op) # NoCall
<1>1. calls \in Nat
  BY Zenon DEF LogInv
<1>2. Invoked(op).pc # "idle" /\ Invoked(op).res = "none"
  BY <1>1, InvokedTyped, Zenon
<1> QED BY <1>2, NoCallTyped, Zenon

\* A handler or worker keeps StopInv.
LEMMA HandlerStops ==
  ASSUME LogInv, StopInv, NEW c \in Clients, Handler(c) \/ Worker(c)
  PROVE  StopInv'
<1>1. /\ c \in Actors /\ call \in [Actors -> CallRecord] /\ task \in [Actors -> TaskRecord]
      /\ task[c] \in TaskRecord /\ ClientInv(c)
  BY ClientsAct DEF LogInv, StopInv, ClientInv
<1>2. UNCHANGED <<work, closed, main, draining, outlived>>
  BY Zenon DEF Handler, Worker, RequestPut, BodyRead, BodyFails, RequestPlain, RequestOther, Respond,
     Replied, WorkerCalls, WorkerCounts, Stay, engineVars
<1>3. mode' = mode
  BY <1>2, Zenon DEF mode
<1>4. CanRequest(c) => /\ mode = "serve" /\ call[c] = NoCall
                       /\ main \in Leaving => outlived
  BY <1>1, Zenon DEF CanRequest, StopInv, ClientInv
<1>5. CASE RequestPut(c) \/ RequestPlain(c) \/ BodyFails(c)
  <2>1. /\ call' = call /\ (CanRequest(c) \/ task[c].pc = "body")
        /\ \/ task' = [task EXCEPT ![c].pc = "body"]
           \/ \E status \in {200, 400, 413} :
                task' = [task EXCEPT ![c].pc = "reply", ![c].status = status]
    BY <1>5 DEF RequestPut, RequestPlain, BodyFails
  <2>2. task' \in [Actors -> TaskRecord] /\ (\A b \in Actors : b # c => task'[b] = task[b])
    BY <1>1, <2>1 DEF TaskRecord
  <2>3. task'[c].pc \in {"body", "reply"} /\ (task'[c].status = 503 => task[c].status = 503)
    BY <1>1, <2>1 DEF TaskRecord
  <2>4. mode = "serve" /\ call[c] = NoCall /\ (main \in Leaving => outlived)
    BY <1>1, <1>4, <2>1 DEF ClientInv
  <2>5. ClientInv(c)'
    BY <1>1, <1>2, <1>3, <2>1, <2>2, <2>3, <2>4 DEF ClientInv
  <2> QED BY <1>2, <2>1, <2>2, <2>5, OneClient
<1>6. CASE BodyRead(c) \/ RequestOther(c)
  <2>1. PICK op \in AllOps : call' = [call EXCEPT ![c] = Invoked(op)]
    BY <1>6, OpsTyped, Zenon DEF BodyRead, RequestOther, Invoke
  <2>2. task' = [task EXCEPT ![c].pc = "engine"] /\ (CanRequest(c) \/ task[c].pc = "body")
    BY <1>6, Zenon DEF BodyRead, RequestOther
  <2>3. /\ task' \in [Actors -> TaskRecord] /\ task'[c].pc = "engine"
        /\ task'[c].status = task[c].status
        /\ \A b \in Actors : b # c => task'[b] = task[b]
    BY <1>1, <2>2, Zenon DEF TaskRecord
  <2>4. /\ call'[c] = Invoked(op) /\ call'[c].res # "closed"
        /\ \A b \in Actors : b # c => call'[b] = call[b]
    BY <1>1, <2>1, InvokedCalls, Zenon
  <2>5. mode = "serve" /\ (main \in Leaving => outlived)
    BY <1>1, <1>4, <2>2 DEF ClientInv
  <2>6. ClientInv(c)'
    BY <1>1, <1>2, <1>3, <2>3, <2>4, <2>5 DEF ClientInv
  <2> QED BY <1>2, <2>3, <2>4, <2>6, OneClient, Zenon
<1>7. CASE Respond(c)
  <2>1. PICK status \in Nat : status = StatusOf(call[c].op, call[c].res)
    BY DEF StatusOf
  <2>2. task' = [task EXCEPT ![c].pc = "reply", ![c].status = status]
        /\ (status = 503 => call[c].res = "closed")
    BY <1>7, <2>1 DEF Respond, StatusOf
  <2>3. /\ task' \in [Actors -> TaskRecord] /\ task'[c].pc = "reply"
        /\ task'[c].status = status
        /\ \A b \in Actors : b # c => task'[b] = task[b]
    BY <1>1, <2>2, Zenon DEF TaskRecord
  <2>4. /\ call'[c] = NoCall
        /\ \A b \in Actors : b # c => call'[b] = call[b]
    BY <1>1, <1>7, Zenon DEF Respond
  <2>5. mode = "serve" /\ (main \in Leaving => outlived)
    BY <1>1, <1>7 DEF Respond, ClientInv
  <2>6. ClientInv(c)'
    BY <1>1, <1>2, <1>3, <2>2, <2>3, <2>4, <2>5, NoCallTyped DEF ClientInv
  <2> QED BY <1>2, <2>3, <2>4, <2>6, OneClient, Zenon
<1>8. CASE Replied(c)
  <2>1. task' = [task EXCEPT ![c] = Idle] /\ call' = call /\ task[c].pc = "reply"
    BY <1>8, Zenon DEF Replied
  <2>2. Idle \in TaskRecord /\ Idle.pc = "idle" /\ Idle.status = 0
    BY Zenon DEF Idle, TaskRecord
  <2>3. /\ task' \in [Actors -> TaskRecord] /\ task'[c] = Idle
        /\ \A b \in Actors : b # c => task'[b] = task[b]
    BY <1>1, <2>1, <2>2, Zenon
  <2>4. mode = "serve" /\ call[c] = NoCall
    BY <1>1, <2>1, Modes, Zenon DEF ClientInv
  <2>5. ClientInv(c)'
    BY <1>1, <1>2, <1>3, <2>1, <2>2, <2>3, <2>4, NoCallTyped DEF ClientInv
  <2> QED BY <1>2, <2>1, <2>3, <2>5, OneClient, Zenon
<1>9. CASE WorkerCalls(c)
  <2>1. /\ mode = "bench" /\ main = "running" /\ task[c].ops < BenchOps /\ task' = task
    BY <1>9, Zenon DEF WorkerCalls
  <2>2. PICK op \in AllOps : call' = [call EXCEPT ![c] = Invoked(op)]
    BY <1>9, OpsTyped, Zenon DEF WorkerCalls
  <2>3. /\ call'[c] = Invoked(op) /\ call'[c].res # "closed"
        /\ \A b \in Actors : b # c => call'[b] = call[b]
    BY <1>1, <2>2, InvokedCalls, Zenon
  <2>4. ClientInv(c)'
    BY <1>1, <1>2, <1>3, <2>1, <2>3 DEF ClientInv, Leaving
  <2> QED BY <1>1, <1>2, <2>1, <2>3, <2>4, OneClient, Zenon
<1>10. CASE WorkerCounts(c)
  <2>1. /\ mode = "bench" /\ main = "running" /\ call' = [call EXCEPT ![c] = NoCall]
        /\ task' = [task EXCEPT ![c].ops = @ + 1]
    BY <1>10, Zenon DEF WorkerCounts
  <2>2. /\ task' \in [Actors -> TaskRecord]
        /\ task'[c].pc = task[c].pc /\ task'[c].status = task[c].status
        /\ \A b \in Actors : b # c => task'[b] = task[b]
    BY <1>1, <2>1 DEF TaskRecord
  <2>3. /\ call'[c] = NoCall
        /\ \A b \in Actors : b # c => call'[b] = call[b]
    BY <1>1, <2>1, <2>2, Zenon
  <2>4. ClientInv(c)'
    BY <1>1, <1>2, <1>3, <2>1, <2>2, <2>3, NoCallTyped DEF ClientInv, Leaving
  <2> QED BY <1>2, <2>2, <2>3, <2>4, OneClient
<1> QED BY <1>5, <1>6, <1>7, <1>8, <1>9, <1>10, Zenon DEF Handler, Worker

\* The goroutines of the clients rest while the main goroutine takes a step.
LEMMA ClientRests ==
  ASSUME StopInv, NEW c \in Clients, task'[c] = task[c], call'[c] = call[c], mode' = mode,
         outlived => outlived',
         mode = "bench" /\ call[c] # NoCall => main' = "running",
         main' \in Leaving /\ ~outlived' => task[c].pc = "idle"
  PROVE  ClientInv(c)'
<1>1. ClientInv(c)
  BY Zenon DEF StopInv
<1> QED BY <1>1 DEF ClientInv

\* The main goroutine of the REPL and of the benchmark keeps StopInv.
LEMMA ConsoleStops ==
  ASSUME LogInv, StopInv,
         Command \/ CommandReturns \/ Quit \/ Unsnapped \/ BenchWaited \/ BenchReported
  PROVE  StopInv'
<1> USE DEF Main, Stay
<1>1. call \in [Actors -> CallRecord] /\ task \in [Actors -> TaskRecord]
  BY Zenon DEF LogInv, StopInv
<1>2. UNCHANGED <<work, closed, draining, outlived>>
  BY Zenon DEF Command, CommandReturns, Quit, Unsnapped, BenchWaited, BenchReported, engineVars
<1>3. mode' = mode
  BY <1>2, Zenon DEF mode
<1>4. \E x : call' = call \/ call' = [call EXCEPT ![Console] = x]
  BY Zenon DEF Command, Invoke, CommandReturns, Quit, Unsnapped, BenchWaited, BenchReported
<1>5. task' = task \/ \E pc \in {"idle", "engine"} : task' = [task EXCEPT ![Console].pc = pc]
  BY Zenon DEF Command, CommandReturns, Quit, Unsnapped, BenchWaited, BenchReported
<1>6. task' \in [Actors -> TaskRecord]
  BY <1>1, <1>5 DEF TaskRecord
<1>7. \A c \in Clients : call'[c] = call[c]
  BY <1>1, <1>4, ClientsAct, Zenon
<1>8. \A c \in Clients : task'[c] = task[c]
  BY <1>1, <1>5, ClientsAct, Zenon
<1>9. CASE Command \/ CommandReturns
  <2>1. main' = main
    BY <1>9, Zenon DEF Command, CommandReturns
  <2>2. \A c \in Clients : ClientInv(c)'
    BY <1>2, <1>3, <1>7, <1>8, <2>1 DEF StopInv, ClientInv
  <2> QED BY <1>2, <1>3, <1>6, <2>1, <2>2, Zenon DEF StopInv
<1>10. CASE Quit \/ Unsnapped
  <2>1. mode = "repl" /\ main \in {"running", "unsnap"} /\ main' \in {"unsnap", "debug"}
    BY <1>10, Zenon DEF Quit, Unsnapped, StopInv
  <2>2. \A c \in Clients : ClientInv(c)'
    BY <1>2, <1>3, <1>7, <1>8, <2>1 DEF StopInv, ClientInv
  <2> QED BY <1>2, <1>3, <1>6, <2>1, <2>2, Zenon DEF StopInv
<1>11. CASE BenchWaited \/ BenchReported
  <2>1. mode = "bench" /\ main \in {"running", "report"} /\ main' \in {"report", "debug"}
    BY <1>11, Zenon DEF BenchWaited, BenchReported, StopInv
  <2>2. \A c \in Clients : call[c] = NoCall
    <3>1. CASE BenchWaited
      <4>1. \A c \in Clients : task[c].ops = BenchOps
        BY <3>1, Zenon DEF BenchWaited
      <4> QED BY <2>1, <4>1, ProcessAssumption DEF StopInv, ClientInv
    <3>2. CASE BenchReported
      BY <2>1, <3>2, Zenon DEF BenchReported, StopInv, ClientInv
    <3> QED BY <1>11, <3>1, <3>2, Zenon
  <2>3. \A c \in Clients : ClientInv(c)'
    BY <1>2, <1>3, <1>7, <1>8, <2>1, <2>2 DEF StopInv, ClientInv
  <2> QED BY <1>2, <1>3, <1>6, <2>1, <2>3, Zenon DEF StopInv
<1> QED BY <1>9, <1>10, <1>11, Zenon

\* Each step of the way out keeps StopInv.
LEMMA ShutdownStops ==
  ASSUME LogInv, StopInv,
         \/ Interrupt \/ ListenFails \/ Drained \/ ShutdownDeadline
         \/ DebugDrained \/ DebugDeadline \/ CloseFlag \/ WorkersStop \/ FinalFlush
  PROVE  StopInv'
<1> USE DEF Main
<1>1. UNCHANGED <<work, task, call>> /\ mode' = mode /\ (outlived => outlived')
  BY DEF Interrupt, ListenFails, Drained, ShutdownDeadline, DebugDrained, DebugDeadline,
     CloseFlag, WorkersStop, FinalFlush, callVars, mode
<1>2. task' \in [Actors -> TaskRecord]
  BY <1>1, Zenon DEF StopInv
<1>3. CASE Interrupt \/ ListenFails
  <2>1. /\ mode = "serve" /\ main = "running" /\ closed' = closed
        /\ \/ main' = "shutdown" /\ draining'
           \/ main' = "debug" /\ outlived'
    BY <1>3, Zenon DEF Interrupt, ListenFails, callVars
  <2>2. \A c \in Clients : ClientInv(c)'
    BY <1>1, <2>1, ClientRests, Zenon DEF Leaving
  <2> QED BY <1>1, <1>2, <2>1, <2>2, Zenon DEF StopInv
<1>4. CASE Drained \/ ShutdownDeadline
  <2>1. /\ main = "shutdown" /\ main' = "debug" /\ UNCHANGED <<draining, closed>>
        /\ outlived' \/ Busy = {}
    BY <1>4, Zenon DEF Drained, ShutdownDeadline, callVars
  <2>2. mode = "serve" /\ draining
    BY <2>1, Zenon DEF StopInv
  <2>3. \A c \in Clients : ClientInv(c)'
    BY <1>1, <2>1, <2>2, ClientRests, Zenon DEF Busy
  <2> QED BY <1>1, <1>2, <2>1, <2>2, <2>3 DEF StopInv
<1>5. CASE DebugDrained \/ DebugDeadline \/ CloseFlag \/ WorkersStop \/ FinalFlush
  <2>1. /\ UNCHANGED <<draining, outlived>>
        /\ \/ main = "debug" /\ main' = "close" /\ closed' = closed
           \/ main = "close" /\ main' = "wait"
           \/ main = "wait" /\ main' = "flush"
           \/ main = "flush" /\ main' = "remove"
    BY <1>5, Zenon DEF DebugDrained, DebugDeadline, CloseFlag, WorkersStop, FinalFlush, callVars
  <2>2. closed => main \in {"wait", "flush", "remove"}
    BY Zenon DEF StopInv
  <2>3. /\ main \in Leaving /\ main' \in Leaving /\ UNCHANGED <<draining, outlived>>
        /\ closed' => main' \in {"wait", "flush", "remove"}
    BY <2>1, <2>2 DEF Leaving
  <2>4. \A c \in Clients : (~outlived => task[c].pc = "idle") /\ (mode = "bench" => call[c] = NoCall)
    BY <2>3 DEF StopInv, ClientInv, Leaving
  <2>5. \A c \in Clients : ClientInv(c)'
    BY <1>1, <2>3, <2>4, ClientRests, Zenon
  <2> QED BY <1>1, <1>2, <2>3, <2>5, Zenon DEF StopInv, Leaving
<1> QED BY <1>3, <1>4, <1>5, Zenon

\* At the start and once the process is gone nobody is doing anything.
LEMMA NobodyStops ==
  ASSUME task = [a \in Actors |-> Idle], call = [a \in Actors |-> NoCall],
         closed = FALSE, main \in {"running", "exited"}
  PROVE  StopInv
<1>1. Idle \in TaskRecord /\ Idle.pc = "idle" /\ Idle.status # 503
  BY DEF Idle, TaskRecord
<1>2. task \in [Actors -> TaskRecord]
  BY <1>1
<1>3. \A c \in Clients : task[c] = Idle /\ call[c] = NoCall
  BY ClientsAct, Zenon
<1> QED BY <1>1, <1>2, <1>3, NoCallTyped DEF StopInv, ClientInv, Leaving

\* When the process is gone, nobody runs.
LEMMA GoneStops ==
  ASSUME Gone PROVE StopInv'
<1>1. /\ task' = [a \in Actors |-> Idle] /\ call' = [a \in Actors |-> NoCall]
      /\ closed' = FALSE /\ main' = "exited"
  BY Zenon DEF Gone
<1>2. Idle \in TaskRecord /\ Idle.pc = "idle" /\ Idle.status # 503
  BY DEF Idle, TaskRecord
<1>3. task' \in [Actors -> TaskRecord] /\ \A c \in Clients : task'[c] = Idle /\ call'[c] = NoCall
  BY <1>1, <1>2, ClientsAct
<1> QED BY <1>1, <1>2, <1>3, NoCallTyped DEF StopInv, ClientInv, Leaving

\* What leaves calls and handlers alone keeps StopInv.
LEMMA OthersStop ==
  ASSUME StopInv,
         \/ Install /\ UNCHANGED processVars
         \/ Scrape \/ RenderNext \/ UNCHANGED vars
  PROVE  StopInv'
<1>1. UNCHANGED <<work, closed, call, task, main, draining, outlived>>
  BY Zenon DEF Install, Scrape, RenderNext, callVars, processVars, vars
<1> QED BY <1>1 DEF StopInv, ClientInv, mode

\* Every step keeps StopInv.
LEMMA StopInvStep == LogInv /\ StopInv /\ [Next]_vars => StopInv'
<1> SUFFICES ASSUME LogInv, StopInv, [Next]_vars PROVE StopInv'
  BY Zenon
<1>1. ASSUME NEW a \in Actors, EngineStep(a) PROVE StopInv'
  BY <1>1, EngineStepStops, Zenon
<1>2. ASSUME NEW c \in Clients, Handler(c) \/ Worker(c) PROVE StopInv'
  BY <1>2, HandlerStops, Zenon
<1>3. CASE MainStep
  BY <1>3, ConsoleStops, ShutdownStops, GoneStops, Zenon DEF MainStep, LogRemoved
<1>4. CASE Command \/ Quit \/ Interrupt \/ ListenFails
  BY <1>4, ConsoleStops, ShutdownStops, Zenon
<1>5. CASE \/ Install /\ UNCHANGED processVars
           \/ Scrape \/ RenderNext \/ Terminated \/ UNCHANGED vars
  BY <1>5, OthersStop, Zenon DEF Terminated
<1>6. CASE CloseFails \/ Killed
  BY <1>6, GoneStops, Zenon DEF CloseFails, Killed
<1> QED BY <1>1, <1>2, <1>3, <1>4, <1>5, <1>6, Zenon DEF Next

\* No client is answered 503 while runServer's Shutdown saw every handler
\* out: closing the engine never overtakes a request that was waited for,
\* whatever the number of clients, connections and calls (server.go's
\* writeEngineError, main.go's runServer and its deferred functions).
THEOREM UnavailableOnlyIfOutlivedAlways == Spec => []UnavailableOnlyIfOutlived
<1>1. Init => LogInv /\ StopInv
  BY LogInvInit, NobodyStops, Zenon DEF Init, InitCalls
<1>2. LogInv /\ StopInv /\ [Next]_vars => (LogInv /\ StopInv)'
  BY LogInvStep, StopInvStep, Zenon
<1>3. LogInv /\ StopInv => UnavailableOnlyIfOutlived
  BY DEF StopInv, ClientInv, UnavailableOnlyIfOutlived
<1> QED BY <1>1, <1>2, <1>3, PTL DEF Spec

\* ---- Calls ----

\* How far a call is says which call it is.
Shape(r) ==
  /\ r.pc = "idle" <=> r = NoCall
  /\ r.op = "none" => r = NoCall
  /\ r.pc \in {"register", "opened", "gaugeUp"} => r.op = "snapshot" /\ r.res = "ok"
  /\ r.pc \in {"release", "gaugeDown"} => r.op = "release"
  /\ r.pc \in {"observe", "bucket", "total"} => r.op \in Writes \cup {"get"}
  /\ r.pc = "outcome" => r.op = "get" /\ r.res \in {"ok", "notfound"}
  /\ r.pc = "level" => r.op = "stats" /\ r.at \in Levels
  /\ r.pc \in {"enter", "work", "level", "release", "gaugeDown"} => r.res = "none"

\* Handlers and workers never call Snapshot.
CallsInv ==
  \A a \in Actors :
    /\ Shape(call[a])
    /\ a \in Clients => call[a].op \notin {"snapshot", "release"}

\* No call has the shape of one.
LEMMA NoCallShape == Shape(NoCall)
  BY NoCallTyped, Zenon DEF Shape

\* A call begins in the shape of its kind.
LEMMA InvokedShape ==
  ASSUME LogInv, NEW op \in AllOps, op # "none"
  PROVE  Shape(Invoked(op)) /\ Invoked(op).op = op
<1>1. calls \in Nat
  BY Zenon DEF LogInv
<1>2. /\ Invoked(op).op = op /\ Invoked(op).res = "none"
      /\ Invoked(op).pc \in {"release", "enter"}
      /\ Invoked(op).pc = "release" => op = "release"
  BY <1>1, InvokedTyped, Zenon
<1> QED BY <1>2, NoCallTyped, Zenon DEF Shape

\* The levels are counted from 1.
LEMMA LevelsFrom == 1 \in Levels /\ \A n \in Levels : n < MaxLevels => n + 1 \in Levels
  BY MetricsAssumption DEF Levels

\* A call keeps its kind, and goes through the steps of its kind.
LEMMA CallStepShape ==
  ASSUME LogInv, NEW a \in Actors, Shape(call[a]), CallStep(a)
  PROVE  Shape(call'[a]) /\ call'[a].op = call[a].op
<1>1. call \in [Actors -> CallRecord] /\ call[a] \in CallRecord
  BY Zenon DEF LogInv
<1>n. NoCall.pc = "idle" /\ NoCall.op = "none"
  BY NoCallTyped, Zenon
<1>o. call[a].pc # "idle" => call[a].op # "none"
  BY <1>n, Zenon DEF Shape
<1>2. CASE Enter(a)
  <2>1. /\ call[a].pc = "enter" /\ call'[a].op = call[a].op
        /\ \/ call'[a].pc = "work" /\ call'[a].res = "none"
           \/ call'[a].pc = Counted(call[a].op) /\ call'[a].res = "closed"
    BY <1>1, <1>2 DEF Enter, Goto, Finish, CallRecord, Shape
  <2> QED BY <1>n, <1>o, <2>1, Zenon DEF Shape, Counted
<1>3. CASE DoWrite(a) \/ DoRead(a)
  <2>1. /\ call[a].pc = "work" /\ call'[a].op = call[a].op
        /\ \/ call[a].op \in Writes \cup {"get"} /\ call'[a].pc = "observe"
           \/ call[a].op = "scan" /\ call'[a].pc = "done"
           \/ call[a].op = "snapshot" /\ call'[a].pc = "register" /\ call'[a].res = "ok"
    BY <1>1, <1>3 DEF DoWrite, DoRead, Finish, CallRecord
  <2> QED BY <1>n, <1>o, <2>1, Zenon DEF Shape
<1>4. CASE SetTotal(a) \/ SetLevel(a)
  <2>1. /\ call'[a].op = call[a].op /\ call[a].op = "stats"
        /\ \/ call'[a].pc = "level" /\ call'[a].at \in Levels /\ call'[a].res = "none"
           \/ call'[a].pc = "done"
    BY <1>1, <1>4, LevelsFrom DEF SetTotal, SetLevel, CallRecord, Shape
  <2> QED BY <1>n, <2>1, Zenon DEF Shape
<1>5. CASE Observe(a) \/ Count(a)
  <2>1. /\ call'[a].op = call[a].op /\ call'[a].res = call[a].res
        /\ \/ call[a].pc \in {"observe", "bucket"} /\ call'[a].pc \in {"bucket", "total"}
           \/ call[a].pc = "total" /\ call'[a].pc = "outcome" /\ call[a].op = "get"
              /\ call[a].res \in {"ok", "notfound"}
           \/ call[a].pc \in {"total", "outcome"} /\ call'[a].pc = "done"
    BY <1>1, <1>5 DEF Observe, Count, Goto, CallRecord
  <2> QED BY <1>n, <1>o, <2>1, Zenon DEF Shape
<1>6. CASE OpenSnapshot(a) \/ CloseSnapshot(a)
  <2>1. /\ call'[a].op = call[a].op
        /\ \/ call[a].pc \in {"register", "opened"} /\ call'[a].pc \in {"opened", "gaugeUp"}
              /\ call'[a].res = call[a].res
           \/ call[a].pc = "release" /\ call'[a].pc = "gaugeDown" /\ call'[a].res = call[a].res
           \/ call[a].pc \in {"gaugeUp", "gaugeDown"} /\ call'[a].pc = "done"
    BY <1>1, <1>6 DEF OpenSnapshot, CloseSnapshot, Goto, Finish, CallRecord
  <2> QED BY <1>n, <1>o, <2>1, Zenon DEF Shape
<1> QED BY <1>2, <1>3, <1>4, <1>5, <1>6, Zenon DEF CallStep

\* ---- The REPL's Snapshot ----

\* Where the call of the main goroutine leaves its snapshot registered, and
\* where the gauge shows it.
Registers(r) ==
  \/ r.op = "snapshot" /\ (r.pc \in {"opened", "gaugeUp"} \/ (r.pc = "done" /\ r.res = "ok"))
  \/ r.op = "release" /\ r.pc = "release"
  \/ r.op \notin {"snapshot", "release"} /\ snap
Displays(r) == (Registers(r) /\ r.pc \notin {"opened", "gaugeUp"}) \/ r.pc = "gaugeDown"

\* What the main goroutine may be doing on its way through main, and the one
\* snapshot it may have open.
ConsoleInv ==
  /\ snap \in BOOLEAN
  /\ snap => mode = "repl" /\ main = "running"
  /\ main = "unsnap" => call[Console].op = "release"
  /\ main = "report" => call[Console].op = "stats"
  /\ main \notin {"running", "unsnap", "report"} => call[Console] = NoCall
  /\ main = "running" /\ (mode # "repl" \/ task[Console].pc = "idle") => call[Console] = NoCall
  /\ call[Console].op = "snapshot" => ~snap
  /\ active = IF Registers(call[Console]) THEN 1 ELSE 0
  /\ gauge.snapshots = IF Displays(call[Console]) THEN 1 ELSE 0

\* A step outside the engine begins calls and ends them; handlers and workers
\* call neither Snapshot nor its Close.
Between(b) ==
  \/ call'[b] = call[b]
  \/ call[b] = NoCall /\ \E op \in AllOps \ {"none"} : call'[b] = Invoked(op)
  \/ call[b].pc = "done" /\ call'[b] = NoCall

Outside ==
  /\ \A b \in Actors : Between(b)
  /\ \A c \in Clients : call'[c].op \in {"snapshot", "release"} => call'[c] = call[c]
  /\ UNCHANGED <<work, counter, histogram, gauge, active>>

\* A workload asks for operations only.
LEMMA OpsNamed == LogInv => \A op \in work.ops : op \in AllOps \ {"none"}
  BY CallsAssumption, Zenon DEF LogInv, AllOps, Ops

\* To begin a call is a step outside the engine.
LEMMA OutsideInvoke ==
  ASSUME LogInv, NEW a \in Actors, NEW op \in AllOps \ {"none"}, call[a] = NoCall,
         call' = [call EXCEPT ![a] = Invoked(op)],
         a \in Clients => op \notin {"snapshot", "release"},
         UNCHANGED <<work, counter, histogram, gauge, active>>
  PROVE  Outside
<1>1. call'[a] = Invoked(op) /\ \A b \in Actors : b # a => call'[b] = call[b]
  BY Zenon DEF LogInv
<1>2. Invoked(op).op = op
  BY InvokedShape, Zenon
<1>3. \A b \in Actors : Between(b)
  BY <1>1, Zenon DEF Between
<1>4. \A c \in Clients : call'[c].op \in {"snapshot", "release"} => call'[c] = call[c]
  BY <1>1, <1>2, ClientsAct, Zenon
<1> QED BY <1>3, <1>4, Zenon DEF Outside

\* So is to take its result.
LEMMA OutsideReturn ==
  ASSUME LogInv, NEW a \in Actors, call[a].pc = "done", call' = [call EXCEPT ![a] = NoCall],
         UNCHANGED <<work, counter, histogram, gauge, active>>
  PROVE  Outside
<1>1. call'[a] = NoCall /\ \A b \in Actors : b # a => call'[b] = call[b]
  BY Zenon DEF LogInv
<1>2. \A b \in Actors : Between(b)
  BY <1>1, Zenon DEF Between
<1>3. \A c \in Clients : call'[c].op \in {"snapshot", "release"} => call'[c] = call[c]
  BY <1>1, ClientsAct, NoCallTyped, Zenon
<1> QED BY <1>2, <1>3, Zenon DEF Outside

\* So is a step that leaves all calls alone.
LEMMA OutsideStay ==
  ASSUME UNCHANGED <<call, work, counter, histogram, gauge, active>>
  PROVE  Outside
  BY Zenon DEF Outside, Between

\* Handlers and workers act outside the engine.
LEMMA HandlerOutside ==
  ASSUME LogInv, NEW c \in Clients, Handler(c) \/ Worker(c)
  PROVE  Outside
<1> USE DEF Stay
<1>1. c \in Actors
  BY ClientsAct, Zenon
<1>2. UNCHANGED <<work, counter, histogram, gauge, active>>
  BY Zenon DEF Handler, Worker, RequestPut, BodyRead, BodyFails, RequestPlain, RequestOther, Respond,
     Replied, WorkerCalls, WorkerCounts, engineVars, metricVars
<1>3. CASE RequestPut(c) \/ BodyFails(c) \/ RequestPlain(c) \/ Replied(c)
  <2>1. call' = call
    BY <1>3, Zenon DEF RequestPut, BodyFails, RequestPlain, Replied
  <2> QED BY <1>2, <2>1, OutsideStay, Zenon
<1>4. CASE BodyRead(c)
  <2>1. call[c] = NoCall /\ call' = [call EXCEPT ![c] = Invoked("put")]
    BY <1>4, Zenon DEF BodyRead, Invoke
  <2> QED BY <1>1, <1>2, <2>1, OutsideInvoke, Zenon DEF AllOps, Ops
<1>5. CASE RequestOther(c)
  <2>1. PICK op \in {"delete", "get", "scan", "stats"} :
          call[c] = NoCall /\ call' = [call EXCEPT ![c] = Invoked(op)]
    BY <1>5, Zenon DEF RequestOther, Invoke
  <2> QED BY <1>1, <1>2, <2>1, OutsideInvoke, Zenon DEF AllOps, Ops
<1>6. CASE WorkerCalls(c)
  <2>1. PICK op \in {"put", "get"} :
          call[c] = NoCall /\ call' = [call EXCEPT ![c] = Invoked(op)]
    BY <1>6, Zenon DEF WorkerCalls
  <2> QED BY <1>1, <1>2, <2>1, OutsideInvoke, Zenon DEF AllOps, Ops
<1>7. CASE WorkerCounts(c) \/ Respond(c)
  <2>1. call[c].pc = "done" /\ call' = [call EXCEPT ![c] = NoCall]
    BY <1>7, Zenon DEF WorkerCounts, Respond
  <2> QED BY <1>1, <1>2, <2>1, OutsideReturn, Zenon
<1> QED BY <1>3, <1>4, <1>5, <1>6, <1>7 DEF Handler, Worker

\* So does the main goroutine, until the process is gone.
LEMMA MainOutside ==
  ASSUME LogInv, ConsoleInv,
         \/ Command \/ CommandReturns \/ Quit \/ Unsnapped \/ BenchWaited \/ BenchReported
         \/ Interrupt \/ ListenFails \/ Drained \/ ShutdownDeadline \/ DebugDrained \/ DebugDeadline
         \/ CloseFlag \/ WorkersStop \/ FinalFlush \/ Scrape \/ RenderNext \/ UNCHANGED vars
         \/ Install /\ UNCHANGED processVars
  PROVE  Outside
<1> USE DEF Stay, Main, Frame
<1>1. Console \in Actors
  BY ClientsAct, Zenon
<1>c. Console \notin Clients
  BY ClientsAct, Zenon
<1>2. UNCHANGED <<work, counter, histogram, gauge, active>>
  BY Zenon DEF Command, CommandReturns, Quit, Unsnapped, BenchWaited, BenchReported, Interrupt,
     ListenFails, Drained, ShutdownDeadline, DebugDrained, DebugDeadline, CloseFlag, WorkersStop,
     FinalFlush, Scrape, RenderNext, BeginScrape, Render, Install, engineVars, callVars,
     processVars, metricVars, vars
<1>3. CASE Command
  <2>1. PICK op \in work.ops : call[Console] = NoCall /\ call' = [call EXCEPT ![Console] = Invoked(op)]
    BY <1>3, Zenon DEF Command, Invoke
  <2> QED BY <1>1, <1>c, <1>2, <2>1, OpsNamed, OutsideInvoke, Zenon
<1>4. CASE CommandReturns \/ Unsnapped \/ BenchReported
  <2>1. call[Console].pc = "done" /\ call' = [call EXCEPT ![Console] = NoCall]
    BY <1>4, Zenon DEF CommandReturns, Unsnapped, BenchReported
  <2> QED BY <1>1, <1>2, <2>1, OutsideReturn, Zenon
<1>5. CASE Quit
  <2>1. call[Console] = NoCall
    BY <1>5, Zenon DEF Quit, ConsoleInv
  <2>2. call' = call \/ call' = [call EXCEPT ![Console] = Invoked("release")]
    BY <1>5, Zenon DEF Quit
  <2> QED BY <1>1, <1>c, <1>2, <2>1, <2>2, OutsideStay, OutsideInvoke DEF AllOps, Ops
<1>6. CASE BenchWaited
  <2>1. call[Console] = NoCall
    BY <1>6, Zenon DEF BenchWaited, ConsoleInv
  <2>2. call' = [call EXCEPT ![Console] = Invoked("stats")]
    BY <1>6, Zenon DEF BenchWaited
  <2> QED BY <1>1, <1>c, <1>2, <2>1, <2>2, OutsideInvoke, ZenonT(30) DEF AllOps, Ops
<1>7. CASE \/ Interrupt \/ ListenFails \/ Drained \/ ShutdownDeadline \/ DebugDrained
           \/ DebugDeadline \/ CloseFlag \/ WorkersStop \/ FinalFlush \/ Scrape \/ RenderNext
           \/ UNCHANGED vars \/ (Install /\ UNCHANGED processVars)
  <2>1. call' = call
    BY <1>7, Zenon DEF Interrupt, ListenFails, Drained, ShutdownDeadline, DebugDrained,
       DebugDeadline, CloseFlag, WorkersStop, FinalFlush, Scrape, RenderNext, Install, callVars, vars
  <2> QED BY <1>2, <2>1, OutsideStay
<1> QED BY <1>3, <1>4, <1>5, <1>6, <1>7

\* The steps of the process are of three kinds.
LEMMA StepKinds ==
  ASSUME LogInv, ConsoleInv, [Next]_vars
  PROVE  \/ \E a \in Actors : EngineStep(a)
         \/ Gone
         \/ Outside
<1>1. ASSUME NEW c \in Clients, Handler(c) \/ Worker(c) PROVE Outside
  BY <1>1, HandlerOutside, Zenon
<1>2. CASE MainStep
  BY <1>2, MainOutside, Zenon DEF MainStep, LogRemoved
<1>3. CASE Command \/ Quit \/ Interrupt \/ ListenFails \/ Scrape \/ RenderNext \/ Terminated
           \/ (Install /\ UNCHANGED processVars) \/ UNCHANGED vars
  BY <1>3, MainOutside, Zenon DEF Terminated
<1>4. CASE CloseFails \/ Killed
  BY <1>4, Zenon DEF CloseFails, Killed
<1> QED BY <1>1, <1>2, <1>3, <1>4 DEF Next

\* When the process is gone, no call is left.
LEMMA GoneCalls == ASSUME Gone PROVE call' = [a \in Actors |-> NoCall]
  BY Zenon DEF Gone

\* Every step keeps CallsInv.
LEMMA CallsInvStep ==
  ASSUME LogInv, ConsoleInv, CallsInv, [Next]_vars
  PROVE  CallsInv'
<1>1. ASSUME NEW a \in Actors, EngineStep(a) PROVE CallsInv'
  <2>1. \A b \in Actors : b # a => call'[b] = call[b]
    BY <1>1, CallStepFrame, Zenon DEF EngineStep
  <2>2. Shape(call[a])
    BY Zenon DEF CallsInv
  <2>3. Shape(call'[a]) /\ call'[a].op = call[a].op
    BY <1>1, <2>2, CallStepShape, Zenon DEF EngineStep
  <2>4. ASSUME NEW b \in Actors
        PROVE  Shape(call'[b]) /\ (b \in Clients => call'[b].op \notin {"snapshot", "release"})
    BY <2>1, <2>3, <2>4, Zenon DEF CallsInv
  <2>5. \A b \in Actors : Shape(call[b])' <=> Shape(call'[b])
    BY Zenon DEF Shape, NoCall, Writes, Levels
  <2> QED BY <2>4, <2>5, Zenon DEF CallsInv
<1>2. CASE Gone
  <2>1. \A b \in Actors : call'[b] = NoCall
    BY <1>2, GoneCalls, Zenon
  <2>2. \A b \in Actors : Shape(call[b])' <=> Shape(call'[b])
    BY Zenon DEF Shape, NoCall, Writes, Levels
  <2> QED BY <2>1, <2>2, NoCallShape, NoCallTyped DEF CallsInv
<1>3. CASE Outside
  <2>1. ASSUME NEW b \in Actors
        PROVE  Shape(call'[b]) /\ (b \in Clients => call'[b].op \notin {"snapshot", "release"})
    <3>1. Between(b) /\ Shape(call[b])
      BY <1>3, Zenon DEF Outside, CallsInv
    <3>2. Shape(call'[b])
      BY <3>1, NoCallShape, InvokedShape, Zenon DEF Between
    <3> QED BY <1>3, <3>2, Zenon DEF Outside, CallsInv
  <2>2. \A b \in Actors : Shape(call[b])' <=> Shape(call'[b])
    BY Zenon DEF Shape, NoCall, Writes, Levels
  <2> QED BY <2>1, <2>2, Zenon DEF CallsInv
<1> QED BY <1>1, <1>2, <1>3, StepKinds

\* ---- The Values of the Metrics ----

Gauges == [sstables : Int, level : [Levels -> Int], snapshots : Int]
Histogram == [count : Nat, bucket : [1 .. Buckets -> Nat]]

Valued ==
  /\ counter \in [Counters -> Nat]
  /\ histogram \in [Latencies -> Histogram]
  /\ gauge \in Gauges
  /\ level \in [Levels -> Int]

\* There are finitely many levels.
LEMMA LevelsFinite == IsFiniteSet(Levels)
<1>1. 1 \in Int /\ MaxLevels \in Int
  BY MetricsAssumption
<1> QED BY <1>1, FS_Interval, Zenon DEF Levels

\* Tables come and go only while no call holds the lock.
LEMMA LevelMoves ==
  ASSUME LogInv, Valued, [Next]_vars
  PROVE  /\ level' \in [Levels -> Int]
         /\ level' = level \/ (Readers = {} /\ call' = call /\ gauge' = gauge)
<1>1. ASSUME NEW a \in Actors, EngineStep(a) PROVE level' = level
  <2>1. CallStep(a)
    BY <1>1, Zenon DEF EngineStep
  <2> QED BY <2>1, Zenon DEF CallStep, Enter, DoWrite, DoRead, SetTotal, SetLevel, Observe, Count,
         OpenSnapshot, CloseSnapshot, engineVars
<1>2. ASSUME NEW c \in Clients, Handler(c) \/ Worker(c) PROVE level' = level
  BY <1>2, Zenon DEF Handler, Worker, RequestPut, BodyRead, BodyFails, RequestPlain, RequestOther,
     Respond, Replied, WorkerCalls, WorkerCounts, Stay, engineVars
<1>3. CASE FinalFlush \/ Install
  <2>1. Readers = {} /\ call' = call /\ gauge' = gauge
    BY <1>3, Zenon DEF FinalFlush, Install, metricVars
  <2>2. 1 \in Levels /\ \A n \in Levels \ {MaxLevels} : n + 1 \in Levels
    BY MetricsAssumption DEF Levels
  <2>3. level \in [Levels -> Int]
    BY Zenon DEF Valued
  <2>4. level' \in [Levels -> Int]
    <3>1. CASE FinalFlush
      BY <2>2, <2>3, <3>1 DEF FinalFlush
    <3>2. CASE Install
      BY <2>2, <2>3, <3>2 DEF Install
    <3> QED BY <1>3, <3>1, <3>2, Zenon
  <2> QED BY <2>1, <2>4, Zenon
<1>4. CASE \/ Command \/ CommandReturns \/ Quit \/ Unsnapped \/ BenchWaited \/ BenchReported
           \/ Interrupt \/ ListenFails \/ Drained \/ ShutdownDeadline \/ DebugDrained
           \/ DebugDeadline \/ CloseFlag \/ WorkersStop \/ Scrape \/ RenderNext
           \/ LogRemoved \/ CloseFails \/ Killed \/ Terminated \/ UNCHANGED vars
  <2>1. level' = level
    BY <1>4, Zenon DEF Command, CommandReturns, Quit, Unsnapped, BenchWaited, BenchReported,
       Interrupt, ListenFails, Drained, ShutdownDeadline, DebugDrained, DebugDeadline, CloseFlag,
       WorkersStop, Scrape, RenderNext, LogRemoved, CloseFails, Killed, Terminated, Gone, Stay,
       engineVars, callVars, vars
  <2> QED BY <2>1, Zenon DEF Valued
<1> QED BY <1>1, <1>2, <1>3, <1>4 DEF Next, MainStep, Valued

\* All metrics are 0 when the process begins.
LEMMA ZeroValues ==
  /\ Zero.counter \in [Counters -> Nat] /\ \A c \in Counters : Zero.counter[c] = 0
  /\ Zero.histogram \in [Latencies -> Histogram]
  /\ \A h \in Latencies : /\ Zero.histogram[h].count = 0
                          /\ \A b \in 1 .. Buckets : Zero.histogram[h].bucket[b] = 0
  /\ Zero.gauge \in Gauges /\ Zero.gauge.snapshots = 0 /\ Zero.gauge.sstables = 0
  /\ \A l \in Levels : Zero.gauge.level[l] = 0
<1>1. /\ Zero.counter = [c \in Counters |-> 0]
      /\ Zero.histogram = [h \in Latencies |->
                             [count |-> 0, bucket |-> [b \in 1 .. Buckets |-> 0]]]
      /\ Zero.gauge = [sstables |-> 0, level |-> [l \in Levels |-> 0], snapshots |-> 0]
  BY Zenon DEF Zero
<1>2. PICK z : z = [b \in 1 .. Buckets |-> 0]
  BY Zenon
<1>z. z \in [1 .. Buckets -> Nat] /\ \A b \in 1 .. Buckets : z[b] = 0
  BY <1>2, Zenon
<1>3. PICK y : y = [l \in Levels |-> 0]
  BY Zenon
<1>y. y \in [Levels -> Int] /\ \A l \in Levels : y[l] = 0
  BY <1>3
<1>4. [count |-> 0, bucket |-> z] \in Histogram
  BY <1>z, Zenon DEF Histogram
<1>5. [sstables |-> 0, level |-> y, snapshots |-> 0] \in Gauges
  BY <1>y DEF Gauges
<1>6. Zero.histogram = [h \in Latencies |-> [count |-> 0, bucket |-> z]]
      /\ Zero.gauge = [sstables |-> 0, level |-> y, snapshots |-> 0]
  BY <1>1, <1>2, <1>3, Zenon
<1>7. \A h \in Latencies : Zero.histogram[h].count = 0 /\ Zero.histogram[h].bucket = z
  BY <1>6
<1>8. Zero.gauge.snapshots = 0 /\ Zero.gauge.sstables = 0 /\ Zero.gauge.level = y
  BY <1>6
<1>9. Zero.histogram \in [Latencies -> Histogram] /\ Zero.gauge \in Gauges
  BY <1>4, <1>5, <1>6, Zenon
<1>10. Zero.counter \in [Counters -> Nat] /\ \A c \in Counters : Zero.counter[c] = 0
  BY <1>1
<1>11. \A h \in Latencies : /\ Zero.histogram[h].count = 0
                             /\ \A b \in 1 .. Buckets : Zero.histogram[h].bucket[b] = 0
  BY <1>z, <1>7, Zenon
<1>12. \A l \in Levels : Zero.gauge.level[l] = 0
  BY <1>y, <1>8, Zenon
<1> QED BY <1>8, <1>9, <1>10, <1>11, <1>12

\* Every step keeps the metrics numbers.
LEMMA ValuedStep ==
  ASSUME LogInv, ConsoleInv, CallsInv, Valued, [Next]_vars
  PROVE  Valued'
<1>1. level' \in [Levels -> Int]
  BY LevelMoves, Zenon
<1>2. ASSUME NEW a \in Actors, EngineStep(a)
      PROVE  /\ counter' \in [Counters -> Nat]
             /\ histogram' \in [Latencies -> Histogram]
             /\ gauge' \in Gauges
  <2>1. CallStep(a) /\ Shape(call[a]) /\ call[a] \in CallRecord
    BY <1>2, Zenon DEF EngineStep, CallsInv, LogInv
  <2>2. CASE Enter(a)
    BY <2>2 DEF Enter, Valued, Inc, Counters
  <2>3. CASE DoWrite(a) \/ DoRead(a)
    BY <2>3, Zenon DEF DoWrite, DoRead, metricVars, Valued
  <2>4. CASE SetTotal(a) \/ SetLevel(a)
    <3>1. SumFunction(level) \in Int
      BY LevelsFinite, SumType, Zenon DEF Valued
    <3>2. call[a].pc = "level" => call[a].at \in Levels
      BY <2>1, Zenon DEF Shape
    <3>3. gauge \in Gauges /\ gauge.level \in [Levels -> Int] /\ level \in [Levels -> Int]
      BY Zenon DEF Valued, Gauges
    <3>4. ASSUME SetTotal(a) PROVE gauge' \in Gauges
      BY <3>1, <3>3, <3>4, Zenon DEF SetTotal, Valued, Gauges
    <3>5. ASSUME SetLevel(a) PROVE gauge' \in Gauges
      <4>1. PICK n \in Levels : n = call[a].at
        BY <3>2, <3>5, Zenon DEF SetLevel
      <4>2. PICK g \in [Levels -> Int] : g = [gauge.level EXCEPT ![n] = level[n]]
        BY <3>3, Zenon
      <4>3. gauge' = [gauge EXCEPT !.level = g]
        BY <3>3, <3>5, <4>1, <4>2, Zenon DEF SetLevel, Gauges
      <4> QED BY <3>3, <4>3, Zenon DEF Gauges
    <3>6. gauge' \in Gauges
      BY <2>4, <3>4, <3>5, Zenon
    <3> QED BY <2>4, <3>6, Zenon DEF SetTotal, SetLevel, Valued
  <2>5. CASE Observe(a)
    <3>1. PICK h \in Latencies : h = Latency(call[a].op)
      BY Zenon DEF Latency, Latencies
    <3>3. histogram \in [Latencies -> Histogram] /\ histogram[h] \in Histogram
      BY Zenon DEF Valued
    <3>4. PICK r \in Histogram : histogram' = [histogram EXCEPT ![h] = r]
      <4>1. CASE ObserveCount(h)
        <5>1. [histogram[h] EXCEPT !.count = @ + 1] \in Histogram
          BY <3>3 DEF Histogram
        <5> QED BY <3>3, <4>1, <5>1, Zenon DEF ObserveCount
      <4>2. CASE \E b \in 1 .. Buckets + 1 : ObserveBucket(h, b)
        <5>1. PICK b \in 1 .. Buckets + 1 : ObserveBucket(h, b)
          BY <4>2, Zenon
        <5>2. CASE b > Buckets
          <6>1. histogram' = [histogram EXCEPT ![h] = histogram[h]]
            BY <3>3, <5>1, <5>2, Zenon DEF ObserveBucket
          <6> QED BY <3>3, <6>1, Zenon
        <5>3. CASE ~ (b > Buckets)
          <6>1. b \in 1 .. Buckets
            BY <5>3, MetricsAssumption
          <6>2. PICK k \in [1 .. Buckets -> Nat] : k = histogram[h].bucket
            BY <3>3, Zenon DEF Histogram
          <6>3. PICK n : n = [k EXCEPT ![b] = @ + 1]
            BY Zenon
          <6>n. n \in [1 .. Buckets -> Nat]
            BY <6>1, <6>3
          <6>4. [histogram[h] EXCEPT !.bucket = n] \in Histogram
            BY <3>3, <6>n, Zenon DEF Histogram
          <6>5. histogram' = [histogram EXCEPT ![h] = [histogram[h] EXCEPT !.bucket = n]]
            BY <3>3, <5>1, <5>3, <6>2, <6>3, Zenon DEF ObserveBucket
          <6> QED BY <6>4, <6>5, Zenon
        <5> QED BY <5>2, <5>3, Zenon
      <4> QED BY <2>5, <3>1, <4>1, <4>2 DEF Observe
    <3>2. histogram' \in [Latencies -> Histogram]
      BY <3>3, <3>4, Zenon
    <3> QED BY <2>5, <3>2, Zenon DEF Observe, Valued
  <2>6. CASE Count(a)
    <3>1. PICK k \in Counters : Inc(k)
      BY <2>1, <2>6, Zenon DEF Count, Counters, Shape, Writes
    <3>2. counter' \in [Counters -> Nat]
      BY <3>1 DEF Inc, Valued
    <3> QED BY <2>6, <3>2, Zenon DEF Count, Valued
  <2>7. CASE OpenSnapshot(a) \/ CloseSnapshot(a)
    <3>1. gauge' \in Gauges
      BY <2>7 DEF OpenSnapshot, CloseSnapshot, Valued, Gauges
    <3>2. counter' \in [Counters -> Nat]
      BY <2>7 DEF OpenSnapshot, CloseSnapshot, Valued, Inc, Counters
    <3> QED BY <2>7, <3>1, <3>2, Zenon DEF OpenSnapshot, CloseSnapshot, Valued
  <2> QED BY <2>1, <2>2, <2>3, <2>4, <2>5, <2>6, <2>7 DEF CallStep
<1>3. CASE Gone
  <2>1. counter' = Zero.counter /\ histogram' = Zero.histogram /\ gauge' = Zero.gauge
    BY <1>3, Zenon DEF Gone
  <2> QED BY <1>1, <2>1, ZeroValues, Zenon DEF Valued
<1>4. CASE Outside
  BY <1>1, <1>4, Zenon DEF Outside, Valued
<1>5. ASSUME NEW a \in Actors, EngineStep(a) PROVE Valued'
  BY <1>1, <1>2, <1>5, Zenon DEF Valued
<1> QED BY <1>3, <1>4, <1>5, StepKinds, Zenon

\* ---- The REPL Releases its Snapshot ----

\* Steps that leave the main goroutine and its snapshot alone.
LEMMA ConsoleRests ==
  ASSUME ConsoleInv, UNCHANGED <<work, snap, main, active>>, call'[Console] = call[Console],
         task'[Console] = task[Console], gauge'.snapshots = gauge.snapshots
  PROVE  ConsoleInv'
<1>1. /\ mode' = mode
      /\ Registers(call[Console])' <=> Registers(call[Console])
      /\ Displays(call[Console])' <=> Displays(call[Console])
  BY Zenon DEF mode, Registers, Displays
<1> QED BY <1>1 DEF ConsoleInv

\* Nobody else opens or closes one.
LEMMA OthersKeepSnapshots ==
  ASSUME LogInv, CallsInv, Valued, NEW a \in Clients, CallStep(a)
  PROVE  active' = active /\ gauge'.snapshots = gauge.snapshots
<1>1. /\ a \in Actors /\ Shape(call[a]) /\ call[a].op \notin {"snapshot", "release"}
      /\ gauge \in Gauges
  BY ClientsAct, Zenon DEF CallsInv, Valued
<1>2. ~ OpenSnapshot(a) /\ ~ CloseSnapshot(a)
  BY <1>1, Zenon DEF Shape, OpenSnapshot, CloseSnapshot
<1>3. CASE SetTotal(a) \/ SetLevel(a)
  BY <1>1, <1>3, Zenon DEF SetTotal, SetLevel, engineVars, Gauges
<1>4. CASE Enter(a) \/ DoWrite(a) \/ DoRead(a) \/ Observe(a) \/ Count(a)
  BY <1>4, Zenon DEF Enter, DoWrite, DoRead, Observe, Count, engineVars, metricVars
<1> QED BY <1>2, <1>3, <1>4, Zenon DEF CallStep

\* The main goroutine's own calls.
LEMMA ConsoleCalls ==
  ASSUME LogInv, CallsInv, Valued, ConsoleInv, CallStep(Console), UNCHANGED processVars
  PROVE  ConsoleInv'
<1>1. /\ Console \in Actors /\ call \in [Actors -> CallRecord] /\ call[Console] \in CallRecord
      /\ gauge \in Gauges /\ Shape(call[Console])
  BY ClientsAct, Zenon DEF CallsInv, Valued, LogInv
<1>2. UNCHANGED <<snap, main, task>> /\ work' = work /\ mode' = mode
  <2>1. work' = work
    BY <1>1, CallStepFrame, Zenon
  <2> QED BY <2>1, Zenon DEF processVars, mode
<1>3. call'[Console].op = call[Console].op /\ call[Console].pc # "idle"
  BY <1>1, CallStepShape, CallStepFrame, Zenon
<1>4. call[Console] # NoCall
  BY <1>3, NoCallTyped, Zenon
<1>5. SUFFICES /\ active' = IF Registers(call[Console])' THEN 1 ELSE 0
               /\ gauge'.snapshots = IF Displays(call[Console])' THEN 1 ELSE 0
  BY <1>2, <1>3, <1>4, <1>5, Zenon DEF ConsoleInv
<1>6. /\ active = IF Registers(call[Console]) THEN 1 ELSE 0
      /\ gauge.snapshots = IF Displays(call[Console]) THEN 1 ELSE 0
  BY Zenon DEF ConsoleInv
<1>7. CASE OpenSnapshot(Console)
  <2>1. /\ call[Console].op = "snapshot" /\ call[Console].res = "ok"
        /\ call'[Console].res = "ok"
    BY <1>1, <1>7 DEF OpenSnapshot, Shape, Goto, CallRecord
  <2>2. CASE call[Console].pc = "register"
    <3>1. call'[Console].pc = "opened" /\ active' = active + 1 /\ gauge' = gauge
      BY <1>1, <1>7, <2>2 DEF OpenSnapshot, Goto, CallRecord
    <3>2. ~Registers(call[Console]) /\ ~Displays(call[Console])
      BY <2>1, <2>2, Zenon DEF Registers, Displays
    <3>3. Registers(call[Console])' /\ ~Displays(call[Console])'
      BY <1>3, <2>1, <3>1, Zenon DEF Registers, Displays
    <3> QED BY <1>6, <3>1, <3>2, <3>3
  <2>3. CASE call[Console].pc = "opened"
    <3>1. call'[Console].pc = "gaugeUp" /\ active' = active /\ gauge' = gauge
      BY <1>1, <1>7, <2>3, Zenon DEF OpenSnapshot, Goto, CallRecord
    <3> QED BY <1>3, <1>6, <2>1, <2>3, <3>1, Zenon DEF Registers, Displays
  <2>4. CASE call[Console].pc = "gaugeUp"
    <3>1. /\ call'[Console].pc = "done" /\ active' = active
          /\ gauge'.snapshots = gauge.snapshots + 1
      BY <1>1, <1>7, <2>4 DEF OpenSnapshot, Goto, CallRecord, Gauges
    <3>2. Registers(call[Console]) /\ ~Displays(call[Console])
      BY <2>1, <2>4, Zenon DEF Registers, Displays
    <3>3. Registers(call[Console])' /\ Displays(call[Console])'
      BY <1>3, <2>1, <3>1, Zenon DEF Registers, Displays
    <3> QED BY <1>6, <3>1, <3>2, <3>3
  <2> QED BY <1>7, <2>2, <2>3, <2>4, Zenon DEF OpenSnapshot
<1>8. CASE CloseSnapshot(Console)
  <2>1. call[Console].op = "release"
    BY <1>1, <1>8, Zenon DEF CloseSnapshot, Shape
  <2>2. CASE call[Console].pc = "release"
    <3>1. call'[Console].pc = "gaugeDown" /\ active' = active - 1 /\ gauge' = gauge
      BY <1>1, <1>8, <2>2 DEF CloseSnapshot, Goto, CallRecord
    <3>2. Registers(call[Console]) /\ Displays(call[Console])
      BY <2>1, <2>2, Zenon DEF Registers, Displays
    <3>3. ~Registers(call[Console])' /\ Displays(call[Console])'
      BY <1>3, <2>1, <3>1, Zenon DEF Registers, Displays
    <3> QED BY <1>6, <3>1, <3>2, <3>3
  <2>3. CASE call[Console].pc = "gaugeDown"
    <3>1. /\ call'[Console].pc = "done" /\ active' = active
          /\ gauge'.snapshots = gauge.snapshots - 1
      BY <1>1, <1>8, <2>3 DEF CloseSnapshot, Finish, CallRecord, Gauges
    <3>2. ~Registers(call[Console]) /\ Displays(call[Console])
      BY <2>1, <2>3, Zenon DEF Registers, Displays
    <3>3. ~Registers(call[Console])' /\ ~Displays(call[Console])'
      BY <1>3, <2>1, <3>1, Zenon DEF Registers, Displays
    <3> QED BY <1>6, <3>1, <3>2, <3>3
  <2> QED BY <1>8, <2>2, <2>3, Zenon DEF CloseSnapshot
<1>9. CASE SetTotal(Console) \/ SetLevel(Console)
  <2>1. /\ call[Console].op = "stats"
        /\ call[Console].pc \in {"work", "level"} /\ call'[Console].pc \in {"level", "done"}
        /\ active' = active /\ gauge'.snapshots = gauge.snapshots
    BY <1>1, <1>9 DEF SetTotal, SetLevel, engineVars, Shape, Gauges, CallRecord
  <2> QED BY <1>2, <1>3, <1>6, <2>1 DEF Registers, Displays
<1>10. CASE DoWrite(Console) \/ DoRead(Console) \/ Observe(Console) \/ Count(Console)
  <2>1. active' = active /\ gauge' = gauge
    BY <1>10, Zenon DEF DoWrite, DoRead, Observe, Count, engineVars, metricVars
  <2>2. /\ call[Console].pc \in {"work", "observe", "bucket", "total", "outcome"}
        /\ call'[Console].pc \in {"register", "observe", "bucket", "total", "outcome", "done"}
        /\ call[Console].op = "snapshot" => call'[Console].pc = "register"
        /\ call[Console].op # "release"
    BY <1>1, <1>10 DEF DoWrite, DoRead, Observe, Count, Goto, Finish, CallRecord, Shape, Writes
  <2> QED BY <1>2, <1>3, <1>6, <2>1, <2>2, Zenon DEF Registers, Displays
<1>11. CASE Enter(Console)
  <2>1. active' = active /\ gauge' = gauge
    BY <1>11, Zenon DEF Enter, engineVars
  <2>2. /\ call[Console].pc = "enter"
        /\ \/ call'[Console].pc = "work"
           \/ call'[Console].pc \in {"observe", "done"} /\ call'[Console].res = "closed"
    BY <1>1, <1>11 DEF Enter, Goto, Finish, CallRecord, Counted
  <2> QED BY <1>2, <1>3, <1>6, <2>1, <2>2, Zenon DEF Registers, Displays
<1> QED BY <1>7, <1>8, <1>9, <1>10, <1>11 DEF CallStep

\* The commands of the REPL, its end, and the report of the benchmark.
LEMMA ConsoleMoves ==
  ASSUME LogInv, StopInv, CallsInv, ConsoleInv,
         Command \/ CommandReturns \/ Quit \/ Unsnapped \/ BenchWaited \/ BenchReported
  PROVE  ConsoleInv'
<1> USE DEF Stay, Main
<1>1. /\ Console \in Actors /\ call \in [Actors -> CallRecord] /\ task \in [Actors -> TaskRecord]
      /\ Shape(call[Console]) /\ snap \in BOOLEAN
  BY ClientsAct, Zenon DEF CallsInv, ConsoleInv, LogInv, StopInv
<1>2. UNCHANGED <<work, gauge, active>>
  BY Zenon DEF Command, CommandReturns, Quit, Unsnapped, BenchWaited, BenchReported, engineVars,
     metricVars
<1>3. mode' = mode
  BY <1>2, Zenon DEF mode
<1>4. /\ active = IF Registers(call[Console]) THEN 1 ELSE 0
      /\ gauge.snapshots = IF Displays(call[Console]) THEN 1 ELSE 0
  BY Zenon DEF ConsoleInv
<1>n. NoCall.op = "none" /\ NoCall.pc = "idle"
  BY NoCallTyped, Zenon
<1>5. CASE Command
  <2>1. PICK op \in work.ops :
          /\ call[Console] = NoCall /\ call' = [call EXCEPT ![Console] = Invoked(op)]
          /\ op = "snapshot" => ~ snap
          /\ op = "release" => snap
    BY <1>5, Zenon DEF Command, Invoke
  <2>2. call'[Console] = Invoked(op) /\ op \in AllOps \ {"none"}
    BY <1>1, <2>1, OpsNamed, Zenon
  <2>3. /\ Invoked(op).op = op
        /\ Invoked(op).pc = IF op = "release" THEN "release" ELSE "enter"
    BY <2>2, InvokedTyped, Zenon DEF LogInv
  <2>4. /\ mode = "repl" /\ main = "running" /\ main' = main /\ snap' = snap
        /\ task'[Console].pc = "engine"
    BY <1>1, <1>5, Zenon DEF Command, TaskRecord
  <2>5. (Registers(call[Console])' <=> snap) /\ (Displays(call[Console])' <=> snap)
    BY <2>1, <2>2, <2>3, <2>4, Zenon DEF Registers, Displays
  <2>6. (Registers(call[Console]) <=> snap) /\ (Displays(call[Console]) <=> snap)
    BY <1>n, <2>1, Zenon DEF Registers, Displays
  <2> QED BY <1>1, <1>2, <1>3, <1>4, <2>1, <2>2, <2>3, <2>4, <2>5, <2>6, Zenon DEF ConsoleInv
<1>6. CASE CommandReturns
  <2>1. /\ mode = "repl" /\ main = "running" /\ main' = main /\ call[Console].pc = "done"
        /\ call'[Console] = NoCall
    BY <1>1, <1>6, Zenon DEF CommandReturns
  <2>2. snap' \in BOOLEAN /\ (snap' <=> Registers(call[Console]))
    <3>1. CASE call[Console].op = "snapshot"
      BY <1>6, <2>1, <3>1, Zenon DEF CommandReturns, Registers
    <3>2. CASE call[Console].op = "release"
      BY <1>6, <2>1, <3>2, Zenon DEF CommandReturns, Registers
    <3>3. CASE call[Console].op \notin {"snapshot", "release"}
      <4>1. snap' = snap
        BY <1>6, <3>3, Zenon DEF CommandReturns
      <4> QED BY <1>1, <3>3, <4>1, Zenon DEF Registers
    <3> QED BY <3>1, <3>2, <3>3, Zenon
  <2>3. Displays(call[Console]) <=> Registers(call[Console])
    BY <2>1, Zenon DEF Displays
  <2>4. (Registers(call[Console])' <=> snap') /\ (Displays(call[Console])' <=> snap')
    BY <1>n, <2>1, Zenon DEF Registers, Displays
  <2> QED BY <1>2, <1>3, <1>4, <1>n, <2>1, <2>2, <2>3, <2>4, Zenon DEF ConsoleInv
<1>7. CASE Quit
  <2>1. /\ mode = "repl" /\ main = "running" /\ call[Console] = NoCall /\ snap' = FALSE
    BY <1>7, Zenon DEF Quit, ConsoleInv
  <2>2. (Registers(call[Console]) <=> snap) /\ (Displays(call[Console]) <=> snap)
    BY <1>n, <2>1, Zenon DEF Registers, Displays
  <2>3. CASE snap
    <3>1. main' = "unsnap" /\ call'[Console] = Invoked("release")
      BY <1>1, <1>7, <2>3, Zenon DEF Quit
    <3>2. Invoked("release").op = "release" /\ Invoked("release").pc = "release"
      BY InvokedTyped, Zenon DEF LogInv, AllOps, Ops
    <3>3. Registers(call[Console])' /\ Displays(call[Console])'
      BY <3>1, <3>2, Zenon DEF Registers, Displays
    <3> QED BY <1>2, <1>3, <1>4, <2>1, <2>2, <2>3, <3>1, <3>2, <3>3, Zenon DEF ConsoleInv
  <2>4. CASE ~ snap
    <3>1. main' = "debug" /\ call' = call
      BY <1>7, <2>4, Zenon DEF Quit
    <3>2. ~ Registers(call[Console])' /\ ~ Displays(call[Console])'
      BY <1>n, <2>1, <3>1, Zenon DEF Registers, Displays
    <3> QED BY <1>2, <1>3, <1>4, <1>n, <2>1, <2>2, <2>4, <3>1, <3>2, Zenon DEF ConsoleInv
  <2> QED BY <2>3, <2>4, Zenon
<1>8. CASE Unsnapped \/ BenchReported
  <2>1. /\ main \in {"unsnap", "report"} /\ main' = "debug" /\ snap' = snap
        /\ call[Console].pc = "done" /\ call'[Console] = NoCall
    BY <1>1, <1>8, Zenon DEF Unsnapped, BenchReported
  <2>2. ~ snap /\ call[Console].op \in {"release", "stats"}
    BY <2>1, Zenon DEF ConsoleInv
  <2>3. ~ Registers(call[Console]) /\ ~ Displays(call[Console])
    BY <2>1, <2>2, Zenon DEF Registers, Displays
  <2>4. ~ Registers(call[Console])' /\ ~ Displays(call[Console])'
    BY <1>n, <2>1, <2>2, Zenon DEF Registers, Displays
  <2> QED BY <1>1, <1>2, <1>3, <1>4, <1>n, <2>1, <2>2, <2>3, <2>4, Zenon DEF ConsoleInv
<1>9. CASE BenchWaited
  <2>1. /\ mode = "bench" /\ main = "running" /\ main' = "report" /\ snap' = snap
        /\ call[Console] = NoCall /\ call'[Console] = Invoked("stats")
    BY <1>1, <1>9, Zenon DEF BenchWaited, ConsoleInv
  <2>2. ~ snap
    BY <2>1, Zenon DEF ConsoleInv
  <2>3. Invoked("stats").op = "stats" /\ Invoked("stats").pc = "enter"
    BY InvokedTyped, Zenon DEF LogInv, AllOps, Ops
  <2>4. ~ Registers(call[Console]) /\ ~ Displays(call[Console])
    BY <1>n, <2>1, <2>2, Zenon DEF Registers, Displays
  <2>5. ~ Registers(call[Console])' /\ ~ Displays(call[Console])'
    BY <2>1, <2>2, <2>3, Zenon DEF Registers, Displays
  <2> QED BY <1>1, <1>2, <1>3, <1>4, <2>1, <2>2, <2>3, <2>4, <2>5, Zenon DEF ConsoleInv
<1> QED BY <1>5, <1>6, <1>7, <1>8, <1>9, Zenon

\* Every step keeps ConsoleInv.
LEMMA ConsoleInvStep ==
  ASSUME LogInv, StopInv, CallsInv, Valued, ConsoleInv, [Next]_vars
  PROVE  ConsoleInv'
<1>1. ASSUME NEW a \in Actors, EngineStep(a) PROVE ConsoleInv'
  <2>1. CallStep(a) /\ UNCHANGED processVars
    BY <1>1, Zenon DEF EngineStep
  <2>2. CASE a = Console
    BY <2>1, <2>2, ConsoleCalls
  <2>3. CASE a # Console
    <3>1. a \in Clients /\ Console \in Actors
      BY <2>3, ClientsAct, Zenon DEF Actors
    <3>2. active' = active /\ gauge'.snapshots = gauge.snapshots
      BY <2>1, <3>1, OthersKeepSnapshots, Zenon
    <3>3. call'[Console] = call[Console] /\ work' = work
      BY <2>1, <2>3, <3>1, CallStepFrame, Zenon
    <3>4. UNCHANGED <<snap, main, task>>
      BY <2>1, Zenon DEF processVars
    <3> QED BY <3>2, <3>3, <3>4, ConsoleRests
  <2> QED BY <2>2, <2>3, Zenon
<1>2. ASSUME NEW c \in Clients, Handler(c) \/ Worker(c) PROVE ConsoleInv'
  <2>1. UNCHANGED <<work, snap, main, active, gauge>>
    BY <1>2, Zenon DEF Handler, Worker, RequestPut, BodyRead, BodyFails, RequestPlain, RequestOther,
       Respond, Replied, WorkerCalls, WorkerCounts, Stay, engineVars, metricVars
  <2>2. c # Console /\ Console \in Actors /\ c \in Actors
    BY ClientsAct, Zenon
  <2>3. call \in [Actors -> CallRecord] /\ task \in [Actors -> TaskRecord]
    BY Zenon DEF LogInv, StopInv
  <2>4. call' = call \/ \E x : call' = [call EXCEPT ![c] = x]
    BY <1>2, Zenon DEF Handler, Worker, RequestPut, BodyRead, BodyFails, RequestPlain, RequestOther,
       Respond, Replied, WorkerCalls, WorkerCounts, Invoke
  <2>5. task' = task \/ \E x : task' = [task EXCEPT ![c] = x]
    BY <1>2 DEF Handler, Worker, RequestPut, BodyRead, BodyFails, RequestPlain, RequestOther,
       Respond, Replied, WorkerCalls, WorkerCounts
  <2>6. call'[Console] = call[Console] /\ task'[Console] = task[Console]
    BY <2>2, <2>3, <2>4, <2>5, Zenon
  <2> QED BY <2>1, <2>6, ConsoleRests
<1>3. CASE Command \/ CommandReturns \/ Quit \/ Unsnapped \/ BenchWaited \/ BenchReported
  BY <1>3, ConsoleMoves, Zenon
<1>4. CASE \/ Interrupt \/ ListenFails \/ Drained \/ ShutdownDeadline \/ DebugDrained
           \/ DebugDeadline \/ CloseFlag \/ WorkersStop \/ FinalFlush
  <2> USE DEF Main, Frame
  <2>1. UNCHANGED <<work, snap, active, gauge, call, task>>
    BY <1>4, Zenon DEF Interrupt, ListenFails, Drained, ShutdownDeadline, DebugDrained,
       DebugDeadline, CloseFlag, WorkersStop, FinalFlush, callVars, metricVars
  <2>2. /\ main = "running" => mode = "serve"
        /\ main \notin {"unsnap", "report"} /\ main' \notin {"running", "unsnap", "report"}
    BY <1>4, Zenon DEF Interrupt, ListenFails, Drained, ShutdownDeadline, DebugDrained, DebugDeadline,
       CloseFlag, WorkersStop, FinalFlush
  <2>3. call[Console] = NoCall /\ ~ snap
    BY <2>2, Zenon DEF ConsoleInv
  <2>4. /\ mode' = mode
        /\ Registers(call[Console])' <=> Registers(call[Console])
        /\ Displays(call[Console])' <=> Displays(call[Console])
    BY <2>1, Zenon DEF mode, Registers, Displays
  <2> QED BY <2>1, <2>2, <2>3, <2>4, Zenon DEF ConsoleInv
<1>5. CASE Scrape \/ RenderNext \/ Terminated \/ UNCHANGED vars \/ (Install /\ UNCHANGED processVars)
  <2>1. UNCHANGED <<work, snap, main, active, gauge, call, task>>
    BY <1>5, Zenon DEF Scrape, RenderNext, BeginScrape, Render, Terminated, Install, callVars,
       processVars, metricVars, vars
  <2> QED BY <2>1, ConsoleRests, Zenon
<1>6. CASE Gone
  <2>1. /\ main' = "exited" /\ snap' = FALSE /\ active' = 0 /\ gauge' = Zero.gauge
        /\ call' = [a \in Actors |-> NoCall]
    BY <1>6, Zenon DEF Gone
  <2>2. call'[Console] = NoCall /\ gauge'.snapshots = 0
    BY <2>1, ClientsAct, ZeroValues, Zenon
  <2>3. ~ Registers(call[Console])' /\ ~ Displays(call[Console])'
    BY <2>1, <2>2, NoCallTyped, Zenon DEF Registers, Displays
  <2> QED BY <2>1, <2>2, <2>3, NoCallTyped, Zenon DEF ConsoleInv
<1> QED BY <1>1, <1>2, <1>3, <1>4, <1>5, <1>6 DEF Next, MainStep, LogRemoved, CloseFails, Killed

\* What is known of the process.
ServeInv == LogInv /\ StopInv /\ CallsInv /\ Valued /\ ConsoleInv

\* ServeInv holds when the process begins.
LEMMA ServeInvInit == Init => ServeInv
<1> SUFFICES ASSUME Init PROVE ServeInv
  BY Zenon
<1>1. LogInv /\ StopInv
  BY LogInvInit, NobodyStops, Zenon DEF Init, InitCalls
<1>2. \A a \in Actors : call[a] = NoCall
  BY Zenon DEF Init, InitCalls
<1>3. CallsInv
  BY <1>2, NoCallShape, NoCallTyped, Zenon DEF CallsInv
<1>4. /\ counter = Zero.counter /\ histogram = Zero.histogram /\ gauge = Zero.gauge
      /\ level = [l \in Levels |-> IF l = 1 THEN 1 ELSE 0]
      /\ snap = FALSE /\ main = "running" /\ active = 0
  BY Zenon DEF Init, InitMetrics, InitCalls
<1>5. Valued
  BY <1>4, ZeroValues DEF Valued
<1>6. call[Console] = NoCall /\ gauge.snapshots = 0
  BY <1>2, <1>4, ClientsAct, ZeroValues, Zenon
<1>7. ~ Registers(call[Console]) /\ ~ Displays(call[Console])
  BY <1>4, <1>6, NoCallTyped, Zenon DEF Registers, Displays
<1>8. ConsoleInv
  BY <1>4, <1>6, <1>7, NoCallTyped, Zenon DEF ConsoleInv
<1> QED BY <1>1, <1>3, <1>5, <1>8, Zenon DEF ServeInv

\* Every step keeps ServeInv.
LEMMA ServeInvStep == ServeInv /\ [Next]_vars => ServeInv'
  BY LogInvStep, StopInvStep, CallsInvStep, ValuedStep, ConsoleInvStep, Zenon DEF ServeInv

\* What the goroutines of the process may be doing at each point of its way
\* from main.go's start to its exit, and the types of the metrics they update:
\* the invariant that the theorems below rest on.
THEOREM ServeInvAlways == Spec => []ServeInv
  BY ServeInvInit, ServeInvStep, PTL DEF Spec

\* The REPL closes the engine only when its snapshot is released, whether it
\* was asked to release it or its input came to an end, and the gauge of open
\* snapshots counts the open ones between the calls (main.go's runREPL,
\* engine.go's Snapshot and Snapshot.Close).
THEOREM SnapshotsReleasedAlways == Spec => []SnapshotsReleased
<1>1. ServeInv => SnapshotsReleased
  <2> SUFFICES ASSUME ServeInv PROVE SnapshotsReleased
    BY Zenon
  <2>1. closed => call[Console] = NoCall /\ ~ snap
    BY Zenon DEF ServeInv, StopInv, ConsoleInv
  <2>2. closed => ~ Registers(call[Console])
    BY <2>1, NoCallTyped, Zenon DEF Registers
  <2>3. call[Console].pc \notin {"opened", "gaugeUp", "gaugeDown"} =>
          (Registers(call[Console]) <=> Displays(call[Console]))
    BY Zenon DEF Displays
  <2> QED BY <2>2, <2>3, Zenon DEF SnapshotsReleased, ServeInv, ConsoleInv
<1> QED BY <1>1, ServeInvAlways, PTL
=============================================================================
