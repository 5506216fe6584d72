---------------------- MODULE SchedulerAccounts_proofs ----------------------
(***************************************************************************)
(* Proofs about the accounts of a Scheduler (src/src/scheduler.c): when it *)
(* has stopped, the counters that join added up over the workers balance   *)
(* with what happened, or the overflow flag says that they cannot.         *)
(*                                                                         *)
(* The invariant AccountsInv relates the counters of every worker, the     *)
(* totals and the true numbers by sums over the workers (Sum), of which    *)
(* the saturating additions of release_workers are the images.             *)
(***************************************************************************)
EXTENDS SchedulerTasks_proofs

(* A sum over the workers, as the function of how many have been added. *)
Sum(f) ==
    LET sum[n \in 0..WorkerCount] == IF n = 0 THEN 0 ELSE sum[n - 1] + f[n]
    IN sum

SumsTo(s, f, n) == s = [i \in 0..n |-> IF i = 0 THEN 0 ELSE s[i - 1] + f[i]]

(* The function defined by this recursion exists, whatever the number of workers. *)
LEMMA SumsToExist ==
    ASSUME NEW f PROVE \A n \in Nat : \E s : SumsTo(s, f, n)
<1> DEFINE T == {n \in Nat : ~ \E s : SumsTo(s, f, n)}
<1> SUFFICES ASSUME T # {} PROVE FALSE
  OBVIOUS
<1>1. PICK m \in T : \A n \in T : m <= n
  BY LeastNumber
<1>2. m # 0
  <2> DEFINE s == [i \in 0..0 |-> 0]
  <2>1. SumsTo(s, f, 0)
    BY DEF SumsTo
  <2>2. QED
    BY <2>1
<1>3. PICK g : SumsTo(g, f, m - 1)
  BY <1>1, <1>2
<1> DEFINE s == [i \in 0..m |-> IF i = m THEN g[m - 1] + f[m] ELSE g[i]]
<1>4. \A i \in 0..(m - 1) : g[i] = IF i = 0 THEN 0 ELSE g[i - 1] + f[i]
  BY <1>3, <1>2 DEF SumsTo
<1>5. ASSUME NEW i \in 0..m
      PROVE  s[i] = IF i = 0 THEN 0 ELSE s[i - 1] + f[i]
  <2>1. CASE i = m
    BY <1>2, <2>1
  <2>2. CASE i = 0
    BY <1>2, <1>4, <2>2
  <2>3. CASE i # m /\ i # 0
    <3>1. i \in 0..(m - 1) /\ i - 1 \in 0..m /\ i - 1 # m
      BY <2>3
    <3>2. s[i] = g[i] /\ s[i - 1] = g[i - 1]
      BY <2>3, <3>1
    <3>3. QED
      BY <1>4, <2>3, <3>1, <3>2
  <2>4. QED
    BY <2>1, <2>2, <2>3
<1>6. SumsTo(s, f, m)
  BY <1>5 DEF SumsTo
<1>7. QED
  BY <1>1, <1>6

(* A sum of natural numbers starts at zero and grows by what each worker adds. *)
LEMMA SumFacts ==
    ASSUME NEW f \in [Workers -> Nat]
    PROVE  /\ Sum(f)[0] = 0
           /\ \A n \in 0..WorkerCount : Sum(f)[n] \in Nat
           /\ \A n \in Workers : n - 1 \in 0..WorkerCount /\ Sum(f)[n] = Sum(f)[n - 1] + f[n]
<1> DEFINE s == Sum(f)
           T == {n \in 0..WorkerCount : ~ (s[n] \in Nat)}
<1>1. PICK g : SumsTo(g, f, WorkerCount)
  BY SumsToExist, SchedulerAssumption
<1>2. SumsTo(s, f, WorkerCount)
  BY <1>1 DEF SumsTo, Sum
<1>3. s = [i \in 0..WorkerCount |-> IF i = 0 THEN 0 ELSE s[i - 1] + f[i]]
  BY <1>2 DEF SumsTo
<1> HIDE DEF s
<1>4. s[0] = 0
  BY <1>3, SchedulerAssumption
<1>5. \A n \in Workers : n - 1 \in 0..WorkerCount /\ s[n] = s[n - 1] + f[n]
  BY <1>3, SchedulerAssumption DEF Workers
<1>6. T = {}
  <2>1. SUFFICES ASSUME T # {} PROVE FALSE
    OBVIOUS
  <2>2. PICK m \in T : \A n \in T : m <= n
    <3>1. T \in SUBSET Nat
      BY SchedulerAssumption
    <3>2. QED
      BY <2>1, <3>1, LeastNumber
  <2>3. m \in Workers /\ m - 1 \in 0..WorkerCount
    BY <1>4, <2>2, SchedulerAssumption DEF Workers
  <2>4. s[m - 1] \in Nat
    BY <2>2, <2>3, SchedulerAssumption
  <2>5. f[m] \in Nat
    BY <2>3
  <2>6. QED
    BY <1>5, <2>2, <2>3, <2>4, <2>5
<1>7. QED
  BY <1>4, <1>5, <1>6 DEF s

(* A larger prefix has a larger sum, and no worker counts more than all do. *)
LEMMA SumGrows ==
    ASSUME NEW f \in [Workers -> Nat], NEW m \in 0..WorkerCount, NEW n \in 0..WorkerCount, m <= n
    PROVE  Sum(f)[m] <= Sum(f)[n]
<1> DEFINE s == Sum(f)
           T == {i \in 0..WorkerCount : m <= i /\ ~ (s[m] <= s[i])}
<1>1. /\ \A i \in 0..WorkerCount : s[i] \in Nat
      /\ \A i \in Workers : i - 1 \in 0..WorkerCount /\ s[i] = s[i - 1] + f[i]
  BY SumFacts
<1> HIDE DEF s
<1>2. SUFFICES ASSUME T # {} PROVE FALSE
  BY DEF s
<1>3. PICK i \in T : \A j \in T : i <= j
  <2>1. T \in SUBSET Nat
    BY SchedulerAssumption
  <2>2. QED
    BY <1>2, <2>1, LeastNumber
<1>4. i # m
  BY <1>1, <1>3
<1>5. i \in Workers /\ i - 1 \in 0..WorkerCount /\ m <= i - 1 /\ f[i] \in Nat
  BY <1>3, <1>4, SchedulerAssumption DEF Workers
<1>6. s[m] <= s[i - 1]
  BY <1>3, <1>5
<1>7. QED
  BY <1>1, <1>3, <1>5, <1>6

(* One more event at one worker is one more in every sum that includes it. *)
LEMMA SumRaised ==
    ASSUME NEW f \in [Workers -> Nat], NEW g \in [Workers -> Nat], NEW w \in Workers,
           g[w] = f[w] + 1, \A v \in Workers : v # w => g[v] = f[v]
    PROVE  \A n \in 0..WorkerCount : Sum(g)[n] = IF n < w THEN Sum(f)[n] ELSE Sum(f)[n] + 1
<1> DEFINE s == Sum(f)
           r == Sum(g)
           T == {i \in 0..WorkerCount : ~ (r[i] = IF i < w THEN s[i] ELSE s[i] + 1)}
<1>1. /\ s[0] = 0 /\ \A i \in 0..WorkerCount : s[i] \in Nat
      /\ \A i \in Workers : i - 1 \in 0..WorkerCount /\ s[i] = s[i - 1] + f[i]
  BY SumFacts
<1>2. /\ r[0] = 0 /\ \A i \in 0..WorkerCount : r[i] \in Nat
      /\ \A i \in Workers : i - 1 \in 0..WorkerCount /\ r[i] = r[i - 1] + g[i]
  BY SumFacts
<1> HIDE DEF s, r
<1>3. SUFFICES ASSUME T # {} PROVE FALSE
  BY DEF s, r
<1>4. PICK i \in T : \A j \in T : i <= j
  <2>1. T \in SUBSET Nat
    BY SchedulerAssumption
  <2>2. QED
    BY <1>3, <2>1, LeastNumber
<1>5. i # 0
  BY <1>1, <1>2, <1>4, SchedulerAssumption DEF Workers
<1>6. i \in Workers /\ i - 1 \in 0..WorkerCount /\ f[i] \in Nat /\ w \in Nat
  BY <1>4, <1>5, SchedulerAssumption DEF Workers
<1>7. r[i - 1] = IF i - 1 < w THEN s[i - 1] ELSE s[i - 1] + 1
  BY <1>4, <1>6
<1>8. r[i] = r[i - 1] + g[i] /\ s[i] = s[i - 1] + f[i] /\ s[i - 1] \in Nat
  BY <1>1, <1>2, <1>6
<1>9. g[i] = IF i = w THEN f[i] + 1 ELSE f[i]
  BY <1>6
<1>10. r[i] = IF i < w THEN s[i] ELSE s[i] + 1
  BY <1>6, <1>7, <1>8, <1>9
<1>11. QED
  BY <1>4, <1>10

(* Workers that have counted nothing add nothing. *)
LEMMA SumOfZeros ==
    ASSUME NEW f \in [Workers -> Nat], NEW m \in 0..WorkerCount,
           \A w \in Workers : w > m => f[w] = 0
    PROVE  Sum(f)[WorkerCount] = Sum(f)[m]
<1> DEFINE s == Sum(f)
           T == {i \in 0..WorkerCount : m <= i /\ s[m] # s[i]}
<1>1. /\ \A i \in 0..WorkerCount : s[i] \in Nat
      /\ \A i \in Workers : i - 1 \in 0..WorkerCount /\ s[i] = s[i - 1] + f[i]
  BY SumFacts
<1> HIDE DEF s
<1>2. SUFFICES ASSUME T # {} PROVE FALSE
  BY SchedulerAssumption DEF s
<1>3. PICK i \in T : \A j \in T : i <= j
  <2>1. T \in SUBSET Nat
    BY SchedulerAssumption
  <2>2. QED
    BY <1>2, <2>1, LeastNumber
<1>4. i # m
  BY <1>1, <1>3
<1>5. i \in Workers /\ i - 1 \in 0..WorkerCount /\ m <= i - 1 /\ f[i] = 0
  BY <1>3, <1>4, SchedulerAssumption DEF Workers
<1>6. s[m] = s[i - 1]
  BY <1>3, <1>5
<1>7. QED
  BY <1>1, <1>3, <1>5, <1>6

-----------------------------------------------------------------------------
(* What the counters show of an event: the total, and what each worker has *)
(* counted since join last added its count to the total.                   *)
CountsOf(c) == [w \in Workers |-> context[w][c]]
Shown(c) == total[c] + Sum(CountsOf(c))[WorkerCount]

(* The counts of the workers are natural numbers. *)
LEMMA CountsType ==
    ASSUME TypeOK, NEW c \in Counters
    PROVE  /\ CountsOf(c) \in [Workers -> Nat]
           /\ total[c] \in 0..CounterMax /\ total[c] \in Nat
           /\ Shown(c) \in Nat /\ total[c] <= Shown(c)
           /\ \A w \in Workers : context[w][c] \in 0..CounterMax
<1>1. /\ total[c] \in 0..CounterMax
      /\ \A w \in Workers : context[w][c] \in 0..CounterMax
  BY DEF TypeOK
<1>2. CountsOf(c) \in [Workers -> Nat]
  BY <1>1, SchedulerAssumption DEF CountsOf
<1>3. Sum(CountsOf(c))[WorkerCount] \in Nat
  BY <1>2, SumFacts, SchedulerAssumption
<1>4. QED
  BY <1>1, <1>2, <1>3, SchedulerAssumption DEF Shown

(* What one more event at a worker adds. *)
LEMMA SaturatedSum ==
    ASSUME NEW n \in Nat, NEW v \in Nat
    PROVE  /\ add_saturating(Saturated(n), v) = Saturated(n + v)
           /\ Saturated(n) \in 0..CounterMax
           /\ n <= CounterMax => (SumOverflows(Saturated(n), v) <=> n + v > CounterMax)
BY SchedulerAssumption DEF add_saturating, SumOverflows, Saturated

(* The saturating sum of release_workers is the sum, saturated. *)
LEMMA AggregateShows ==
    ASSUME TypeOK, NEW c \in Counters
    PROVE  \A n \in 0..WorkerCount :
              Aggregate(c)[n] = Saturated(total[c] + Sum(CountsOf(c))[n])
<1> DEFINE f == CountsOf(c)
           s == Sum(f)
           a == Aggregate(c)
           T == {n \in 0..WorkerCount : a[n] # Saturated(total[c] + s[n])}
<1>1. /\ f \in [Workers -> Nat] /\ total[c] \in 0..CounterMax /\ total[c] \in Nat
  BY CountsType
<1>2. \A w \in Workers : f[w] = context[w][c]
  BY DEF CountsOf
<1> HIDE DEF f
<1>3. /\ s[0] = 0 /\ \A i \in 0..WorkerCount : s[i] \in Nat
      /\ \A i \in Workers : i - 1 \in 0..WorkerCount /\ s[i] = s[i - 1] + f[i]
  BY <1>1, SumFacts
<1>4. a = [w \in 0..WorkerCount |-> IF w = 0 THEN total[c]
                                    ELSE add_saturating(a[w - 1], context[w][c])]
  BY AggregateSums DEF Sums
<1> HIDE DEF a, s
<1>5. a[0] = total[c]
  BY <1>4, SchedulerAssumption
<1>6. \A w \in Workers : a[w] = add_saturating(a[w - 1], f[w])
  BY <1>2, <1>4, SchedulerAssumption DEF Workers
<1>7. SUFFICES ASSUME T # {} PROVE FALSE
  BY DEF a, s, f
<1>8. PICK i \in T : \A j \in T : i <= j
  <2>1. T \in SUBSET Nat
    BY SchedulerAssumption
  <2>2. QED
    BY <1>7, <2>1, LeastNumber
<1>9. i # 0
  <2>1. Saturated(total[c] + s[0]) = total[c]
    BY <1>1, <1>3, SchedulerAssumption DEF Saturated
  <2>2. QED
    BY <1>5, <1>8, <2>1
<1>10. i \in Workers /\ i - 1 \in 0..WorkerCount
  BY <1>8, <1>9, SchedulerAssumption DEF Workers
<1>11. f[i] \in Nat /\ s[i - 1] \in Nat /\ total[c] + s[i - 1] \in Nat
  BY <1>1, <1>3, <1>10
<1>12. a[i - 1] = Saturated(total[c] + s[i - 1])
  BY <1>8, <1>10
<1>13. a[i] = Saturated((total[c] + s[i - 1]) + f[i])
  BY <1>6, <1>10, <1>11, <1>12, SaturatedSum
<1>14. (total[c] + s[i - 1]) + f[i] = total[c] + s[i]
  BY <1>1, <1>3, <1>10, <1>11
<1>15. QED
  BY <1>8, <1>13, <1>14

(* It overflows at some worker exactly when the sum does not fit. *)
LEMMA AggregateOverflowsWhen ==
    ASSUME TypeOK, NEW c \in Counters
    PROVE  (\E w \in Workers : SumOverflows(Aggregate(c)[w - 1], context[w][c]))
               <=> Shown(c) > CounterMax
<1> DEFINE f == CountsOf(c)
           s == Sum(f)
           a == Aggregate(c)
           T == {n \in 0..WorkerCount : total[c] + s[n] > CounterMax}
<1>1. /\ f \in [Workers -> Nat] /\ total[c] \in 0..CounterMax /\ total[c] \in Nat
  BY CountsType
<1>2. \A w \in Workers : f[w] = context[w][c]
  BY DEF CountsOf
<1>3. \A n \in 0..WorkerCount : a[n] = Saturated(total[c] + s[n])
  BY AggregateShows
<1>4. Shown(c) = total[c] + s[WorkerCount]
  BY DEF Shown
<1> HIDE DEF f, a
<1>5. /\ s[0] = 0 /\ \A i \in 0..WorkerCount : s[i] \in Nat
      /\ \A i \in Workers : i - 1 \in 0..WorkerCount /\ s[i] = s[i - 1] + f[i]
  BY <1>1, SumFacts
<1>6. \A i \in 0..WorkerCount : s[i] <= s[WorkerCount]
  BY <1>1, SumGrows, SchedulerAssumption
<1> HIDE DEF s
<1>7. ASSUME NEW w \in Workers, total[c] + s[w - 1] <= CounterMax
      PROVE  SumOverflows(a[w - 1], context[w][c]) <=> total[c] + s[w] > CounterMax
  <2>1. w - 1 \in 0..WorkerCount /\ f[w] \in Nat /\ s[w - 1] \in Nat /\ s[w] = s[w - 1] + f[w]
    BY <1>1, <1>5
  <2>2. total[c] + s[w - 1] \in Nat
    BY <1>1, <2>1
  <2>3. SumOverflows(a[w - 1], f[w]) <=> (total[c] + s[w - 1]) + f[w] > CounterMax
    BY <1>3, <1>7, <2>1, <2>2, SaturatedSum
  <2>4. QED
    BY <1>1, <1>2, <2>1, <2>3
<1>8. ASSUME NEW w \in Workers, SumOverflows(a[w - 1], context[w][c])
      PROVE  Shown(c) > CounterMax
  <2>1. w - 1 \in 0..WorkerCount /\ w \in 0..WorkerCount /\ WorkerCount \in 0..WorkerCount
    BY SchedulerAssumption DEF Workers
  <2>2. /\ s[w - 1] \in Nat /\ s[w] \in Nat /\ s[WorkerCount] \in Nat
        /\ s[w - 1] <= s[WorkerCount] /\ s[w] <= s[WorkerCount]
    BY <1>5, <1>6, <2>1
  <2>3. total[c] + s[w - 1] > CounterMax \/ total[c] + s[w] > CounterMax
    BY <1>1, <1>7, <1>8, <2>2, SchedulerAssumption
  <2>4. QED
    BY <1>1, <1>4, <2>2, <2>3, SchedulerAssumption
<1>9. ASSUME Shown(c) > CounterMax
      PROVE  \E w \in Workers : SumOverflows(a[w - 1], context[w][c])
  <2>1. T # {}
    BY <1>4, <1>9, SchedulerAssumption
  <2>2. PICK i \in T : \A j \in T : i <= j
    <3>1. T \in SUBSET Nat
      BY SchedulerAssumption
    <3>2. QED
      BY <2>1, <3>1, LeastNumber
  <2>3. i # 0
    BY <1>1, <1>5, <2>2, SchedulerAssumption
  <2>4. i \in Workers /\ i - 1 \in 0..WorkerCount
    BY <2>2, <2>3, SchedulerAssumption DEF Workers
  <2>5. total[c] + s[i - 1] <= CounterMax
    BY <1>1, <1>5, <2>2, <2>4, SchedulerAssumption
  <2>6. SumOverflows(a[i - 1], context[i][c])
    BY <1>7, <2>2, <2>4, <2>5
  <2>7. QED
    BY <2>4, <2>6
<1>10. QED
  BY <1>8, <1>9 DEF a

(* An event that a worker counts is shown, unless its counter is at its    *)
(* maximum; then so is the sum.                                            *)
LEMMA CountShows ==
    ASSUME TypeOK, TypeOK', NEW w \in Workers, NEW c \in Counters, total' = total,
           context' = [context EXCEPT ![w][c] = Increment(@)]
    PROVE  /\ \A b \in Counters : b # c => Shown(b)' = Shown(b)
           /\ context[w][c] # CounterMax => Shown(c)' = Shown(c) + 1
           /\ context[w][c] = CounterMax => Shown(c)' = Shown(c) /\ Shown(c) >= CounterMax
<1>1. ASSUME NEW b \in Counters, NEW v \in Workers, <<v, b>> # <<w, c>>
      PROVE  context'[v][b] = context[v][b]
  BY <1>1 DEF TypeOK
<1>2. context'[w][c] = Increment(context[w][c])
  BY DEF TypeOK
<1>3. ASSUME NEW b \in Counters, b # c PROVE Shown(b)' = Shown(b)
  <2>1. CountsOf(b)' = CountsOf(b)
    BY <1>1, <1>3 DEF CountsOf
  <2>2. QED
    BY <2>1 DEF Shown
<1>4. CASE context[w][c] = CounterMax
  <2>1. CountsOf(c)' = CountsOf(c)
    <3>1. \A v \in Workers : context'[v][c] = context[v][c]
      BY <1>1, <1>2, <1>4 DEF Increment
    <3>2. QED
      BY <3>1 DEF CountsOf
  <2>2. Shown(c)' = Shown(c)
    BY <2>1 DEF Shown
  <2>3. Shown(c) >= CounterMax
    <3> DEFINE f == CountsOf(c)
    <3>1. f \in [Workers -> Nat] /\ total[c] \in Nat
      BY CountsType
    <3>2. f[w] = CounterMax
      BY <1>4 DEF CountsOf
    <3> HIDE DEF f
    <3>3. w - 1 \in 0..WorkerCount /\ w \in 0..WorkerCount /\ WorkerCount \in 0..WorkerCount
           /\ w <= WorkerCount
      BY SchedulerAssumption DEF Workers
    <3>4. Sum(f)[w] = Sum(f)[w - 1] + f[w] /\ Sum(f)[w - 1] \in Nat
      BY <3>1, <3>3, SumFacts
    <3>5. Sum(f)[w] <= Sum(f)[WorkerCount] /\ Sum(f)[WorkerCount] \in Nat
      BY <3>1, <3>3, SumFacts, SumGrows
    <3>6. total[c] + Sum(f)[WorkerCount] >= CounterMax
      BY <3>1, <3>2, <3>4, <3>5, SchedulerAssumption
    <3>7. QED
      BY <3>6 DEF Shown, f
  <2>4. QED
    BY <1>3, <1>4, <2>2, <2>3
<1>5. CASE context[w][c] # CounterMax
  <2> DEFINE f == CountsOf(c)
             g == CountsOf(c)'
  <2>1. f \in [Workers -> Nat] /\ total[c] \in Nat
    BY CountsType
  <2>2. g \in [Workers -> Nat]
    <3>1. \A v \in Workers : context'[v][c] \in 0..CounterMax
      BY DEF TypeOK
    <3>2. QED
      BY <3>1, SchedulerAssumption DEF CountsOf
  <2>3. g[w] = f[w] + 1 /\ \A v \in Workers : v # w => g[v] = f[v]
    BY <1>1, <1>2, <1>5 DEF CountsOf, Increment
  <2> HIDE DEF f, g
  <2>4. WorkerCount \in 0..WorkerCount /\ ~ (WorkerCount < w)
    BY SchedulerAssumption DEF Workers
  <2>5. Sum(g)[WorkerCount] = Sum(f)[WorkerCount] + 1 /\ Sum(f)[WorkerCount] \in Nat
    BY <2>1, <2>2, <2>3, <2>4, SumRaised, SumFacts
  <2>6. total'[c] + Sum(g)[WorkerCount] = total[c] + Sum(f)[WorkerCount] + 1
    BY <2>1, <2>5
  <2>7. Shown(c)' = Shown(c) + 1
    BY <2>6 DEF Shown, f, g
  <2>8. QED
    BY <1>3, <1>5, <2>7
<1>6. QED
  BY <1>4, <1>5

-----------------------------------------------------------------------------
(* What has happened, whether or not the counters can show it: the tasks   *)
(* that have been handed to their callback, and the workers that have      *)
(* counted one on its way there.                                           *)
Ran == {k \in Tasks : executed[k] = 1}
InHand == {w \in Workers : pc[w] \in TaskInHandLabels}
Begun == {w \in Workers : pc[w] \in {"count_running", "execute"}}
Happened(c) ==
    IF c = "dequeued" THEN Cardinality(Ran) + Cardinality(InHand)
    ELSE IF c = "started" THEN Cardinality(Ran) + Cardinality(Begun)
    ELSE tally[c]

Failures == {"startup_failures", "runtime_failures", "join_failures"}

(* The steps that add to these. *)
CountingStep(w) ==
    \/ WorkerCountsDequeue(w) \/ (pc[w] = "count_started" /\ WorkerCountsStart(w))
    \/ WorkerExecutes(w) \/ CallbackReturns(w)
SameStand(w) ==
    /\ pc'[w] \in TaskInHandLabels <=> pc[w] \in TaskInHandLabels
    /\ pc'[w] \in {"count_running", "execute"} <=> pc[w] \in {"count_running", "execute"}
    /\ pc'[w] \in {"callback"} \cup SubmitLabels <=> pc[w] \in {"callback"} \cup SubmitLabels

(* In every other step each worker stays where it stands. *)
LEMMA StandStep ==
    ASSUME LifeInv, [Next]_vars
    PROVE  \/ \E w \in Workers : CountingStep(w)
           \/ \A w \in Workers : SameStand(w)
<1> USE ThreadKinds
<1>1. BaseInv /\ TypeOK /\ Arrays
  BY DEF LifeInv, BaseInv
<1>2. CASE UNCHANGED vars
  BY <1>2 DEF vars, SameStand
<1>3. CASE MainOnly
  BY <1>1, <1>3, MainOnlyFrame DEF SameStand
<1>4. CASE StartAborts \/ ShutdownQueue
  <2>1. \A u \in Threads : u # Main => pc'[u] = pc[u]
    BY <1>1, <1>4, GotoFacts DEF StartAborts, ShutdownQueue, BeginRelease
  <2>2. QED
    BY <2>1 DEF SameStand
<1>5. CASE StartCreates
  <2> DEFINE n == started_worker_count + 1
  <2>1. /\ n \in Workers /\ pc[Main] = "start_create"
        /\ \/ \A u \in Threads : u # Main => pc'[u] = pc[u]
           \/ /\ pc'[n] = "entry"
              /\ \A u \in Threads : u # Main /\ u # n => pc'[u] = pc[u]
    BY <1>1, <1>5, CreateFacts
  <2>2. pc[n] = "none"
    <3>1. allocated
      BY <2>1 DEF LifeInv, BaseInv, Handles
    <3>2. started_worker_count = created_worker_count /\ created_worker_count \in Nat
      BY <1>1, <3>1 DEF Arrays, TypeOK
    <3>3. n > created_worker_count
      BY <3>2
    <3>4. QED
      BY <1>1, <2>1, <3>3 DEF Arrays
  <2> HIDE DEF n
  <2>3. ASSUME NEW w \in Workers PROVE SameStand(w)
    <3>1. CASE w = n /\ pc'[n] = "entry"
      BY <2>2, <3>1 DEF SameStand, TaskInHandLabels, SubmitLabels
    <3>2. CASE pc'[w] = pc[w]
      BY <3>2 DEF SameStand
    <3>3. QED
      BY <2>1, <3>1, <3>2
  <2>4. QED
    BY <2>3
<1>6. ASSUME NEW t \in Workers \cup Submitters, OtherStep(t), ~ \E w \in Workers : CountingStep(w)
      PROVE  \A w \in Workers : SameStand(w)
  <2>1. \A u \in Threads : u # t /\ u # Main => pc'[u] = pc[u]
    BY <1>1, <1>6, OtherFrame
  <2>2. SUFFICES ASSUME t \in Workers PROVE SameStand(t)
    BY <2>1 DEF SameStand
  <2>3. ASSUME NEW label, Goto(t, label) PROVE pc'[t] = label
    BY <1>1, <2>3, GotoFacts
  <2>4. ASSUME NEW call \in {"submit", "try_submit"}, register_submitter(t, call)
        PROVE  SameStand(t)
    <3>1. pc[t] = "callback" /\ (pc' = pc \/ pc'[t] = call)
      BY <2>2, <2>3, <2>4 DEF register_submitter, Home
    <3>2. QED
      BY <3>1 DEF SameStand, TaskInHandLabels, SubmitLabels
  <2>5. CASE SubmitToQueue(t)
    <3>1. pc[t] \in SubmitLabels /\ pc'[t] \in SubmitLabels
      BY <2>3, <2>5 DEF SubmitToQueue, SubmitLabels
    <3>2. QED
      BY <3>1 DEF SameStand, TaskInHandLabels, SubmitLabels
  <2>6. CASE deregister_submitter(t)
    <3>1. pc[t] \in {"submitted", "try_submitted"} /\ pc'[t] = "callback"
      BY <1>1, <2>2, <2>6, DeregisterFacts DEF Home
    <3>2. QED
      BY <3>1 DEF SameStand, TaskInHandLabels, SubmitLabels
  <2>7. CASE QueueResumes(t) \/ QueueWaitEnds(t)
    BY <2>7 DEF QueueResumes, QueueWaitEnds, SameStand
  <2>8. CASE WorkerReady(t)
    <3>1. pc[t] = "entry" /\ pc'[t] = "dequeue"
      BY <1>1, <2>2, <2>8 DEF WorkerReady, TypeOK
    <3>2. QED
      BY <3>1 DEF SameStand, TaskInHandLabels, SubmitLabels
  <2>9. CASE pc[t] = "count_running" /\ WorkerCountsStart(t)
    <3>1. pc'[t] = "execute"
      BY <2>3, <2>9 DEF WorkerCountsStart
    <3>2. QED
      BY <2>9, <3>1 DEF SameStand, TaskInHandLabels, SubmitLabels
  <2>10. CASE WorkerDequeue(t) \/ WorkerCountsStop(t) \/ WorkerQueueFailure(t) \/ WorkerExits(t)
    <3>1. /\ pc[t] \in {"dequeue", "count_stopped", "dequeued", "abandon"}
          /\ pc'[t] \in {"dequeue", "dequeued", "abandon", "exited"}
      BY <2>3, <2>10 DEF WorkerDequeue, WorkerCountsStop, WorkerQueueFailure, WorkerExits,
                         record_worker_exit
    <3>2. QED
      BY <3>1 DEF SameStand, TaskInHandLabels, SubmitLabels
  <2>11. WorkerCountsStart(t) => pc[t] \in {"count_started", "count_running"}
    BY DEF WorkerCountsStart
  <2>12. QED
    BY <1>6, <2>2, <2>4, <2>5, <2>6, <2>7, <2>8, <2>9, <2>10, <2>11
       DEF OtherStep, scheduler_worker_entry, CountingStep
<1>7. QED
  BY <1>2, <1>3, <1>4, <1>5, <1>6, NextSplit

(* The callbacks begun so far change only when one begins. *)
LEMMA RanStep ==
    ASSUME TasksInv, [Next]_vars
    PROVE  \/ \E w \in Workers : WorkerExecutes(w)
           \/ Ran' = Ran
<1>1. UNCHANGED executed => Ran' = Ran
  BY DEF Ran
<1>2. UNCHANGED executed \/ \E w \in Workers : WorkerExecutes(w)
  BY HistoryFrame DEF history, StartCreates, JoinWorker, register_submitter,
        deregister_submitter, CallbackReturns, WorkerExits, record_worker_exit
<1>3. QED
  BY <1>1, <1>2

(* The sets that are counted are finite. *)
LEMMA CountedFinite ==
    /\ IsFiniteSet(Ran) /\ Cardinality(Ran) \in Nat
    /\ IsFiniteSet(InHand) /\ Cardinality(InHand) \in Nat
    /\ IsFiniteSet(Begun) /\ Cardinality(Begun) \in Nat
    /\ IsFiniteSet(InCallback) /\ Cardinality(InCallback) \in Nat
<1>1. Ran \in SUBSET Tasks
  BY DEF Ran
<1>2. InHand \in SUBSET Workers /\ Begun \in SUBSET Workers /\ InCallback \in SUBSET Workers
  BY DEF InHand, Begun, InCallback
<1>3. QED
  BY <1>1, <1>2, TasksFinite, WorkersFinite

(* A worker that moves from one label to another. *)
LEMMA StandMove ==
    ASSUME TypeOK, NEW w \in Workers, NEW label, Goto(w, label)
    PROVE  /\ InHand' = IF label \in TaskInHandLabels THEN InHand \cup {w} ELSE InHand \ {w}
           /\ Begun' = IF label \in {"count_running", "execute"} THEN Begun \cup {w}
                       ELSE Begun \ {w}
           /\ InCallback' = IF label \in {"callback"} \cup SubmitLabels THEN InCallback \cup {w}
                            ELSE InCallback \ {w}
<1>1. pc'[w] = label /\ \A v \in Workers : v # w => pc'[v] = pc[v]
  BY GotoFacts, ThreadKinds
<1>2. InHand' = IF label \in TaskInHandLabels THEN InHand \cup {w} ELSE InHand \ {w}
  BY <1>1 DEF InHand
<1>3. Begun' = IF label \in {"count_running", "execute"} THEN Begun \cup {w} ELSE Begun \ {w}
  BY <1>1 DEF Begun
<1>4. InCallback' = IF label \in {"callback"} \cup SubmitLabels THEN InCallback \cup {w}
                    ELSE InCallback \ {w}
  BY <1>1 DEF InCallback
<1>5. QED
  BY <1>2, <1>3, <1>4

(* Which step counts which event. *)
LEMMA TallyFrame ==
    ASSUME TypeOK, [Next]_vars
    PROVE  /\ \A c \in {"succeeded", "failed"} :
                  tally'[c] = tally[c] \/ \E w \in Workers : CallbackReturns(w)
           /\ tally'["startup_failures"] = tally["startup_failures"] \/ StartCreates
           /\ \/ tally'["runtime_failures"] = tally["runtime_failures"]
              \/ \E w \in Workers : WorkerExits(w)
           /\ tally'["join_failures"] = tally["join_failures"] \/ JoinWorker
<1> USE DEF Tallied
<1>1. tally \in [Tallied -> Nat]
  BY DEF TypeOK
<1>2. CASE UNCHANGED tally
  BY <1>2
<1>3. CASE StartCreates
  <2>1. UNCHANGED tally \/ Tally("startup_failures")
    BY <1>3 DEF StartCreates
  <2>2. QED
    BY <1>1, <1>2, <1>3, <2>1 DEF Tally
<1>4. CASE JoinWorker
  <2>1. UNCHANGED tally \/ Tally("join_failures")
    BY <1>4 DEF JoinWorker, NoJoinFailure, CountJoinFailure
  <2>2. QED
    BY <1>1, <1>2, <1>4, <2>1 DEF Tally
<1>5. ASSUME NEW t \in Workers \cup Submitters, NEW call \in {"submit", "try_submit"},
             register_submitter(t, call)
      PROVE  \A c \in Tallied : c # "submitted" => tally'[c] = tally[c]
  BY <1>1, <1>5 DEF register_submitter, Tally
<1>6. ASSUME NEW w \in Workers, CallbackReturns(w)
      PROVE  \A c \in Failures : tally'[c] = tally[c]
  <2>1. PICK c \in {"succeeded", "failed"} : Tally(c)
    BY <1>6 DEF CallbackReturns
  <2>2. QED
    BY <1>1, <2>1 DEF Tally, Failures
<1>7. ASSUME NEW w \in Workers, WorkerExits(w)
      PROVE  \A c \in Tallied : c # "runtime_failures" => tally'[c] = tally[c]
  <2>1. PICK n \in 0..2 : tally' = [tally EXCEPT !["runtime_failures"] = @ + n]
    BY <1>7, ExitFacts DEF TypeOK
  <2>2. QED
    BY <1>1, <2>1
<1>8. UNCHANGED tally \/ StartCreates \/ JoinWorker
       \/ (\E t \in Workers \cup Submitters :
              \E call \in {"submit", "try_submit"} : register_submitter(t, call))
       \/ \E w \in Workers : CallbackReturns(w) \/ WorkerExits(w)
  BY HistoryFrame DEF history, deregister_submitter, WorkerExecutes
<1>9. QED
  BY <1>2, <1>3, <1>4, <1>5, <1>6, <1>7, <1>8 DEF Failures

(* The events that the counters count. *)
Event(w, c) ==
    /\ Count(w, c) /\ UNCHANGED workerVars
    /\ Happened(c)' = Happened(c) + 1
    /\ \A b \in Aggregated : b # c => Happened(b)' = Happened(b)
    /\ \A b \in Failures : tally'[b] = tally[b]

(* Callbacks that have returned, and those that run. *)
Returned == Cardinality(Ran) = tally["succeeded"] + tally["failed"] + Cardinality(InCallback)

(* The counts of running callbacks, which are not added up. *)
RunningMoves(w) == (pc[w] = "count_running" /\ WorkerCountsStart(w)) \/ WorkerCountsStop(w)
NoEvent ==
    /\ \A c \in Aggregated : Happened(c)' = Happened(c)
    /\ UNCHANGED contextVars \/ FinishRelease \/ \E w \in Workers : RunningMoves(w)

(* Every step counts one event, or none happens. *)
LEMMA EventStep ==
    ASSUME TasksInv, [Next]_vars
    PROVE  /\ \/ \E w \in Workers, c \in Aggregated : Event(w, c) /\ context[w][c] \in 0..CounterMax
              \/ NoEvent
           /\ Returned => Returned'
           /\ Ran \subseteq Ran'
           /\ \A c \in Aggregated : Happened(c) \in Nat /\ Happened(c)' \in Nat
                                    /\ Happened(c) <= Happened(c)'
<1> USE ThreadKinds
<1>1. LifeInv /\ BaseInv /\ TypeOK /\ TypeOK' /\ Place /\ QueueUse
  BY TypeStep DEF TasksInv, LifeInv, BaseInv
<1>2. /\ tally["succeeded"] \in Nat /\ tally["failed"] \in Nat
      /\ tally'["succeeded"] \in Nat /\ tally'["failed"] \in Nat
  BY <1>1 DEF TypeOK, Tallied
<1>3. Aggregated = {"dequeued", "started", "succeeded", "failed"}
  BY DEF Aggregated, Counters
<1>4. \A w \in Workers, c \in Aggregated : context[w][c] \in 0..CounterMax
  BY <1>1 DEF TypeOK, Aggregated
<1>5. /\ IsFiniteSet(Ran) /\ Cardinality(Ran) \in Nat
      /\ IsFiniteSet(InHand) /\ Cardinality(InHand) \in Nat
      /\ IsFiniteSet(Begun) /\ Cardinality(Begun) \in Nat
      /\ IsFiniteSet(InCallback) /\ Cardinality(InCallback) \in Nat
  BY CountedFinite
<1>6. \A c \in Aggregated : Happened(c) \in Nat
  BY <1>2, <1>3, <1>5 DEF Happened
<1> DEFINE Goal == /\ \/ \E w \in Workers, c \in Aggregated : Event(w, c)
                      \/ NoEvent
                   /\ Returned => Returned'
                   /\ Ran \subseteq Ran'
<1>7. SUFFICES Goal
  <2>1. ASSUME Goal, NEW c \in Aggregated
        PROVE  Happened(c)' \in Nat /\ Happened(c) <= Happened(c)'
    <3>1. Happened(c)' = Happened(c) \/ Happened(c)' = Happened(c) + 1
      BY <2>1 DEF Event, NoEvent
    <3>2. QED
      BY <1>6, <3>1
  <2> HIDE DEF Goal
  <2>2. Goal => /\ \/ \E w \in Workers, c \in Aggregated : Event(w, c)
                   \/ NoEvent
                /\ Returned => Returned'
                /\ Ran \subseteq Ran'
    BY DEF Goal
  <2>3. QED
    BY <1>4, <1>6, <2>1, <2>2
<1> USE DEF SubmitLabels, TaskInHandLabels
<1>8. ASSUME NEW w \in Workers, WorkerCountsDequeue(w) PROVE Goal
  <2>1. pc[w] = "dequeued" /\ Goto(w, "count_started") /\ Count(w, "dequeued")
    BY <1>8 DEF WorkerCountsDequeue
  <2>2. /\ UNCHANGED workerVars /\ UNCHANGED tally /\ UNCHANGED executed
    BY <1>8 DEF WorkerCountsDequeue, history
  <2>3. /\ InHand' = InHand \cup {w} /\ Begun' = Begun \ {w} /\ InCallback' = InCallback \ {w}
    BY <1>1, <2>1, StandMove
  <2>4. w \notin InHand /\ w \notin Begun /\ w \notin InCallback
    BY <2>1 DEF InHand, Begun, InCallback
  <2>5. Ran' = Ran /\ Begun' = Begun /\ InCallback' = InCallback
    BY <2>2, <2>3, <2>4 DEF Ran
  <2>6. Cardinality(InHand') = Cardinality(InHand) + 1
    BY <1>5, <2>3, <2>4, FS_AddElement
  <2>7. Happened("dequeued")' = Happened("dequeued") + 1
    BY <1>5, <2>5, <2>6 DEF Happened
  <2>8. \A b \in Aggregated : b # "dequeued" => Happened(b)' = Happened(b)
    BY <1>3, <2>2, <2>5 DEF Happened
  <2>9. Event(w, "dequeued")
    BY <2>1, <2>2, <2>7, <2>8 DEF Event
  <2>10. Returned => Returned'
    BY <2>2, <2>5 DEF Returned
  <2>11. QED
    BY <1>3, <2>5, <2>9, <2>10
<1>9. ASSUME NEW w \in Workers, pc[w] = "count_started", WorkerCountsStart(w) PROVE Goal
  <2>1. Goto(w, "count_running") /\ Count(w, "started")
    BY <1>9 DEF WorkerCountsStart
  <2>2. /\ UNCHANGED workerVars /\ UNCHANGED tally /\ UNCHANGED executed
    BY <1>9 DEF WorkerCountsStart, history
  <2>3. /\ InHand' = InHand \cup {w} /\ Begun' = Begun \cup {w} /\ InCallback' = InCallback \ {w}
    BY <1>1, <2>1, StandMove
  <2>4. w \in InHand /\ w \notin Begun /\ w \notin InCallback
    BY <1>9 DEF InHand, Begun, InCallback
  <2>5. Ran' = Ran /\ InHand' = InHand /\ InCallback' = InCallback
    BY <2>2, <2>3, <2>4 DEF Ran
  <2>6. Cardinality(Begun') = Cardinality(Begun) + 1
    BY <1>5, <2>3, <2>4, FS_AddElement
  <2>7. Happened("started")' = Happened("started") + 1
    BY <1>5, <2>5, <2>6 DEF Happened
  <2>8. \A b \in Aggregated : b # "started" => Happened(b)' = Happened(b)
    BY <1>3, <2>2, <2>5 DEF Happened
  <2>9. Event(w, "started")
    BY <2>1, <2>2, <2>7, <2>8 DEF Event
  <2>10. Returned => Returned'
    BY <2>2, <2>5 DEF Returned
  <2>11. QED
    BY <1>3, <2>5, <2>9, <2>10
<1>10. ASSUME NEW w \in Workers, WorkerExecutes(w) PROVE Goal
  <2> DEFINE k == task[w]
  <2>1. /\ pc[w] = "execute" /\ Goto(w, "callback")
        /\ executed' = [executed EXCEPT ![k] = @ + 1]
    BY <1>10 DEF WorkerExecutes
  <2>2. UNCHANGED tally
    BY <1>10 DEF WorkerExecutes
  <2>3. /\ InHand' = InHand \ {w} /\ Begun' = Begun \ {w} /\ InCallback' = InCallback \cup {w}
    BY <1>1, <2>1, StandMove
  <2>4. w \in InHand /\ w \in Begun /\ w \notin InCallback
    BY <2>1 DEF InHand, Begun, InCallback
  <2>5. k \in Tasks /\ executed[k] = 0
    <3>1. k \in Tasks
      BY <1>1, <2>1 DEF QueueUse
    <3>2. Holds(w, k)
      BY <2>1 DEF Holds
    <3>3. Held(k)
      BY <3>2 DEF Held
    <3>4. QED
      BY <1>1, <3>1, <3>3 DEF Place
  <2>6. Ran' = Ran \cup {k} /\ k \notin Ran
    <3>1. executed \in [Tasks -> Nat]
      BY <1>1 DEF TypeOK
    <3>2. executed'[k] = 1 /\ \A j \in Tasks : j # k => executed'[j] = executed[j]
      BY <2>1, <2>5, <3>1
    <3> HIDE DEF k
    <3>3. ASSUME NEW j \in Tasks PROVE executed'[j] = 1 <=> executed[j] = 1 \/ j = k
      BY <3>2, <3>3
    <3>4. Ran' = Ran \cup {k}
      BY <2>5, <3>3 DEF Ran
    <3>5. k \notin Ran
      BY <2>5 DEF Ran
    <3>6. QED
      BY <3>4, <3>5
  <2>7. /\ Cardinality(Ran') = Cardinality(Ran) + 1
        /\ Cardinality(InCallback') = Cardinality(InCallback) + 1
    BY <1>5, <2>3, <2>4, <2>6, FS_AddElement
  <2>8. /\ Cardinality(InHand') = Cardinality(InHand) - 1
        /\ Cardinality(Begun') = Cardinality(Begun) - 1
    BY <1>5, <2>3, <2>4, FS_RemoveElement
  <2>9. \A c \in Aggregated : Happened(c)' = Happened(c)
    BY <1>3, <1>5, <2>2, <2>7, <2>8 DEF Happened
  <2>10. Returned => Returned'
    BY <1>2, <1>5, <2>2, <2>7 DEF Returned
  <2>11. NoEvent
    BY <1>10, <2>9 DEF NoEvent, WorkerExecutes
  <2>12. QED
    BY <2>6, <2>10, <2>11
<1>11. ASSUME NEW w \in Workers, CallbackReturns(w) PROVE Goal
  <2>1. PICK c \in {"succeeded", "failed"} : Count(w, c) /\ Tally(c)
    BY <1>11 DEF CallbackReturns
  <2>2. /\ pc[w] = "callback" /\ Goto(w, "count_stopped")
        /\ UNCHANGED workerVars /\ UNCHANGED executed
    BY <1>11 DEF CallbackReturns
  <2>3. /\ tally'[c] = tally[c] + 1
        /\ \A b \in Tallied : b # c => tally'[b] = tally[b]
    BY <1>1, <2>1 DEF Tally, TypeOK, Tallied
  <2>4. /\ InHand' = InHand \ {w} /\ Begun' = Begun \ {w} /\ InCallback' = InCallback \ {w}
    BY <1>1, <2>2, StandMove
  <2>5. w \notin InHand /\ w \notin Begun /\ w \in InCallback
    BY <2>2 DEF InHand, Begun, InCallback
  <2>6. Ran' = Ran /\ InHand' = InHand /\ Begun' = Begun
    BY <2>2, <2>4, <2>5 DEF Ran
  <2>7. Cardinality(InCallback') = Cardinality(InCallback) - 1
    BY <1>5, <2>4, <2>5, FS_RemoveElement
  <2>8. Happened(c)' = Happened(c) + 1
    BY <2>3 DEF Happened
  <2>9. \A b \in Aggregated : b # c => Happened(b)' = Happened(b)
    BY <1>3, <2>3, <2>6 DEF Happened, Tallied
  <2>10. \A b \in Failures : tally'[b] = tally[b]
    BY <2>3 DEF Failures, Tallied
  <2>11. Event(w, c)
    BY <2>1, <2>2, <2>8, <2>9, <2>10 DEF Event
  <2>12. tally'["succeeded"] + tally'["failed"] = tally["succeeded"] + tally["failed"] + 1
    BY <1>2, <2>3 DEF Tallied
  <2>13. Returned => Returned'
    BY <1>2, <1>5, <2>6, <2>7, <2>12 DEF Returned
  <2>14. QED
    BY <1>3, <2>6, <2>11, <2>13
<1>12. CASE ~ \E w \in Workers : CountingStep(w)
  <2>1. \A w \in Workers : SameStand(w)
    BY <1>1, <1>12, StandStep
  <2>2. InHand' = InHand /\ Begun' = Begun /\ InCallback' = InCallback
    BY <2>1 DEF SameStand, InHand, Begun, InCallback
  <2>3. Ran' = Ran
    BY <1>12, RanStep DEF CountingStep
  <2>4. tally'["succeeded"] = tally["succeeded"] /\ tally'["failed"] = tally["failed"]
    BY <1>1, <1>12, TallyFrame DEF CountingStep
  <2>5. \A c \in Aggregated : Happened(c)' = Happened(c)
    BY <1>3, <2>2, <2>3, <2>4 DEF Happened
  <2>6. Returned => Returned'
    BY <2>2, <2>3, <2>4 DEF Returned
  <2>7. UNCHANGED contextVars \/ FinishRelease \/ \E w \in Workers : RunningMoves(w)
    <3>1. \A w \in Workers : WorkerCountsStart(w) => pc[w] \in {"count_started", "count_running"}
      BY DEF WorkerCountsStart
    <3>2. QED
      BY <1>12, <3>1, ContextFrame DEF CountingStep, RunningMoves
  <2>8. QED
    BY <2>3, <2>5, <2>6, <2>7 DEF NoEvent
<1>13. QED
  BY <1>8, <1>9, <1>10, <1>11, <1>12 DEF CountingStep

-----------------------------------------------------------------------------
(* A worker that has counted something exists, and its counts are in the   *)
(* arrays: freed arrays have none.                                         *)
Cleared ==
    /\ \A w \in Workers : ~allocated \/ pc[w] = "none" =>
           /\ \A c \in Counters : context[w][c] = 0
           /\ ~accounting_overflow[w]
    /\ total["running"] = 0

(* Arrays are freed at the end of release_workers only, and a worker once  *)
(* created is never forgotten.                                             *)
LEMMA ArraysStep ==
    ASSUME LifeInv, [Next]_vars
    PROVE  /\ allocated /\ ~allocated' => FinishRelease /\ all_joined
           /\ created_worker_count <= created_worker_count'
           /\ \A w \in Workers : pc'[w] = "none" => pc[w] = "none"
           /\ UNCHANGED total \/ FinishRelease
<1>1. LifeInv' /\ TypeOK /\ TypeOK' /\ Arrays /\ Arrays'
  <2>1. LifeInv'
    BY StepLife
  <2>2. QED
    BY <2>1 DEF LifeInv, BaseInv
<1>2. created_worker_count \in Nat /\ created_worker_count' \in Nat
  BY <1>1 DEF TypeOK
<1>3. created_worker_count <= created_worker_count'
  <2>1. UNCHANGED created_worker_count \/ CountCreated
    BY WorkerFrame DEF workerVars, scheduler_destroy, Refused, StartAllocates, StartCreates,
          JoinWorker, FinishRelease, WorkerReady, WorkerExits, record_worker_exit
  <2>2. QED
    BY <1>2, <2>1 DEF CountCreated
<1>4. ASSUME NEW w \in Workers, pc'[w] = "none" PROVE pc[w] = "none"
  <2>1. w > created_worker_count' /\ w \in Nat
    BY <1>1, <1>4, ThreadKinds DEF Arrays
  <2>2. w > created_worker_count
    BY <1>2, <1>3, <2>1
  <2>3. QED
    BY <1>1, <2>2 DEF Arrays
<1>5. ASSUME allocated, ~allocated' PROVE FinishRelease /\ all_joined
  BY <1>5, WorkerFrame DEF workerVars, scheduler_destroy, Refused, StartAllocates, StartCreates,
        JoinWorker, FinishRelease, WorkerReady, WorkerExits, record_worker_exit
<1>6. UNCHANGED total \/ FinishRelease
  BY WorkerFrame DEF workerVars, scheduler_destroy, Refused, StartAllocates, StartCreates,
        JoinWorker, WorkerReady, WorkerExits, record_worker_exit
<1>7. QED
  BY <1>3, <1>4, <1>5, <1>6

(* A worker that is running has its counters in allocated arrays. *)
LEMMA RunningAllocated ==
    ASSUME LifeInv, NEW w \in Workers, pc[w] \notin {"none", "exited"}
    PROVE  allocated
<1>1. w <= started_worker_count /\ w \in Nat \ {0}
  BY ThreadKinds DEF LifeInv, BaseInv, Handles
<1>2. started_worker_count # 0
  BY <1>1
<1>3. QED
  BY <1>2 DEF LifeInv, BaseInv, Handles

(* Who counts is running. *)
LEMMA ContextStep ==
    ASSUME LifeInv, [Next]_vars
    PROVE  \/ UNCHANGED contextVars
           \/ FinishRelease
           \/ \E w \in Workers :
                 /\ pc[w] \notin {"none", "exited"}
                 /\ \A v \in Workers : v # w => /\ context'[v] = context[v]
                                                /\ accounting_overflow'[v] = accounting_overflow[v]
<1>1. TypeOK
  BY DEF LifeInv, BaseInv
<1>2. ASSUME NEW w \in Workers, NEW c, Count(w, c)
      PROVE  \A v \in Workers : v # w => /\ context'[v] = context[v]
                                         /\ accounting_overflow'[v] = accounting_overflow[v]
  BY <1>1, <1>2 DEF Count, TypeOK
<1>3. ASSUME NEW w \in Workers, WorkerCountsStop(w)
      PROVE  \A v \in Workers : v # w => /\ context'[v] = context[v]
                                         /\ accounting_overflow'[v] = accounting_overflow[v]
  BY <1>1, <1>3 DEF WorkerCountsStop, TypeOK
<1>4. ASSUME NEW w \in Workers,
             WorkerCountsDequeue(w) \/ WorkerCountsStart(w) \/ CallbackReturns(w)
      PROVE  (\E c : Count(w, c)) /\ pc[w] \notin {"none", "exited"}
  BY <1>4 DEF WorkerCountsDequeue, WorkerCountsStart, CallbackReturns
<1>5. \A w \in Workers : WorkerCountsStop(w) => pc[w] \notin {"none", "exited"}
  BY DEF WorkerCountsStop
<1>6. QED
  BY <1>2, <1>3, <1>4, <1>5, ContextFrame

(* Counters are cleared when the arrays are freed. *)
LEMMA ClearedKept ==
    ASSUME LifeInv, Cleared, [Next]_vars
    PROVE  Cleared'
<1>1. TypeOK /\ TypeOK'
  BY TypeStep DEF LifeInv, BaseInv
<1>2. total'["running"] = 0
  <2>1. CASE FinishRelease
    <3>1. "running" \in Counters /\ "running" \notin Aggregated
      BY DEF Counters, Aggregated
    <3>2. total' = total \/ total' = [c \in Counters |->
                IF c \in Aggregated THEN Aggregate(c)[WorkerCount] ELSE total[c]]
      BY <2>1 DEF FinishRelease
    <3>3. QED
      BY <3>1, <3>2 DEF Cleared
  <2>2. QED
    BY <2>1, ArraysStep DEF Cleared
<1>3. SUFFICES ASSUME NEW w \in Workers, ~allocated' \/ pc'[w] = "none"
               PROVE  (\A c \in Counters : context'[w][c] = 0) /\ ~accounting_overflow'[w]
  BY <1>2 DEF Cleared
<1>4. ASSUME context' = [v \in Workers |-> ZeroCounters],
             accounting_overflow' = [v \in Workers |-> FALSE]
      PROVE  (\A c \in Counters : context'[w][c] = 0) /\ ~accounting_overflow'[w]
  BY <1>4 DEF ZeroCounters
<1>5. CASE FinishRelease /\ all_joined
  BY <1>4, <1>5 DEF FinishRelease
<1>6. CASE ~(FinishRelease /\ all_joined)
  <2>1. ~allocated \/ pc[w] = "none"
    BY <1>3, <1>6, ArraysStep
  <2>2. (\A c \in Counters : context[w][c] = 0) /\ ~accounting_overflow[w]
    BY <2>1 DEF Cleared
  <2>3. context'[w] = context[w] /\ accounting_overflow'[w] = accounting_overflow[w]
    <3>1. CASE UNCHANGED contextVars
      BY <3>1 DEF contextVars
    <3>2. CASE FinishRelease
      BY <1>6, <3>2 DEF FinishRelease, contextVars
    <3>3. CASE \E u \in Workers :
                 /\ pc[u] \notin {"none", "exited"}
                 /\ \A v \in Workers : v # u => /\ context'[v] = context[v]
                                                /\ accounting_overflow'[v] = accounting_overflow[v]
      <4>1. PICK u \in Workers :
                 /\ pc[u] \notin {"none", "exited"}
                 /\ \A v \in Workers : v # u => /\ context'[v] = context[v]
                                                /\ accounting_overflow'[v] = accounting_overflow[v]
        BY <3>3
      <4>2. allocated
        BY <4>1, RunningAllocated
      <4>3. w # u
        BY <2>1, <4>1, <4>2
      <4>4. QED
        BY <4>1, <4>3
    <3>4. QED
      BY <3>1, <3>2, <3>3, ContextStep
  <2>4. QED
    BY <2>2, <2>3
<1>7. QED
  BY <1>5, <1>6

-----------------------------------------------------------------------------
(* The counters of failures. *)
FailureCount(c) ==
    IF c = "startup_failures" THEN worker_startup_failure_count
    ELSE IF c = "runtime_failures" THEN worker_runtime_failure_count
    ELSE join_failure_count
Fails(c) ==
    /\ tally'[c] = tally[c] + 1 /\ FailureCount(c)' = Increment(FailureCount(c))
    /\ \A b \in Failures : b # c => tally'[b] = tally[b] /\ FailureCount(b)' = FailureCount(b)
    /\ worker_accounting_overflow' = (worker_accounting_overflow \/ Overflows(FailureCount(c)))
    /\ UNCHANGED <<contextVars, total>>
NothingFails ==
    /\ \A b \in Failures : tally'[b] = tally[b] /\ FailureCount(b)' = FailureCount(b)
    /\ UNCHANGED worker_accounting_overflow \/ FinishRelease

(* A saturating addition of one event or of none. *)
LEMMA AddOne ==
    ASSUME NEW n \in 0..CounterMax
    PROVE  /\ add_saturating(n, 0) = n /\ ~SumOverflows(n, 0)
           /\ add_saturating(n, 1) = Increment(n)
           /\ SumOverflows(n, 1) <=> Overflows(n)
BY SchedulerAssumption DEF add_saturating, SumOverflows, Increment, Overflows

(* A worker that exits was counted as active, so it fails once or not at all. *)
LEMMA ExitCounted ==
    ASSUME LifeInv, NEW w \in Workers, WorkerExits(w)
    PROVE  /\ active_worker_count # 0
           /\ \E code \in {"OK", "QUEUE"} :
                 /\ record_worker_exit(w, code) /\ exit' = [exit EXCEPT ![w] = code]
                 /\ code = "OK" => pc[w] = "dequeued" /\ qpc[w] = "idle" /\ qret[w][1] = "SHUTDOWN"
                 /\ code = "QUEUE" => pc[w] = "abandon"
<1>1. pc[w] \in {"dequeued", "abandon"}
  BY DEF WorkerExits
<1>2. w \in Active
  BY <1>1 DEF Active
<1>3. IsFiniteSet(Active) /\ Active # {}
  BY <1>2, WorkersFinite DEF Active
<1>4. active_worker_count # 0
  BY <1>3, FS_EmptySet DEF LifeInv, Counts
<1>5. PICK code \in {"OK", "QUEUE"} :
        /\ record_worker_exit(w, code)
        /\ code = "OK" => pc[w] = "dequeued" /\ qpc[w] = "idle" /\ qret[w][1] = "SHUTDOWN"
        /\ code = "QUEUE" => pc[w] = "abandon"
  BY DEF WorkerExits
<1>6. exit' = [exit EXCEPT ![w] = code]
  BY <1>4, <1>5 DEF record_worker_exit
<1>7. QED
  BY <1>4, <1>5, <1>6

(* What one step does to the counters of failures. *)
LEMMA FailureStep ==
    ASSUME LifeInv, [Next]_vars
    PROVE  NothingFails \/ \E c \in Failures : Fails(c)
<1>1. TypeOK
  BY DEF LifeInv, BaseInv
<1>2. tally \in [Tallied -> Nat] /\ Failures \subseteq Tallied
  BY <1>1 DEF TypeOK, Failures, Tallied
<1>3. /\ worker_startup_failure_count \in 0..CounterMax
      /\ worker_runtime_failure_count \in 0..CounterMax
      /\ join_failure_count \in 0..CounterMax
  BY <1>1, TypeParts DEF WorkerTypes
<1>4. ASSUME UNCHANGED <<worker_startup_failure_count, worker_runtime_failure_count,
                         join_failure_count, tally>>,
             UNCHANGED worker_accounting_overflow \/ FinishRelease
      PROVE  NothingFails
  BY <1>4 DEF NothingFails, FailureCount
<1>5. ASSUME NEW w \in Workers, WorkerExits(w)
      PROVE  NothingFails \/ Fails("runtime_failures")
  <2>1. PICK code \in {"OK", "QUEUE"} : record_worker_exit(w, code)
    BY <1>5, ExitCounted
  <2> DEFINE n == IF code = "OK" THEN 0 ELSE 1
  <2>2. /\ worker_runtime_failure_count' = add_saturating(worker_runtime_failure_count, n)
        /\ worker_accounting_overflow' =
             (worker_accounting_overflow \/ SumOverflows(worker_runtime_failure_count, n))
        /\ tally' = [tally EXCEPT !["runtime_failures"] = @ + n]
    <3>1. active_worker_count # 0
      BY <1>5, ExitCounted
    <3>2. (IF active_worker_count = 0 THEN 1 ELSE 0)
              + (IF (IF active_worker_count = 0 THEN "SYNCHRONIZATION" ELSE code) = "OK"
                 THEN 0 ELSE 1) = n
      BY <3>1
    <3> HIDE DEF n
    <3>3. QED
      BY <2>1, <3>2, Zenon DEF record_worker_exit
  <2>3. UNCHANGED <<worker_startup_failure_count, join_failure_count, contextVars, total>>
    BY <2>1 DEF record_worker_exit
  <2>4. CASE code = "OK"
    <3>1. n = 0
      BY <2>4
    <3> HIDE DEF n
    <3>2. worker_runtime_failure_count' = worker_runtime_failure_count
      BY <1>3, <2>2, <3>1, AddOne
    <3>3. worker_accounting_overflow' = worker_accounting_overflow
      <4>1. ~SumOverflows(worker_runtime_failure_count, n)
        BY <1>3, <3>1, AddOne
      <4>2. worker_accounting_overflow \in BOOLEAN
        BY <1>1 DEF TypeOK
      <4>3. QED
        BY <2>2, <4>1, <4>2
    <3>4. \A b \in Failures : tally'[b] = tally[b]
      BY <1>2, <2>2, <3>1
    <3>5. QED
      BY <2>3, <3>2, <3>3, <3>4 DEF NothingFails, FailureCount
  <2>5. CASE code # "OK"
    <3>1. n = 1
      BY <2>5
    <3> HIDE DEF n
    <3>2. worker_runtime_failure_count' = Increment(worker_runtime_failure_count)
      BY <1>3, <2>2, <3>1, AddOne
    <3>3. worker_accounting_overflow' =
             (worker_accounting_overflow \/ Overflows(worker_runtime_failure_count))
      <4>1. SumOverflows(worker_runtime_failure_count, n) <=> Overflows(worker_runtime_failure_count)
        BY <1>3, <3>1, AddOne
      <4>2. QED
        BY <2>2, <4>1
    <3>4. /\ tally'["runtime_failures"] = tally["runtime_failures"] + 1
          /\ \A b \in Failures : b # "runtime_failures" => tally'[b] = tally[b]
      BY <1>2, <2>2, <3>1 DEF Failures
    <3>5. FailureCount("runtime_failures") = worker_runtime_failure_count
      BY DEF FailureCount
    <3>6. FailureCount("runtime_failures")' = worker_runtime_failure_count'
      BY DEF FailureCount
    <3>7. \A b \in Failures : b # "runtime_failures" => FailureCount(b)' = FailureCount(b)
      BY <2>3 DEF FailureCount
    <3>8. QED
      BY <2>3, <3>2, <3>3, <3>4, <3>5, <3>6, <3>7 DEF Fails
  <2>6. QED
    BY <2>4, <2>5
<1>6. CASE StartCreates
  <2>1. UNCHANGED <<worker_runtime_failure_count, join_failure_count, contextVars, total>>
    BY <1>6 DEF StartCreates
  <2>2. CASE UNCHANGED <<worker_startup_failure_count, worker_accounting_overflow, tally>>
    BY <1>4, <2>1, <2>2
  <2>3. CASE /\ worker_startup_failure_count' = Increment(worker_startup_failure_count)
             /\ worker_accounting_overflow' =
                    (worker_accounting_overflow \/ Overflows(worker_startup_failure_count))
             /\ Tally("startup_failures")
    <3>1. /\ tally'["startup_failures"] = tally["startup_failures"] + 1
          /\ \A b \in Failures : b # "startup_failures" => tally'[b] = tally[b]
      BY <1>2, <2>3 DEF Tally, Failures
    <3>2. FailureCount("startup_failures") = worker_startup_failure_count
      BY DEF FailureCount
    <3>3. FailureCount("startup_failures")' = worker_startup_failure_count'
      BY DEF FailureCount
    <3>4. \A b \in Failures : b # "startup_failures" => FailureCount(b)' = FailureCount(b)
      BY <2>1 DEF FailureCount
    <3>5. Fails("startup_failures")
      BY <2>1, <2>3, <3>1, <3>2, <3>3, <3>4 DEF Fails
    <3>6. QED
      BY <3>5 DEF Failures
  <2>4. QED
    BY <1>6, <2>2, <2>3 DEF StartCreates
<1>7. CASE JoinWorker
  <2>1. UNCHANGED <<worker_runtime_failure_count, worker_startup_failure_count, contextVars, total>>
    BY <1>7 DEF JoinWorker
  <2>2. CASE NoJoinFailure
    BY <1>4, <2>1, <2>2 DEF NoJoinFailure
  <2>3. CASE CountJoinFailure
    <3>1. /\ tally'["join_failures"] = tally["join_failures"] + 1
          /\ \A b \in Failures : b # "join_failures" => tally'[b] = tally[b]
      BY <1>2, <2>3 DEF CountJoinFailure, Tally, Failures
    <3>2. FailureCount("join_failures") = join_failure_count
      BY DEF FailureCount
    <3>3. FailureCount("join_failures")' = join_failure_count'
      BY DEF FailureCount
    <3>4. \A b \in Failures : b # "join_failures" => FailureCount(b)' = FailureCount(b)
      BY <2>1 DEF FailureCount, Failures
    <3>5. Fails("join_failures")
      BY <2>1, <2>3, <3>1, <3>2, <3>3, <3>4 DEF Fails, CountJoinFailure
    <3>6. QED
      BY <3>5 DEF Failures
  <2>4. QED
    BY <1>7, <2>2, <2>3 DEF JoinWorker
<1>8. CASE ~StartCreates /\ ~JoinWorker /\ ~ \E w \in Workers : WorkerExits(w)
  <2>1. \A b \in Failures : tally'[b] = tally[b]
    BY <1>1, <1>8, TallyFrame DEF Failures
  <2>2. /\ UNCHANGED <<worker_startup_failure_count, worker_runtime_failure_count, join_failure_count>>
        /\ UNCHANGED worker_accounting_overflow \/ FinishRelease
    BY <1>8, WorkerFrame DEF workerVars, failureVars, scheduler_destroy, Refused, StartAllocates,
          FinishRelease, WorkerReady
  <2>3. QED
    BY <2>1, <2>2 DEF NothingFails, FailureCount
<1>9. QED
  BY <1>5, <1>6, <1>7, <1>8 DEF Failures

-----------------------------------------------------------------------------
(* The counters show what happened until one of them saturates, and the    *)
(* flags tell exactly when one did.                                        *)
CountersExact == \A c \in Aggregated : Saturated(Shown(c)) = Saturated(Happened(c))
FailuresExact == \A c \in Failures : FailureCount(c) = Saturated(tally[c])
Flagged == \E w \in Workers : accounting_overflow[w]
Marked == worker_accounting_overflow \/ Flagged \/ \E c \in Aggregated : Shown(c) > CounterMax
TooMany ==
    \/ \E c \in Aggregated : Happened(c) > CounterMax
    \/ \E c \in Failures : tally[c] > CounterMax
OverflowExact == Marked <=> TooMany

(* The three ways in which a step treats the counters: it counts an event  *)
(* of c, it adds the workers' counters up, or neither.                     *)
Counted(c) ==
    /\ Happened(c)' = Happened(c) + 1
    /\ \A b \in Aggregated : b # c => Shown(b)' = Shown(b) /\ Happened(b)' = Happened(b)
    /\ \/ Shown(c)' = Shown(c) + 1 /\ (Flagged' <=> Flagged)
       \/ Shown(c)' = Shown(c) /\ Shown(c) >= CounterMax /\ Flagged'
    /\ UNCHANGED worker_accounting_overflow
    /\ \A b \in Failures : tally'[b] = tally[b] /\ FailureCount(b)' = FailureCount(b)
AddedUp ==
    /\ \A c \in Aggregated : Shown(c)' = Saturated(Shown(c)) /\ Happened(c)' = Happened(c)
    /\ (worker_accounting_overflow' <=> Marked) /\ ~Flagged'
    /\ \A b \in Failures : tally'[b] = tally[b] /\ FailureCount(b)' = FailureCount(b)
Untouched ==
    /\ \A c \in Aggregated : Shown(c)' = Shown(c) /\ Happened(c)' = Happened(c)
    /\ Flagged' <=> Flagged

(* Adding up loses nothing: the flag takes over what the workers' flags    *)
(* said and what the sums could not hold.                                  *)
LEMMA ReleaseAddsUp ==
    ASSUME TypeOK, TypeOK', FinishRelease, all_joined, NEW c \in Aggregated
    PROVE  /\ Shown(c)' = Saturated(Shown(c))
           /\ worker_accounting_overflow' <=> Marked
           /\ ~Flagged'
<1>1. /\ total' = [b \in Counters |->
                IF b \in Aggregated THEN Aggregate(b)[WorkerCount] ELSE total[b]]
      /\ context' = [w \in Workers |-> ZeroCounters]
  BY DEF FinishRelease
<1>2. accounting_overflow' = [w \in Workers |-> FALSE] /\ worker_accounting_overflow' = AggregateOverflows
  BY DEF FinishRelease
<1>3. c \in Counters /\ Aggregated \subseteq Counters /\ WorkerCount \in 0..WorkerCount
      /\ 0 \in 0..WorkerCount
  BY SchedulerAssumption DEF Aggregated
<1>4. ~Flagged'
  BY <1>2 DEF Flagged
<1>5. Shown(c)' = Saturated(Shown(c))
  <2> DEFINE g == CountsOf(c)'
  <2>1. total'[c] = Saturated(Shown(c))
    BY <1>1, <1>3, AggregateShows DEF Shown
  <2>2. g \in [Workers -> Nat] /\ \A w \in Workers : w > 0 => g[w] = 0
    BY <1>1, <1>3 DEF CountsOf, ZeroCounters
  <2> HIDE DEF g
  <2>3. Sum(g)[WorkerCount] = 0
    <3>1. Sum(g)[WorkerCount] = Sum(g)[0]
      BY <1>3, <2>2, SumOfZeros
    <3>2. QED
      BY <2>2, <3>1, SumFacts
  <2>4. Saturated(Shown(c)) \in Nat
    BY <1>3, CountsType, SaturatedSum
  <2>5. total'[c] + Sum(g)[WorkerCount] = Saturated(Shown(c))
    BY <2>1, <2>3, <2>4
  <2>6. QED
    BY <2>5 DEF Shown, g
<1>6. AggregateOverflows <=> Marked
  <2>1. \A b \in Aggregated :
            (\E w \in Workers : SumOverflows(Aggregate(b)[w - 1], context[w][b]))
               <=> Shown(b) > CounterMax
    BY <1>3, AggregateOverflowsWhen
  <2>2. AggregateOverflows <=>
           \/ worker_accounting_overflow
           \/ \E w \in Workers : accounting_overflow[w]
           \/ \E b \in Aggregated :
                 \E w \in Workers : SumOverflows(Aggregate(b)[w - 1], context[w][b])
    BY Zenon DEF AggregateOverflows
  <2>3. QED
    BY <2>1, <2>2, Zenon DEF Marked, Flagged
<1>7. QED
  BY <1>2, <1>4, <1>5, <1>6

(* Counters that nobody adds to show what they showed. *)
LEMMA SameCounts ==
    ASSUME UNCHANGED total, NEW c \in Counters,
           \A w \in Workers : context'[w][c] = context[w][c]
    PROVE  Shown(c)' = Shown(c)
<1>1. CountsOf(c)' = CountsOf(c)
  BY DEF CountsOf
<1>2. QED
  BY <1>1 DEF Shown

(* Every step is one of the three. *)
LEMMA CounterStep ==
    ASSUME TasksInv, [Next]_vars
    PROVE  \/ \E c \in Aggregated : Counted(c)
           \/ AddedUp
           \/ /\ Untouched
              /\ \/ \E c \in Failures : Fails(c)
                 \/ /\ UNCHANGED worker_accounting_overflow
                    /\ \A b \in Failures : tally'[b] = tally[b] /\ FailureCount(b)' = FailureCount(b)
<1>1. LifeInv /\ TypeOK /\ TypeOK' /\ RunningExact
  BY TypeStep DEF TasksInv, LifeInv, BaseInv
<1>2. Aggregated \subseteq Counters /\ "running" \notin Aggregated /\ "running" \in Counters
  BY DEF Aggregated, Counters
<1>3. ASSUME NEW w \in Workers, NEW c \in Aggregated, Event(w, c)
      PROVE  Counted(c)
  <2>1. /\ Count(w, c) /\ Happened(c)' = Happened(c) + 1
        /\ \A b \in Aggregated : b # c => Happened(b)' = Happened(b)
        /\ \A b \in Failures : tally'[b] = tally[b]
    BY <1>3 DEF Event
  <2>2. UNCHANGED workerVars
    BY <1>3 DEF Event
  <2>3. /\ total' = total /\ UNCHANGED worker_accounting_overflow
        /\ UNCHANGED <<worker_startup_failure_count, worker_runtime_failure_count, join_failure_count>>
    BY <2>2 DEF workerVars, failureVars
  <2>4. \A b \in Failures : FailureCount(b)' = FailureCount(b)
    BY <2>3 DEF FailureCount
  <2>5. /\ \A b \in Counters : b # c => Shown(b)' = Shown(b)
        /\ context[w][c] # CounterMax => Shown(c)' = Shown(c) + 1
        /\ context[w][c] = CounterMax => Shown(c)' = Shown(c) /\ Shown(c) >= CounterMax
    BY <1>1, <1>2, <2>1, <2>3, CountShows DEF Count
  <2>6. /\ context[w][c] # CounterMax => (Flagged' <=> Flagged)
        /\ context[w][c] = CounterMax => Flagged'
    <3>1. accounting_overflow \in [Workers -> BOOLEAN]
      BY <1>1 DEF TypeOK
    <3>2. accounting_overflow' = [accounting_overflow EXCEPT ![w] = @ \/ context[w][c] = CounterMax]
      BY <2>1 DEF Count, Overflows
    <3>3. accounting_overflow'[w] <=> accounting_overflow[w] \/ context[w][c] = CounterMax
      BY <3>1, <3>2
    <3>4. \A v \in Workers : v # w => (accounting_overflow'[v] <=> accounting_overflow[v])
      BY <3>1, <3>2
    <3>5. QED
      BY <3>3, <3>4 DEF Flagged
  <2>7. QED
    BY <1>2, <2>1, <2>3, <2>4, <2>5, <2>6 DEF Counted
<1>4. CASE NoEvent
  <2>1. \A c \in Aggregated : Happened(c)' = Happened(c)
    BY <1>4 DEF NoEvent
  <2>2. CASE FinishRelease /\ all_joined
    <3>1. /\ \A b \in Failures : tally'[b] = tally[b]
          /\ UNCHANGED <<worker_startup_failure_count, worker_runtime_failure_count, join_failure_count>>
      BY <2>2 DEF FinishRelease, history
    <3>2. \A b \in Failures : FailureCount(b)' = FailureCount(b)
      BY <3>1 DEF FailureCount
    <3>3. "started" \in Aggregated
      BY DEF Aggregated, Counters
    <3>4. AddedUp
      BY <1>1, <2>1, <2>2, <3>1, <3>2, <3>3, ReleaseAddsUp DEF AddedUp
    <3>5. QED
      BY <3>4
  <2>3. CASE ~(FinishRelease /\ all_joined)
    <3>1. FinishRelease => /\ UNCHANGED <<total, worker_accounting_overflow, contextVars>>
      BY <2>3 DEF FinishRelease
    <3>2. UNCHANGED total
      BY <1>1, <3>1, ArraysStep
    <3>3. Untouched
      <4>1. CASE UNCHANGED contextVars \/ FinishRelease
        <5>1. UNCHANGED <<context, accounting_overflow>>
          BY <3>1, <4>1 DEF contextVars
        <5>2. \A c \in Aggregated : Shown(c)' = Shown(c)
          BY <1>2, <3>2, <5>1, SameCounts
        <5>3. QED
          BY <2>1, <5>1, <5>2 DEF Untouched, Flagged
      <4>2. ASSUME NEW w \in Workers, RunningMoves(w) PROVE Untouched
        <5>1. PICK n : context' = [context EXCEPT ![w]["running"] = n]
          BY <4>2 DEF RunningMoves, WorkerCountsStart, WorkerCountsStop, Count
        <5>2. \A v \in Workers, c \in Aggregated : context'[v][c] = context[v][c]
          BY <1>1, <1>2, <5>1 DEF TypeOK
        <5>3. \A c \in Aggregated : Shown(c)' = Shown(c)
          BY <1>2, <3>2, <5>2, SameCounts
        <5>4. Flagged' <=> Flagged
          <6>1. CASE WorkerCountsStop(w)
            BY <6>1 DEF WorkerCountsStop, Flagged
          <6>2. CASE pc[w] = "count_running" /\ WorkerCountsStart(w)
            <7>1. context[w]["running"] # CounterMax
              BY <1>1, <6>2, SchedulerAssumption DEF RunningExact, RunningLabels, SubmitLabels
            <7>2. accounting_overflow' = [accounting_overflow EXCEPT ![w] =
                                              @ \/ context[w]["running"] = CounterMax]
              BY <6>2 DEF WorkerCountsStart, Count, Overflows
            <7>3. accounting_overflow \in [Workers -> BOOLEAN]
              BY <1>1 DEF TypeOK
            <7>4. \A v \in Workers : accounting_overflow'[v] <=> accounting_overflow[v]
              BY <7>1, <7>2, <7>3
            <7>5. QED
              BY <7>4 DEF Flagged
          <6>3. QED
            BY <4>2, <6>1, <6>2 DEF RunningMoves
        <5>5. QED
          BY <2>1, <5>3, <5>4 DEF Untouched
      <4>3. QED
        BY <1>4, <4>1, <4>2 DEF NoEvent
    <3>4. QED
      BY <1>1, <3>1, <3>3, FailureStep DEF NothingFails
  <2>4. QED
    BY <2>2, <2>3
<1>5. QED
  BY <1>3, <1>4, EventStep

(* The counters keep up with what happens, and the flags with the counters. *)
LEMMA CountersKept ==
    ASSUME TasksInv, CountersExact, FailuresExact, OverflowExact, [Next]_vars
    PROVE  CountersExact' /\ FailuresExact' /\ OverflowExact'
<1>1. TypeOK /\ TypeOK'
  BY TypeStep DEF TasksInv, LifeInv, BaseInv
<1>2. \A c \in Aggregated : Shown(c) \in Nat /\ Happened(c) \in Nat
  BY <1>1, CountsType, EventStep DEF Aggregated
<1>3. \A c \in Failures : tally[c] \in Nat
  BY <1>1 DEF TypeOK, Failures, Tallied
<1>4. CounterMax \in Nat \ {0}
  BY SchedulerAssumption
<1>5. \A c \in Aggregated : Saturated(Shown(c)) = Saturated(Happened(c))
  BY DEF CountersExact
<1>6. \A c \in Failures : FailureCount(c) = Saturated(tally[c])
  BY DEF FailuresExact
<1>7. \A n \in Nat : /\ Saturated(n + 1) = Increment(Saturated(n))
                     /\ Overflows(Saturated(n)) <=> n + 1 > CounterMax
  BY <1>4, SaturatedStep
<1>8. ASSUME NEW m \in Nat, NEW n \in Nat, Saturated(m) = Saturated(n)
      PROVE  /\ Saturated(m + 1) = Saturated(n + 1)
             /\ m >= CounterMax => Saturated(m) = Saturated(n + 1) /\ n + 1 > CounterMax
             /\ m + 1 > CounterMax <=> n + 1 > CounterMax
             /\ m > CounterMax => m + 1 > CounterMax
             /\ Saturated(Saturated(m)) = Saturated(n) /\ ~ (Saturated(m) > CounterMax)
  BY <1>4, <1>8 DEF Saturated
<1>9. ASSUME NEW c \in Aggregated, Counted(c)
      PROVE  CountersExact' /\ FailuresExact' /\ OverflowExact'
  <2>1. CountersExact'
    BY <1>2, <1>5, <1>8, <1>9 DEF CountersExact, Counted
  <2>2. FailuresExact'
    BY <1>6, <1>9 DEF FailuresExact, Counted
  <2>3. OverflowExact'
    <3>1. \A b \in Aggregated : b # c => Shown(b)' = Shown(b) /\ Happened(b)' = Happened(b)
      BY <1>9 DEF Counted
    <3>2. \A b \in Failures : tally'[b] = tally[b]
      BY <1>9 DEF Counted
    <3>3. worker_accounting_overflow' <=> worker_accounting_overflow
      BY <1>9 DEF Counted
    <3>4. Happened(c)' = Happened(c) + 1 /\ Shown(c) \in Nat /\ Happened(c) \in Nat
          /\ Saturated(Shown(c)) = Saturated(Happened(c))
      BY <1>2, <1>5, <1>9 DEF Counted
    <3>5. CASE Shown(c)' = Shown(c) + 1 /\ (Flagged' <=> Flagged)
      <4>1. /\ Shown(c)' > CounterMax <=> Happened(c)' > CounterMax
            /\ Shown(c) > CounterMax => Shown(c)' > CounterMax
        BY <1>8, <3>4, <3>5
      <4>2. Happened(c) > CounterMax => Happened(c)' > CounterMax
        BY <1>4, <3>4
      <4>3. Marked' <=> Marked \/ Shown(c)' > CounterMax
        BY <3>1, <3>3, <3>5, <4>1, Zenon DEF Marked
      <4>4. TooMany' <=> TooMany \/ Happened(c)' > CounterMax
        BY <3>1, <3>2, <4>2 DEF TooMany
      <4>5. QED
        BY <4>1, <4>3, <4>4 DEF OverflowExact
    <3>6. CASE Shown(c)' = Shown(c) /\ Shown(c) >= CounterMax /\ Flagged'
      <4>1. Happened(c)' > CounterMax
        BY <1>8, <3>4, <3>6
      <4>2. Marked' /\ TooMany'
        BY <3>6, <4>1 DEF Marked, TooMany
      <4>3. QED
        BY <4>2 DEF OverflowExact
    <3>7. QED
      BY <1>9, <3>5, <3>6 DEF Counted
  <2>4. QED
    BY <2>1, <2>2, <2>3
<1>10. CASE AddedUp
  <2>1. CountersExact'
    BY <1>2, <1>5, <1>8, <1>10 DEF CountersExact, AddedUp
  <2>2. FailuresExact'
    BY <1>6, <1>10 DEF FailuresExact, AddedUp
  <2>3. Marked' <=> Marked
    <3>1. \A c \in Aggregated : ~ (Shown(c)' > CounterMax)
      BY <1>2, <1>5, <1>8, <1>10 DEF AddedUp
    <3>2. (worker_accounting_overflow' <=> Marked) /\ ~Flagged'
      BY <1>10 DEF AddedUp
    <3>3. Marked' <=> worker_accounting_overflow'
      BY <3>1, <3>2, Zenon DEF Marked
    <3>4. QED
      BY <3>2, <3>3
  <2>4. TooMany' <=> TooMany
    BY <1>10 DEF TooMany, AddedUp
  <2>5. QED
    BY <2>1, <2>2, <2>3, <2>4 DEF OverflowExact
<1>11. CASE Untouched
  <2>1. CountersExact'
    BY <1>5, <1>11 DEF CountersExact, Untouched
  <2>2. ASSUME NEW c \in Failures, Fails(c)
        PROVE  FailuresExact' /\ OverflowExact'
    <3>1. /\ tally'[c] = tally[c] + 1 /\ FailureCount(c)' = Increment(FailureCount(c))
          /\ \A b \in Failures : b # c => tally'[b] = tally[b] /\ FailureCount(b)' = FailureCount(b)
          /\ tally[c] \in Nat /\ FailureCount(c) = Saturated(tally[c])
      BY <1>3, <1>6, <2>2 DEF Fails
    <3>2. FailureCount(c)' = Saturated(tally'[c])
      BY <1>7, <3>1
    <3>3. FailuresExact'
      BY <1>6, <3>1, <3>2 DEF FailuresExact
    <3>4. Overflows(FailureCount(c)) <=> tally'[c] > CounterMax
      BY <1>7, <3>1
    <3>5. worker_accounting_overflow' <=> (worker_accounting_overflow \/ tally'[c] > CounterMax)
      BY <2>2, <3>4 DEF Fails
    <3>6. Marked' <=> Marked \/ tally'[c] > CounterMax
      BY <1>11, <3>5, Zenon DEF Untouched, Marked
    <3>7. tally[c] > CounterMax => tally'[c] > CounterMax
      BY <1>4, <3>1
    <3>8. TooMany' <=> TooMany \/ tally'[c] > CounterMax
      BY <1>11, <3>1, <3>7, Zenon DEF Untouched, TooMany
    <3>9. QED
      BY <3>3, <3>6, <3>8 DEF OverflowExact
  <2>3. ASSUME UNCHANGED worker_accounting_overflow,
               \A b \in Failures : tally'[b] = tally[b] /\ FailureCount(b)' = FailureCount(b)
        PROVE  FailuresExact' /\ OverflowExact'
    <3>1. FailuresExact'
      BY <1>6, <2>3 DEF FailuresExact
    <3>2. Marked' <=> Marked
      BY <1>11, <2>3, Zenon DEF Untouched, Marked
    <3>3. TooMany' <=> TooMany
      BY <1>11, <2>3, Zenon DEF Untouched, TooMany
    <3>4. QED
      BY <3>1, <3>2, <3>3 DEF OverflowExact
  <2>4. CASE AddedUp \/ \E c \in Aggregated : Counted(c)
    BY <1>9, <1>10, <2>4
  <2>5. QED
    BY <2>1, <2>2, <2>3, <2>4, CounterStep
<1>12. QED
  BY <1>9, <1>10, <1>11, CounterStep

-----------------------------------------------------------------------------
(* What cannot have happened yet: callbacks and failures of workers before *)
(* a worker was created, a failed creation before start tried one.         *)
Fresh == state = "INITIALIZED" \/ pc[Main] \in {"start_allocate", "start_create"}
NothingYet ==
    /\ created_worker_count = 0 => /\ Ran = {}
                                   /\ tally["runtime_failures"] = 0 /\ tally["join_failures"] = 0
    /\ tally["startup_failures"] <= 1
    /\ Fresh => tally["startup_failures"] = 0
    /\ implementation /\ ~worker_sync_initialized =>
           created_worker_count = 0 /\ tally["startup_failures"] = 0 /\ ~allocated

(* Start begins once; a start that fails at a creation is never repeated. *)
LEMMA FreshStep ==
    ASSUME LifeInv, [Next]_vars, Fresh'
    PROVE  Fresh /\ tally'["startup_failures"] = tally["startup_failures"]
<1> USE ThreadKinds
<1>1. TypeOK /\ BaseInv /\ Lifecycle
  BY DEF LifeInv, BaseInv
<1>2. ASSUME NEW label, Goto(Main, label) PROVE pc'[Main] = label
  BY <1>1, <1>2, GotoFacts
<1>3. CASE StartCreates
  <2>1. pc[Main] = "start_create" /\ state' = state
    BY <1>3 DEF StartCreates, lifecycleVars
  <2>2. pc'[Main] # "start_abort"
    BY <1>1, <2>1 DEF Fresh, Lifecycle, StartLabels
  <2>3. ~Goto(Main, "start_abort")
    BY <1>2, <2>2
  <2>4. UNCHANGED tally
    BY <1>3, <2>3 DEF StartCreates
  <2>5. QED
    BY <2>1, <2>4 DEF Fresh
<1>4. CASE ~StartCreates
  <2>1. tally'["startup_failures"] = tally["startup_failures"]
    BY <1>1, <1>4, TallyFrame
  <2>2. CASE UNCHANGED vars
    BY <2>1, <2>2 DEF vars, lifecycleVars, Fresh
  <2>3. CASE MainOnly
    <3>1. CASE JoinWorker \/ LifecycleCallReturnsAtOnce \/ scheduler_destroy
      <4>1. UNCHANGED <<state, pc>>
        BY <3>1 DEF JoinWorker, LifecycleCallReturnsAtOnce, scheduler_destroy, Refused, lifecycleVars
      <4>2. QED
        BY <2>1, <4>1 DEF Fresh
    <3>2. CASE StartBegins \/ StartAllocates
      BY <2>1, <3>2 DEF StartBegins, StartAllocates, Fresh
    <3>3. CASE \/ ShutdownBegins \/ StartPublishes \/ StartFails \/ JoinPublishes
      <4>1. pc'[Main] \in {"idle", "shutdown_queue"} /\ state' # "INITIALIZED"
        BY <1>2, <3>3 DEF ShutdownBegins, StartPublishes, StartFails, JoinPublishes, LifecycleReturns
      <4>2. QED
        BY <4>1 DEF Fresh
    <3>4. CASE StartWaits \/ FinishRelease \/ ShutdownWaits \/ JoinWaitFails \/ MainSpuriousWakeup
               \/ JoinWaits
      <4>1. pc'[Main] \notin {"start_allocate", "start_create"}
        BY <1>2, <3>4
           DEF StartWaits, FinishRelease, AfterRelease, ShutdownWaits, JoinWaitFails,
               MainSpuriousWakeup, JoinWaits, BeginRelease, LifecycleReturns, LifecycleWake, WorkerWake
      <4>2. state' = state
        BY <3>4
           DEF StartWaits, FinishRelease, ShutdownWaits, JoinWaitFails,
               MainSpuriousWakeup, JoinWaits, lifecycleVars
      <4>3. QED
        BY <2>1, <4>1, <4>2 DEF Fresh
    <3>5. QED
      BY <2>3, <3>1, <3>2, <3>3, <3>4 DEF MainOnly
  <2>4. CASE StartAborts \/ ShutdownQueue
    <3>1. state' = state /\ pc'[Main] \in {"start_release", "shutdown_wait"}
      BY <1>2, <2>4 DEF StartAborts, ShutdownQueue, BeginRelease, lifecycleVars
    <3>2. QED
      BY <2>1, <3>1 DEF Fresh
  <2>5. ASSUME NEW t \in Workers \cup Submitters, OtherStep(t)
        PROVE  Fresh
    <3>1. /\ UNCHANGED state
          /\ pc'[Main] \in {pc[Main], LifecycleWake(pc[Main]), WorkerWake(pc[Main])}
      BY <1>1, <2>5, OtherFrame
    <3>2. QED
      BY <3>1 DEF Fresh, LifecycleWake, WorkerWake
  <2>6. QED
    BY <1>4, <2>1, <2>2, <2>3, <2>4, <2>5, NextSplit
<1>5. QED
  BY <1>3, <1>4

(* Nothing has happened before it could. *)
LEMMA NothingYetKept ==
    ASSUME TasksInv, NothingYet, [Next]_vars
    PROVE  NothingYet'
<1> USE ThreadKinds
<1>1. LifeInv /\ TypeOK /\ TypeOK' /\ Arrays /\ Handles
  BY TypeStep DEF TasksInv, LifeInv, BaseInv
<1>2. /\ created_worker_count \in Nat /\ created_worker_count' \in Nat
      /\ tally["startup_failures"] \in Nat /\ tally'["startup_failures"] \in Nat
  BY <1>1 DEF TypeOK, Tallied
<1>3. created_worker_count <= created_worker_count'
  BY <1>1, ArraysStep
<1>4. ASSUME created_worker_count' = 0
      PROVE  /\ Ran' = {} /\ tally'["runtime_failures"] = 0 /\ tally'["join_failures"] = 0
  <2>1. created_worker_count = 0
    BY <1>2, <1>3, <1>4
  <2>2. \A w \in Workers : pc[w] = "none"
    BY <1>1, <2>1 DEF Arrays
  <2>3. Ran' = Ran
    BY <2>2, RanStep DEF WorkerExecutes
  <2>4. tally'["runtime_failures"] = tally["runtime_failures"]
    BY <1>1, <2>2, TallyFrame DEF WorkerExits
  <2>5. ~JoinWorker
    <3>1. started_worker_count = 0
      BY <1>1, <2>1 DEF Arrays, Handles
    <3>2. QED
      BY <1>1, <3>1, JoinFacts DEF Workers
  <2>6. tally'["join_failures"] = tally["join_failures"]
    BY <1>1, <2>5, TallyFrame
  <2>7. QED
    BY <2>1, <2>3, <2>4, <2>6 DEF NothingYet
<1>5. tally'["startup_failures"] <= 1
  <2>1. CASE StartCreates
    <3>1. tally["startup_failures"] = 0
      BY <2>1 DEF StartCreates, NothingYet, Fresh
    <3>2. UNCHANGED tally \/ Tally("startup_failures")
      BY <2>1 DEF StartCreates
    <3>3. tally'["startup_failures"] \in {tally["startup_failures"], tally["startup_failures"] + 1}
      BY <1>1, <3>2 DEF Tally, TypeOK, Tallied
    <3>4. QED
      BY <3>1, <3>3
  <2>2. CASE ~StartCreates
    BY <1>1, <2>2, TallyFrame DEF NothingYet
  <2>3. QED
    BY <2>1, <2>2
<1>6. Fresh' => tally'["startup_failures"] = 0
  BY <1>1, FreshStep DEF NothingYet
<1>7. ASSUME implementation', ~worker_sync_initialized'
      PROVE  created_worker_count' = 0 /\ tally'["startup_failures"] = 0 /\ ~allocated'
  <2>1. implementation
    <3>1. implementation' = implementation \/ ~implementation'
      BY LifecycleFrame
         DEF lifecycleVars, StartBegins, StartAllocates, StartPublishes, StartFails,
             ShutdownBegins, JoinPublishes, scheduler_destroy, Refused, register_submitter,
             deregister_submitter
    <3>2. QED
      BY <1>7, <3>1
  <2>2. ~worker_sync_initialized
    <3>1. scheduler_destroy => UNCHANGED worker_sync_initialized
      BY <1>7 DEF scheduler_destroy, Refused, workerVars
    <3>2. StartAllocates => UNCHANGED worker_sync_initialized
      BY <1>7 DEF StartAllocates
    <3>3. UNCHANGED worker_sync_initialized
      BY <3>1, <3>2, WorkerFrame
         DEF workerVars, StartCreates, JoinWorker, FinishRelease, WorkerReady, WorkerExits,
             record_worker_exit
    <3>4. QED
      BY <1>7, <3>3
  <2>3. created_worker_count = 0 /\ tally["startup_failures"] = 0 /\ ~allocated
    BY <2>1, <2>2 DEF NothingYet
  <2>4. ~StartCreates
    BY <1>1, <2>3 DEF StartCreates, Handles
  <2>5. tally'["startup_failures"] = 0
    BY <1>1, <2>3, <2>4, TallyFrame
  <2>6. created_worker_count' = 0
    BY <2>3, <2>4, WorkerFrame
       DEF workerVars, scheduler_destroy, Refused, StartAllocates,
             JoinWorker, FinishRelease, WorkerReady, WorkerExits, record_worker_exit
  <2>7. ~allocated'
    <3>1. StartAllocates => UNCHANGED allocated
      BY <1>7 DEF StartAllocates
    <3>2. UNCHANGED allocated \/ FinishRelease
      BY <2>4, <3>1, WorkerFrame
         DEF workerVars, scheduler_destroy, Refused, JoinWorker, WorkerReady, WorkerExits,
             record_worker_exit
    <3>3. FinishRelease => UNCHANGED allocated \/ ~allocated'
      BY DEF FinishRelease, FreeArrays
    <3>4. QED
      BY <2>3, <3>2, <3>3
  <2>8. QED
    BY <2>5, <2>6, <2>7
<1>8. QED
  BY <1>4, <1>5, <1>6, <1>7 DEF NothingYet

-----------------------------------------------------------------------------
(* Unless waits or native joins fail, every worker exits with OK, and join *)
(* counts it as joined or as a failed join.                                *)
JoinedExact ==
    "wait" \notin Faults /\ "native_join" \notin Faults =>
        /\ created_worker_count = joined_worker_count + tally["join_failures"]
                                      + Cardinality(WithHandle)
        /\ \A w \in Workers : pc[w] = "exited" => exit[w] = "OK"

(* Every step of start, of a worker that exits and of join keeps this. *)
LEMMA JoinedKept ==
    ASSUME TasksInv, JoinedExact, [Next]_vars
    PROVE  JoinedExact'
<1> USE ThreadKinds
<1> SUFFICES ASSUME "wait" \notin Faults, "native_join" \notin Faults
             PROVE  /\ created_worker_count' = joined_worker_count' + tally'["join_failures"]
                                                   + Cardinality(WithHandle')
                    /\ \A w \in Workers : pc'[w] = "exited" => exit'[w] = "OK"
  BY DEF JoinedExact
<1>1. LifeInv /\ BaseInv /\ TypeOK /\ TypeOK' /\ Arrays /\ Handles
  BY TypeStep DEF TasksInv, LifeInv, BaseInv
<1>2. /\ created_worker_count \in Nat /\ joined_worker_count \in Nat
      /\ tally["join_failures"] \in Nat /\ Cardinality(WithHandle) \in Nat
      /\ IsFiniteSet(WithHandle) /\ started_worker_count \in 0..WorkerCount
  BY <1>1, WorkersFinite DEF TypeOK, Tallied, WithHandle
<1>3. /\ created_worker_count = joined_worker_count + tally["join_failures"]
                                      + Cardinality(WithHandle)
      /\ \A w \in Workers : pc[w] = "exited" => exit[w] = "OK"
  BY DEF JoinedExact
<1>4. \A w \in Workers : pc'[w] = "exited" => exit'[w] = "OK"
  <2>1. ASSUME NEW w \in Workers, WorkerExits(w)
        PROVE  \A v \in Workers : pc'[v] = "exited" => exit'[v] = "OK"
    <3>1. PICK code \in {"OK", "QUEUE"} :
              /\ record_worker_exit(w, code) /\ exit' = [exit EXCEPT ![w] = code]
              /\ code = "QUEUE" => pc[w] = "abandon"
      BY <1>1, <2>1, ExitCounted
    <3>2. pc[w] # "abandon"
      BY DEF TasksInv, Drain, WaitFailed
    <3>3. exit'[w] = "OK" /\ \A v \in Workers : v # w => exit'[v] = exit[v]
      BY <1>1, <3>1, <3>2 DEF TypeOK
    <3>4. \A v \in Workers : v # w => pc'[v] = pc[v]
      BY <1>1, <3>1, GotoFacts DEF record_worker_exit
    <3>5. QED
      BY <1>3, <3>3, <3>4
  <2>2. CASE ~ \E w \in Workers : WorkerExits(w)
    <3>1. exit' = exit
      BY <2>2, LocalsFrame
         DEF JoinWaits, StartAborts, JoinWorker, FinishRelease, register_submitter,
             deregister_submitter, WorkerCountsDequeue, WorkerExecutes
    <3>2. ASSUME NEW v \in Workers, pc'[v] = "exited" PROVE pc[v] = "exited"
      <4>1. Finished(v)' => Finished(v) \/ (shutdown_requested' /\ queue' = <<>>)
        BY <1>1, FinishStep DEF TasksInv, Drain
      <4>2. CASE MainOnly \/ UNCHANGED vars
        BY <1>1, <3>2, <4>2, MainOnlyFrame DEF vars
      <4>3. CASE StartAborts \/ ShutdownQueue
        BY <1>1, <3>2, <4>3, GotoFacts DEF StartAborts, ShutdownQueue, BeginRelease
      <4>4. CASE StartCreates
        BY <1>1, <3>2, <4>4, CreateFacts
      <4>5. ASSUME NEW t \in Workers \cup Submitters, OtherStep(t) PROVE pc[v] = "exited"
        <5>1. v # t => pc'[v] = pc[v]
          BY <1>1, <4>5, OtherFrame
        <5>2. CASE v = t
          <6>1. ASSUME NEW label, Goto(v, label) PROVE pc'[v] = label
            BY <1>1, <6>1, GotoFacts
          <6>2. ASSUME NEW call \in {"submit", "try_submit"}, register_submitter(v, call)
                PROVE  pc[v] = "exited"
            BY <3>2, <6>1, <6>2 DEF register_submitter
          <6>3. CASE deregister_submitter(v)
            BY <1>1, <3>2, <5>2, <6>3, DeregisterFacts DEF Home
          <6>4. CASE SubmitToQueue(v) \/ QueueResumes(v) \/ QueueWaitEnds(v)
            BY <3>2, <6>1, <6>4 DEF SubmitToQueue, QueueResumes, QueueWaitEnds
          <6>5. CASE WorkerReady(v)
            BY <1>1, <3>2, <6>5 DEF WorkerReady, TypeOK
          <6>6. CASE \/ WorkerDequeue(v) \/ WorkerCountsDequeue(v) \/ WorkerCountsStart(v)
                     \/ WorkerExecutes(v) \/ CallbackReturns(v) \/ WorkerCountsStop(v)
                     \/ WorkerQueueFailure(v)
            BY <3>2, <6>1, <6>6
               DEF WorkerDequeue, WorkerCountsDequeue, WorkerCountsStart, WorkerExecutes,
                   CallbackReturns, WorkerCountsStop, WorkerQueueFailure
          <6>7. QED
            BY <2>2, <4>5, <5>2, <6>2, <6>3, <6>4, <6>5, <6>6 DEF OtherStep, scheduler_worker_entry
        <5>3. QED
          BY <3>2, <5>1, <5>2
      <4>6. QED
        BY <4>2, <4>3, <4>4, <4>5, NextSplit
    <3>3. QED
      BY <1>3, <3>1, <3>2
  <2>3. QED
    BY <2>1, <2>2
<1>5. CASE StartCreates
  <2> DEFINE n == started_worker_count + 1
  <2>1. UNCHANGED joined_worker_count
    BY <1>5 DEF StartCreates
  <2>2. tally'["join_failures"] = tally["join_failures"]
    <3>1. ~JoinWorker
      BY <1>5 DEF StartCreates, JoinWorker
    <3>2. QED
      BY <1>1, <3>1, TallyFrame
  <2>3. n \in Workers /\ ~handle[n]
    BY <1>1, <1>2, <1>5, CreateFacts DEF Handles
  <2>4. CASE UNCHANGED <<handle, created_worker_count>>
    <3>1. WithHandle' = WithHandle
      BY <2>4 DEF WithHandle
    <3>2. QED
      BY <1>3, <1>4, <2>1, <2>2, <2>4, <3>1
  <2>5. CASE handle' = [handle EXCEPT ![n] = TRUE] /\ CountCreated
    <3>1. handle'[n] = TRUE /\ \A u \in Workers : u # n => handle'[u] = handle[u]
      BY <1>1, <2>3, <2>5 DEF TypeOK
    <3>2. WithHandle' = WithHandle \cup {n} /\ n \notin WithHandle
      BY <2>3, <3>1 DEF WithHandle
    <3>3. Cardinality(WithHandle') = Cardinality(WithHandle) + 1
      BY <1>2, <3>2, FS_AddElement
    <3>4. created_worker_count' = created_worker_count + 1
      BY <2>5 DEF CountCreated
    <3>5. QED
      BY <1>2, <1>3, <1>4, <2>1, <2>2, <3>3, <3>4
  <2>6. QED
    BY <1>1, <1>5, <2>4, <2>5, CreateFacts
<1>6. CASE JoinWorker
  <2>1. index \in Workers /\ UNCHANGED created_worker_count
    BY <1>1, <1>6, JoinFacts
  <2>2. \/ /\ UNCHANGED <<handle, joined_worker_count>> /\ NoJoinFailure
        \/ /\ handle[index] /\ handle' = [handle EXCEPT ![index] = FALSE]
           /\ CountJoinFailure /\ UNCHANGED joined_worker_count
        \/ /\ handle[index] /\ handle' = [handle EXCEPT ![index] = FALSE]
           /\ NoJoinFailure /\ joined_worker_count' = joined_worker_count + 1
    BY <1>3, <1>6, <2>1 DEF JoinWorker, Released
  <2>3. CASE UNCHANGED <<handle, joined_worker_count>> /\ NoJoinFailure
    BY <1>3, <1>4, <2>1, <2>3 DEF NoJoinFailure, WithHandle
  <2>4. CASE handle[index] /\ handle' = [handle EXCEPT ![index] = FALSE]
    <3>1. handle'[index] = FALSE /\ \A u \in Workers : u # index => handle'[u] = handle[u]
      BY <1>1, <2>1, <2>4 DEF TypeOK
    <3>2. WithHandle' = WithHandle \ {index} /\ index \in WithHandle
      BY <2>1, <2>4, <3>1 DEF WithHandle
    <3>3. Cardinality(WithHandle') = Cardinality(WithHandle) - 1
      BY <1>2, <3>2, FS_RemoveElement
    <3>4. /\ CountJoinFailure => tally'["join_failures"] = tally["join_failures"] + 1
          /\ NoJoinFailure => tally'["join_failures"] = tally["join_failures"]
      BY <1>1 DEF CountJoinFailure, NoJoinFailure, Tally, TypeOK, Tallied
    <3>5. joined_worker_count' \in Nat /\ tally'["join_failures"] \in Nat
      BY <1>1 DEF TypeOK, Tallied
    <3>6. CASE joined_worker_count' + tally'["join_failures"]
              = joined_worker_count + tally["join_failures"] + 1
      BY <1>2, <1>3, <1>4, <2>1, <3>3, <3>5, <3>6
    <3>7. QED
      BY <1>2, <2>2, <2>3, <3>4, <3>6
  <2>5. QED
    BY <2>2, <2>3, <2>4
<1>7. CASE ~StartCreates /\ ~JoinWorker
  <2>1. UNCHANGED <<created_worker_count, joined_worker_count, handle>>
    BY <1>7, WorkerFrame
       DEF workerVars, scheduler_destroy, Refused, StartAllocates, FinishRelease,
           WorkerReady, WorkerExits, record_worker_exit
  <2>2. tally'["join_failures"] = tally["join_failures"]
    BY <1>1, <1>7, TallyFrame
  <2>3. WithHandle' = WithHandle
    BY <2>1 DEF WithHandle
  <2>4. QED
    BY <1>3, <1>4, <2>1, <2>2, <2>3
<1>8. QED
  BY <1>5, <1>6, <1>7

-----------------------------------------------------------------------------
(* The inductive invariant of the accounts. *)
AccountsInv ==
    /\ TasksInv /\ Returned /\ CountersExact /\ FailuresExact /\ OverflowExact
    /\ Cleared /\ NothingYet /\ JoinedExact

(* Counters that have been cleared show what the totals show. *)
LEMMA NothingCounted ==
    ASSUME TypeOK, NEW c \in Counters, \A w \in Workers : context[w][c] = 0
    PROVE  Shown(c) = total[c]
<1> DEFINE f == CountsOf(c)
<1>1. f \in [Workers -> Nat] /\ \A w \in Workers : w > 0 => f[w] = 0
  BY DEF CountsOf
<1> HIDE DEF f
<1>2. Sum(f)[WorkerCount] = 0
  <2>1. 0 \in 0..WorkerCount
    BY SchedulerAssumption
  <2>2. Sum(f)[WorkerCount] = Sum(f)[0]
    BY <1>1, <2>1, SumOfZeros
  <2>3. QED
    BY <1>1, <2>2, SumFacts
<1>3. total[c] \in Nat
  BY CountsType
<1>4. total[c] + Sum(f)[WorkerCount] = total[c]
  BY <1>2, <1>3
<1>5. QED
  BY <1>4 DEF Shown, f

(* scheduler_init establishes it. *)
LEMMA InitAccounts == Init => AccountsInv
<1> SUFFICES ASSUME Init PROVE AccountsInv
  OBVIOUS
<1>1. TasksInv /\ TypeOK
  BY InitTasks DEF TasksInv, LifeInv, BaseInv
<1>2. /\ tally = [c \in Tallied |-> 0] /\ executed = [k \in Tasks |-> 0]
      /\ total = ZeroCounters /\ context = [w \in Workers |-> ZeroCounters]
      /\ created_worker_count = 0 /\ joined_worker_count = 0
      /\ worker_startup_failure_count = 0 /\ worker_runtime_failure_count = 0
      /\ join_failure_count = 0 /\ handle = [w \in Workers |-> FALSE]
  BY DEF Init
<1>3. /\ accounting_overflow = [w \in Workers |-> FALSE] /\ ~worker_accounting_overflow
      /\ ~allocated
  BY DEF Init
<1>4. \A w \in Workers : pc[w] = "none"
  BY ThreadKinds DEF Init
<1>5. Ran = {} /\ InHand = {} /\ Begun = {} /\ InCallback = {} /\ WithHandle = {}
  BY <1>2, <1>4 DEF Ran, InHand, Begun, InCallback, WithHandle, TaskInHandLabels, SubmitLabels
<1>6. \A c \in Tallied : tally[c] = 0
  BY <1>2
<1>7. \A c \in Aggregated : Happened(c) = 0
  BY <1>5, <1>6, FS_EmptySet DEF Happened, Tallied, Aggregated, Counters
<1>8. \A c \in Counters : total[c] = 0 /\ \A w \in Workers : context[w][c] = 0
  BY <1>2 DEF ZeroCounters
<1>9. \A c \in Aggregated : Shown(c) = 0
  BY <1>1, <1>8, NothingCounted DEF Aggregated
<1>10. ~ (0 > CounterMax) /\ Saturated(0) = 0
  BY SchedulerAssumption DEF Saturated
<1>11. Returned
  BY <1>5, <1>6, FS_EmptySet DEF Returned, Tallied
<1>12. CountersExact
  BY <1>7, <1>9 DEF CountersExact
<1>13. FailuresExact
  BY <1>2, <1>6, <1>10 DEF FailuresExact, FailureCount, Failures, Tallied
<1>14. OverflowExact
  <2>1. ~Marked
    <3>1. ~Flagged
      BY <1>3 DEF Flagged
    <3>2. \A c \in Aggregated : ~ (Shown(c) > CounterMax)
      BY <1>9, <1>10
    <3>3. QED
      BY <1>3, <3>1, <3>2 DEF Marked
  <2>2. ~TooMany
    BY <1>6, <1>7, <1>10 DEF TooMany, Failures, Tallied
  <2>3. QED
    BY <2>1, <2>2 DEF OverflowExact
<1>15. Cleared
  <2>1. "running" \in Counters
    BY DEF Counters
  <2>2. total["running"] = 0
    BY <1>2, <2>1 DEF ZeroCounters
  <2>3. \A w \in Workers : ~accounting_overflow[w]
    BY <1>3
  <2>4. QED
    BY <1>8, <2>2, <2>3 DEF Cleared
<1>16. NothingYet
  BY <1>2, <1>3, <1>5, <1>6 DEF NothingYet, Tallied
<1>17. JoinedExact
  BY <1>2, <1>4, <1>5, <1>6, FS_EmptySet DEF JoinedExact, Tallied
<1>18. QED
  BY <1>1, <1>11, <1>12, <1>13, <1>14, <1>15, <1>16, <1>17 DEF AccountsInv

(* Every step keeps it. *)
LEMMA StepAccounts ==
    ASSUME AccountsInv, [Next]_vars
    PROVE  AccountsInv'
<1>1. TasksInv /\ LifeInv
  BY DEF AccountsInv, TasksInv
<1>2. TasksInv'
  BY <1>1, StepTasks
<1>3. Returned'
  BY <1>1, EventStep DEF AccountsInv
<1>4. CountersExact' /\ FailuresExact' /\ OverflowExact'
  BY CountersKept DEF AccountsInv
<1>5. Cleared'
  BY <1>1, ClearedKept DEF AccountsInv
<1>6. NothingYet'
  BY NothingYetKept DEF AccountsInv
<1>7. JoinedExact'
  BY JoinedKept DEF AccountsInv
<1>8. QED
  BY <1>2, <1>3, <1>4, <1>5, <1>6, <1>7 DEF AccountsInv

(* The accounts of release_workers and of the workers' counters: at every  *)
(* instant the totals and the counters not yet added to them show what has *)
(* happened, up to saturation, and the overflow flags say exactly whether  *)
(* something no longer fits.                                               *)
THEOREM AccountsInvariant == Spec => []AccountsInv
<1>1. AccountsInv /\ [Next]_vars => AccountsInv'
  BY StepAccounts
<1>2. QED
  BY InitAccounts, <1>1, PTL DEF Spec

-----------------------------------------------------------------------------
(* The tasks in the queue are as many as its length. *)
LEMMA QueuedTasks ==
    ASSUME TasksInv
    PROVE  /\ IsFiniteSet({k \in Tasks : InQueue(k)})
           /\ Cardinality({k \in Tasks : InQueue(k)}) = Len(queue)
<1> DEFINE S == 1..Len(queue)
           T == {k \in Tasks : InQueue(k)}
           f == [i \in S |-> queue[i]]
<1>1. queue \in Seq(Tasks) /\ Len(queue) \in Nat
  BY DEF TasksInv, LifeInv, BaseInv, QueueInv, Q!TypeOK
<1>2. \A i \in S : queue[i] \in T
  BY <1>1 DEF InQueue
<1>3. \A i, j \in S : queue[i] = queue[j] => i = j
  BY DEF TasksInv, Place
<1>4. \A k \in T : \E i \in S : queue[i] = k
  BY DEF InQueue
<1>5. f \in Bijection(S, T)
  <2> HIDE DEF S, T
  <2>1. f \in [S -> T]
    BY <1>2
  <2>2. \A i \in S : f[i] = queue[i]
    OBVIOUS
  <2> HIDE DEF f
  <2>3. QED
    BY <1>3, <1>4, <2>1, <2>2 DEF Bijection, Injection, Surjection, IsInjective
<1>6. ExistsBijection(S, T)
  BY <1>5 DEF ExistsBijection
<1>7. IsFiniteSet(S) /\ Cardinality(S) = Len(queue)
  BY <1>1, FS_Interval
<1> HIDE DEF S, T
<1>8. IsFiniteSet(T) /\ Cardinality(T) = Len(queue)
  BY <1>6, <1>7, FS_Bijection
<1>9. QED
  BY <1>8 DEF T

(* When no worker is left, what was accepted has run or is still queued. *)
LEMMA AcceptedRanOrQueued ==
    ASSUME TasksInv, \A w \in Workers : pc[w] \in {"none", "exited"}, Registered = {}
    PROVE  Answered({"OK"}) = Cardinality(Ran) + Len(queue)
<1> DEFINE T == {k \in Tasks : InQueue(k)}
           A == {k \in Tasks : outcome[k] \in {"OK"}}
<1>1. \A t \in Threads, k \in Tasks : ~HasPut(t, k)
  BY DEF Registered, HasPut, SubmitLabels
<1>2. \A k \in Tasks : ~Held(k)
  BY DEF Held, Holds, TaskInHandLabels
<1>3. \A k \in Tasks : /\ outcome[k] = "OK" <=> InQueue(k) \/ executed[k] = 1
                       /\ executed[k] = 1 => ~InQueue(k)
  BY <1>1, <1>2 DEF TasksInv, Place, Taken
<1>4. A = Ran \cup T /\ Ran \cap T = {}
  BY <1>3 DEF Ran
<1>5. IsFiniteSet(T) /\ Cardinality(T) = Len(queue)
  BY QueuedTasks
<1>6. IsFiniteSet(Ran) /\ Cardinality(Ran) \in Nat
  BY CountedFinite
<1>7. Len(queue) \in Nat
  BY DEF TasksInv, LifeInv, BaseInv, QueueInv, Q!TypeOK
<1> HIDE DEF A, T
<1>8. Cardinality(A) = Cardinality(Ran) + Cardinality(T) - Cardinality(Ran \cap T)
  BY <1>4, <1>5, <1>6, FS_Union
<1>9. Cardinality(Ran \cap T) = 0
  BY <1>4, FS_EmptySet
<1>10. Cardinality(A) = Cardinality(Ran) + Len(queue)
  BY <1>5, <1>6, <1>7, <1>8, <1>9
<1>11. QED
  BY <1>10 DEF A, Answered

(* Once the arrays are freed no worker is left, no callback runs, and the  *)
(* totals show all that happened.                                          *)
LEMMA FreedAccounts ==
    ASSUME AccountsInv, ~allocated
    PROVE  /\ \A w \in Workers : pc[w] \in {"none", "exited"} /\ ~handle[w]
           /\ active_worker_count = 0 /\ Cardinality(WithHandle) = 0
           /\ Cardinality(Ran) = tally["succeeded"] + tally["failed"]
           /\ \A c \in Aggregated : total[c] = Saturated(Happened(c))
           /\ Happened("dequeued") = Cardinality(Ran) /\ Happened("started") = Cardinality(Ran)
           /\ Happened("succeeded") = tally["succeeded"] /\ Happened("failed") = tally["failed"]
           /\ worker_accounting_overflow <=> TooMany
<1>1. LifeInv /\ TypeOK /\ Handles /\ TasksInv /\ Cleared
  BY DEF AccountsInv, TasksInv, LifeInv, BaseInv
<1>2. ASSUME NEW w \in Workers PROVE pc[w] \in {"none", "exited"} /\ ~handle[w]
  <2>1. ~handle[w]
    BY <1>1 DEF Handles, Workers
  <2>2. QED
    BY <1>1, <2>1 DEF Handles
<1>3. InHand = {} /\ Begun = {} /\ InCallback = {} /\ Active = {} /\ WithHandle = {}
  BY <1>2 DEF InHand, Begun, InCallback, Active, WithHandle, TaskInHandLabels, SubmitLabels
<1>4. active_worker_count = 0 /\ Cardinality(WithHandle) = 0
  BY <1>1, <1>3, FS_EmptySet DEF LifeInv, Counts
<1>5. Cardinality(Ran) \in Nat /\ tally["succeeded"] \in Nat /\ tally["failed"] \in Nat
  BY <1>1, CountedFinite DEF TypeOK, Tallied
<1>6. Cardinality(Ran) = tally["succeeded"] + tally["failed"]
  BY <1>3, <1>5, FS_EmptySet DEF AccountsInv, Returned
<1>7. \A c \in Counters : Shown(c) = total[c] /\ total[c] \in 0..CounterMax
  <2>1. \A w \in Workers, c \in Counters : context[w][c] = 0
    BY <1>1 DEF Cleared
  <2>2. QED
    BY <1>1, <2>1, NothingCounted, CountsType
<1>8. Aggregated \subseteq Counters
  BY DEF Aggregated
<1>9. \A c \in Aggregated : total[c] = Saturated(Happened(c)) /\ ~ (Shown(c) > CounterMax)
  <2>1. \A n \in 0..CounterMax : Saturated(n) = n /\ ~ (n > CounterMax)
    BY SchedulerAssumption DEF Saturated
  <2>2. QED
    BY <1>7, <1>8, <2>1 DEF AccountsInv, CountersExact
<1>10. /\ Happened("dequeued") = Cardinality(Ran) /\ Happened("started") = Cardinality(Ran)
       /\ Happened("succeeded") = tally["succeeded"] /\ Happened("failed") = tally["failed"]
  BY <1>3, <1>5, FS_EmptySet DEF Happened
<1>11. worker_accounting_overflow <=> TooMany
  <2>1. ~Flagged
    BY <1>1 DEF Cleared, Flagged
  <2>2. Marked <=> worker_accounting_overflow
    BY <1>9, <2>1 DEF Marked
  <2>3. QED
    BY <2>2 DEF AccountsInv, OverflowExact
<1>12. QED
  BY <1>2, <1>4, <1>6, <1>9, <1>10, <1>11

(* What does not fit when no callback runs. *)
LEMMA TooManyAtRest ==
    ASSUME TypeOK, Cardinality(Ran) = tally["succeeded"] + tally["failed"],
           Happened("dequeued") = Cardinality(Ran), Happened("started") = Cardinality(Ran),
           Happened("succeeded") = tally["succeeded"], Happened("failed") = tally["failed"]
    PROVE  TooMany <=> \/ Cardinality(Ran) > CounterMax
                       \/ \E c \in Failures : tally[c] > CounterMax
<1>1. tally["succeeded"] \in Nat /\ tally["failed"] \in Nat /\ CounterMax \in Nat
  BY SchedulerAssumption DEF TypeOK, Tallied
<1>2. Aggregated = {"dequeued", "started", "succeeded", "failed"}
  BY DEF Aggregated, Counters
<1>3. (\E c \in Aggregated : Happened(c) > CounterMax) <=> Cardinality(Ran) > CounterMax
  BY <1>1, <1>2
<1>4. QED
  BY <1>3 DEF TooMany

(* At STOPPED the accounts balance, whatever failed or was tried again on  *)
(* the way: what was accepted has run to its end once or is still in the   *)
(* queue, and the totals say so, saturated, with worker_accounting_overflow *)
(* raised exactly when a number does not fit.                              *)
THEOREM AccountsBalance == Spec => []AccountsBalanceWhenStopped
<1>1. ASSUME AccountsInv, state = "STOPPED"
      PROVE  /\ Answered({"OK"}) = Cardinality(Ran) + Len(queue)
             /\ Cardinality(Ran) = tally["succeeded"] + tally["failed"]
             /\ total["dequeued"] = Saturated(Cardinality(Ran))
             /\ total["started"] = Saturated(Cardinality(Ran))
             /\ total["succeeded"] = Saturated(tally["succeeded"])
             /\ total["failed"] = Saturated(tally["failed"])
             /\ worker_accounting_overflow <=>
                    \/ Cardinality(Ran) > CounterMax
                    \/ \E c \in Failures : tally[c] > CounterMax
             /\ active_worker_count = 0
  <2>1. TasksInv /\ LifeInv /\ TypeOK
    BY <1>1 DEF AccountsInv, TasksInv, LifeInv, BaseInv
  <2>2. ~allocated /\ Registered = {}
    BY <1>1, <2>1 DEF LifeInv, Arrays, Gate
  <2>3. /\ \A w \in Workers : pc[w] \in {"none", "exited"}
        /\ active_worker_count = 0
        /\ Cardinality(Ran) = tally["succeeded"] + tally["failed"]
        /\ \A c \in Aggregated : total[c] = Saturated(Happened(c))
        /\ Happened("dequeued") = Cardinality(Ran) /\ Happened("started") = Cardinality(Ran)
        /\ Happened("succeeded") = tally["succeeded"] /\ Happened("failed") = tally["failed"]
    BY <1>1, <2>2, FreedAccounts
  <2>4. worker_accounting_overflow <=> TooMany
    BY <1>1, <2>2, FreedAccounts
  <2>5. Answered({"OK"}) = Cardinality(Ran) + Len(queue)
    BY <2>1, <2>2, <2>3, AcceptedRanOrQueued
  <2>6. TooMany <=> \/ Cardinality(Ran) > CounterMax
                    \/ \E c \in Failures : tally[c] > CounterMax
    BY <2>1, <2>3, TooManyAtRest
  <2>7. {"dequeued", "started", "succeeded", "failed"} \subseteq Aggregated
    BY DEF Aggregated, Counters
  <2>8. QED
    BY <2>3, <2>4, <2>5, <2>6, <2>7
<1>2. AccountsInv => AccountsBalanceWhenStopped
  BY <1>1, Zenon DEF AccountsBalanceWhenStopped, Ran, Failures
<1>3. QED
  BY AccountsInvariant, <1>2, PTL
=============================================================================
