--------------------- MODULE ConcurrentTaskQueue_proofs ---------------------
(***************************************************************************)
(* The waiter counts are exact, no wakeup is lost and the occupancy stays  *)
(* within its bounds, for any finite set of threads and any capacity, with *)
(* and without transition signaling, spurious wakeups and failed waits     *)
(* included.                                                               *)
(***************************************************************************)
EXTENDS ConcurrentTaskQueue, FiniteSetTheorems, SequenceTheorems, TLAPS

(* The inductive invariant.  NoLostWakeup alone is not inductive: that a   *)
(* sleeping consumer makes enqueue signal rests on the exact counts, and   *)
(* that an insertion leaves the queue within its capacity on the bounds.   *)
IInv == TypeOK /\ WaiterCountsExact /\ NoLostWakeup /\ HighWaterBoundsOccupancy

(* The threads whose program counter p is one of Q. *)
AtOf(p, Q) == {u \in Threads : p[u] \in Q}

(* 1 when thread t is there, 0 otherwise. *)
One(p, t, Q) == IF p[t] \in Q THEN 1 ELSE 0

(* Sets of threads are finite. *)
LEMMA AtFinite ==
    ASSUME NEW p, NEW Q
    PROVE  IsFiniteSet(AtOf(p, Q)) /\ Cardinality(AtOf(p, Q)) \in Nat
<1>1. AtOf(p, Q) \in SUBSET Threads
  BY DEF AtOf
<1>2. IsFiniteSet(AtOf(p, Q))
  BY <1>1, FS_Subset, ConcurrentTaskQueueAssumption
<1>3. QED
  BY <1>2, FS_CardinalityType

(* A set of threads that differs in one thread differs by one. *)
LEMMA CountMoves ==
    ASSUME NEW p, NEW q, NEW Q, NEW t \in Threads,
           \A u \in Threads : u # t => (q[u] \in Q <=> p[u] \in Q)
    PROVE  Cardinality(AtOf(q, Q)) =
               Cardinality(AtOf(p, Q)) - One(p, t, Q) + One(q, t, Q)
<1> DEFINE A == AtOf(p, Q)
           B == AtOf(q, Q)
<1>1. IsFiniteSet(A) /\ Cardinality(A) \in Nat /\ IsFiniteSet(B)
  BY AtFinite
<1>2. CASE p[t] \in Q /\ q[t] \in Q
  <2>1. A = B
    BY <1>2 DEF AtOf
  <2>2. QED
    BY <1>1, <1>2, <2>1 DEF One
<1>3. CASE p[t] \in Q /\ ~(q[t] \in Q)
  <2>1. B = A \ {t} /\ t \in A
    BY <1>3 DEF AtOf
  <2>2. Cardinality(B) = Cardinality(A) - 1
    BY <1>1, <2>1, FS_RemoveElement
  <2>3. QED
    BY <1>1, <1>3, <2>2 DEF One
<1>4. CASE ~(p[t] \in Q) /\ q[t] \in Q
  <2>1. B = A \cup {t} /\ t \notin A
    BY <1>4 DEF AtOf
  <2>2. Cardinality(B) = Cardinality(A) + 1
    BY <1>1, <2>1, FS_AddElement
  <2>3. QED
    BY <1>1, <1>4, <2>2 DEF One
<1>5. CASE ~(p[t] \in Q) /\ ~(q[t] \in Q)
  <2>1. A = B
    BY <1>5 DEF AtOf
  <2>2. QED
    BY <1>1, <1>5, <2>1 DEF One
<1>6. QED
  BY <1>2, <1>3, <1>4, <1>5

(* A thread moves and its signal wakes others: nobody else changes sides. *)
LEMMA MoveFacts ==
    ASSUME TypeOK, NEW t \in Threads, NEW to \in States,
           NEW woken \in SUBSET (not_empty \cup not_full), t \notin woken,
           Move(t, to, woken)
    PROVE  /\ pc' \in [Threads -> States] /\ pc'[t] = to
           /\ \A u \in Threads : u # t =>
                  /\ pc'[u] \in ProducerStates <=> pc[u] \in ProducerStates
                  /\ pc'[u] \in ConsumerStates <=> pc[u] \in ConsumerStates
                  /\ u \notin woken => pc'[u] = pc[u]
                  /\ u \in woken => pc'[u] = Awake(pc[u])
<1>1. \A u \in Threads : pc[u] \in States /\ Awake(pc[u]) \in States
  BY DEF TypeOK, Awake, States, ProducerStates, ConsumerStates
<1>2. pc' \in [Threads -> States] /\ pc'[t] = to
  BY <1>1 DEF Move
<1>3. ASSUME NEW u \in Threads, u # t
      PROVE  /\ u \notin woken => pc'[u] = pc[u]
             /\ u \in woken => pc'[u] = Awake(pc[u])
  BY <1>3 DEF Move
<1>4. \A u \in woken : pc[u] = "enqueue_wait" \/ pc[u] = "dequeue_wait"
  BY DEF not_empty, not_full, At
<1>5. \A u \in woken : /\ Awake(pc[u]) \in ProducerStates <=> pc[u] \in ProducerStates
                       /\ Awake(pc[u]) \in ConsumerStates <=> pc[u] \in ConsumerStates
  BY <1>4 DEF Awake, ProducerStates, ConsumerStates
<1>6. QED
  BY <1>2, <1>3, <1>5

(* Counting the mover in and out keeps the waiter counts exact. *)
LEMMA CountsFollow ==
    ASSUME TypeOK, WaiterCountsExact, NEW t \in Threads, NEW to \in States,
           NEW woken \in SUBSET (not_empty \cup not_full), t \notin woken,
           Move(t, to, woken),
           waiting_producers' = waiting_producers - One(pc, t, ProducerStates)
                                                  + One(pc', t, ProducerStates),
           waiting_consumers' = waiting_consumers - One(pc, t, ConsumerStates)
                                                  + One(pc', t, ConsumerStates)
    PROVE  /\ WaiterCountsExact'
           /\ waiting_producers' \in Nat /\ waiting_consumers' \in Nat
<1>1. /\ pc'[t] = to
      /\ \A u \in Threads : u # t =>
             /\ pc'[u] \in ProducerStates <=> pc[u] \in ProducerStates
             /\ pc'[u] \in ConsumerStates <=> pc[u] \in ConsumerStates
  BY MoveFacts
<1>2. /\ waiting_producers = Cardinality(AtOf(pc, ProducerStates))
      /\ waiting_consumers = Cardinality(AtOf(pc, ConsumerStates))
  BY DEF WaiterCountsExact, At, AtOf
<1>3. Cardinality(AtOf(pc', ProducerStates)) =
          Cardinality(AtOf(pc, ProducerStates)) - One(pc, t, ProducerStates)
                                                + One(pc', t, ProducerStates)
  <2>1. \A u \in Threads : u # t => (pc'[u] \in ProducerStates <=> pc[u] \in ProducerStates)
    BY <1>1
  <2>2. QED
    BY <2>1, CountMoves
<1>4. Cardinality(AtOf(pc', ConsumerStates)) =
          Cardinality(AtOf(pc, ConsumerStates)) - One(pc, t, ConsumerStates)
                                                + One(pc', t, ConsumerStates)
  <2>1. \A u \in Threads : u # t => (pc'[u] \in ConsumerStates <=> pc[u] \in ConsumerStates)
    BY <1>1
  <2>2. QED
    BY <2>1, CountMoves
<1>5. /\ waiting_producers' = Cardinality(AtOf(pc', ProducerStates))
      /\ waiting_consumers' = Cardinality(AtOf(pc', ConsumerStates))
  BY <1>1, <1>2, <1>3, <1>4
<1>6. waiting_producers' \in Nat /\ waiting_consumers' \in Nat
  BY <1>5, AtFinite
<1>7. WaiterCountsExact'
  BY <1>5 DEF WaiterCountsExact, At, AtOf
<1>8. QED
  BY <1>6, <1>7

-----------------------------------------------------------------------------
(* The parts of NoLostWakeup, over given values: the sleepers at `wait`    *)
(* are covered by woken threads at `wake`, and somebody sleeps.            *)
Covered(p, wait, wake, n) ==
    (\E u \in Threads : p[u] = wait) => n <= Cardinality(AtOf(p, {wake}))
Asleep(p) == \E u \in Threads : p[u] \in {"enqueue_wait", "dequeue_wait"}

(* NoLostWakeup is the conjunction of these parts, now and after a step. *)
LEMMA NoLostWakeupParts ==
    /\ NoLostWakeup <=>
           /\ Covered(pc, "dequeue_wait", "dequeue_wake", Len(queue))
           /\ Covered(pc, "enqueue_wait", "enqueue_wake", Capacity - Len(queue))
           /\ Asleep(pc) => ~shutdown_requested
    /\ NoLostWakeup' <=>
           /\ Covered(pc', "dequeue_wait", "dequeue_wake", Len(queue'))
           /\ Covered(pc', "enqueue_wait", "enqueue_wake", Capacity - Len(queue'))
           /\ Asleep(pc') => ~shutdown_requested'
<1>1. NoLostWakeup <=>
          /\ Covered(pc, "dequeue_wait", "dequeue_wake", Len(queue))
          /\ Covered(pc, "enqueue_wait", "enqueue_wake", Capacity - Len(queue))
          /\ Asleep(pc) => ~shutdown_requested
  <2>1. not_empty # {} <=> \E u \in Threads : pc[u] = "dequeue_wait"
    BY DEF not_empty, At
  <2>2. not_full # {} <=> \E u \in Threads : pc[u] = "enqueue_wait"
    BY DEF not_full, At
  <2>3. QED
    BY <2>1, <2>2 DEF NoLostWakeup, Covered, Asleep, At, AtOf
<1>2. NoLostWakeup' <=>
          /\ Covered(pc', "dequeue_wait", "dequeue_wake", Len(queue'))
          /\ Covered(pc', "enqueue_wait", "enqueue_wake", Capacity - Len(queue'))
          /\ Asleep(pc') => ~shutdown_requested'
  <2>1. not_empty' # {} <=> \E u \in Threads : pc'[u] = "dequeue_wait"
    BY DEF not_empty, At
  <2>2. not_full' # {} <=> \E u \in Threads : pc'[u] = "enqueue_wait"
    BY DEF not_full, At
  <2>3. QED
    BY <2>1, <2>2 DEF NoLostWakeup, Covered, Asleep, At, AtOf
<1>3. QED
  BY <1>1, <1>2

(* The sleepers stay covered when thread t moves, not to sleep, and either *)
(* it was not among the woken or the demand went down by the one it takes. *)
LEMMA CoveredQuiet ==
    ASSUME NEW p, NEW q, NEW wait, NEW wake, NEW n \in Int, NEW m \in Int,
           NEW t \in Threads,
           Covered(p, wait, wake, n),
           \A u \in Threads : u # t => (q[u] = wait <=> p[u] = wait)
                                    /\ (q[u] = wake <=> p[u] = wake),
           q[t] # wait,
           (\E u \in Threads : p[u] = wait) => m <= n - One(p, t, {wake})
    PROVE  Covered(q, wait, wake, m)
<1>1. SUFFICES ASSUME NEW v \in Threads, q[v] = wait
               PROVE  m <= Cardinality(AtOf(q, {wake}))
  BY DEF Covered
<1>2. v # t /\ p[v] = wait
  BY <1>1
<1>3. n <= Cardinality(AtOf(p, {wake})) /\ m <= n - One(p, t, {wake})
  BY <1>2 DEF Covered
<1>4. Cardinality(AtOf(q, {wake})) =
          Cardinality(AtOf(p, {wake})) - One(p, t, {wake}) + One(q, t, {wake})
  BY CountMoves
<1>5. Cardinality(AtOf(q, {wake})) \in Nat /\ Cardinality(AtOf(p, {wake})) \in Nat
  BY AtFinite
<1>6. QED
  BY <1>3, <1>4, <1>5 DEF One

(* A thread that goes to sleep on a queue with nothing for it is covered.  *)
LEMMA CoveredAtZero ==
    ASSUME NEW q, NEW wait, NEW wake, NEW m \in Int, m <= 0
    PROVE  Covered(q, wait, wake, m)
<1>1. Cardinality(AtOf(q, {wake})) \in Nat
  BY AtFinite
<1>2. QED
  BY <1>1 DEF Covered

(* One more unit of demand is covered by waking one sleeper. *)
LEMMA CoveredSignal ==
    ASSUME NEW p, NEW q, NEW wait, NEW wake, wait # wake,
           NEW n \in Int, NEW m \in Int, m <= n + 1,
           NEW t \in Threads, NEW w \in Threads, w # t,
           Covered(p, wait, wake, n),
           p[w] = wait, q[w] = wake, p[t] # wake, q[t] # wake,
           \A u \in Threads : u # t /\ u # w => q[u] = p[u]
    PROVE  Covered(q, wait, wake, m)
<1>1. n <= Cardinality(AtOf(p, {wake}))
  BY DEF Covered
<1>2. \A u \in Threads : u # w => (q[u] \in {wake} <=> p[u] \in {wake})
  OBVIOUS
<1>3. Cardinality(AtOf(q, {wake})) =
          Cardinality(AtOf(p, {wake})) - One(p, w, {wake}) + One(q, w, {wake})
  BY <1>2, CountMoves
<1>4. One(p, w, {wake}) = 0 /\ One(q, w, {wake}) = 1
  BY DEF One
<1>5. Cardinality(AtOf(p, {wake})) \in Nat
  BY AtFinite
<1>6. m <= Cardinality(AtOf(q, {wake}))
  BY <1>1, <1>3, <1>4, <1>5
<1>7. QED
  BY <1>6 DEF Covered

-----------------------------------------------------------------------------
(* The end of a call: the caller is idle and no longer counted. *)
LEMMA ReturnFacts ==
    ASSUME IInv, NEW t \in Threads, NEW code \in Codes, NEW out \in Tasks \cup {NULL},
           NEW woken \in SUBSET (not_empty \cup not_full), t \notin woken,
           Return(t, code, out, woken),
           waiting_producers' = waiting_producers - One(pc, t, ProducerStates),
           waiting_consumers' = waiting_consumers - One(pc, t, ConsumerStates)
    PROVE  /\ WaiterCountsExact'
           /\ waiting_producers' \in Nat /\ waiting_consumers' \in Nat
           /\ pc' \in [Threads -> States]
           /\ arg' \in [Threads -> Tasks \cup {NULL}]
           /\ ret' \in [Threads -> Codes \X (Tasks \cup {NULL})]
           /\ \A u \in Threads : arg'[u] # NULL <=> pc'[u] \in ProducerStates
           /\ pc'[t] = "idle"
           /\ \A u \in Threads : u # t =>
                  /\ u \notin woken => pc'[u] = pc[u]
                  /\ u \in woken => pc'[u] = Awake(pc[u])
<1>1. TypeOK /\ WaiterCountsExact
  BY DEF IInv
<1>2. "idle" \in States /\ Move(t, "idle", woken)
  BY DEF Return, States
<1>3. /\ pc' \in [Threads -> States] /\ pc'[t] = "idle"
      /\ \A u \in Threads : u # t =>
             /\ pc'[u] \in ProducerStates <=> pc[u] \in ProducerStates
             /\ u \notin woken => pc'[u] = pc[u]
             /\ u \in woken => pc'[u] = Awake(pc[u])
  BY <1>1, <1>2, MoveFacts
<1>4. One(pc', t, ProducerStates) = 0 /\ One(pc', t, ConsumerStates) = 0
  BY <1>3 DEF One, ProducerStates, ConsumerStates
<1>5. /\ One(pc, t, ProducerStates) \in Int /\ One(pc, t, ConsumerStates) \in Int
      /\ waiting_producers \in Int /\ waiting_consumers \in Int
  BY <1>1 DEF One, TypeOK
<1>6. /\ waiting_producers' = waiting_producers - One(pc, t, ProducerStates)
                                                + One(pc', t, ProducerStates)
      /\ waiting_consumers' = waiting_consumers - One(pc, t, ConsumerStates)
                                                + One(pc', t, ConsumerStates)
  BY <1>4, <1>5
<1>7. WaiterCountsExact' /\ waiting_producers' \in Nat /\ waiting_consumers' \in Nat
  BY <1>1, <1>2, <1>6, CountsFollow
<1>8. /\ arg' \in [Threads -> Tasks \cup {NULL}]
      /\ ret' \in [Threads -> Codes \X (Tasks \cup {NULL})]
  BY <1>1 DEF TypeOK, Return
<1>9. \A u \in Threads : arg'[u] # NULL <=> pc'[u] \in ProducerStates
  <2>1. arg'[t] = NULL /\ \A u \in Threads : u # t => arg'[u] = arg[u]
    BY <1>1 DEF TypeOK, Return
  <2>2. "idle" \notin ProducerStates
    BY DEF ProducerStates
  <2>3. \A u \in Threads : arg[u] # NULL <=> pc[u] \in ProducerStates
    BY <1>1 DEF TypeOK
  <2>4. QED
    BY <1>3, <2>1, <2>2, <2>3
<1>10. QED
  BY <1>3, <1>7, <1>8, <1>9

(* A call that returns without touching the queue keeps the invariant, if  *)
(* it was not woken to take its turn or the queue is closed.               *)
LEMMA RefuseKeeps ==
    ASSUME IInv, NEW t \in Threads, NEW code \in Codes, NEW out \in Tasks \cup {NULL},
           Return(t, code, out, {}),
           waiting_producers' = waiting_producers - One(pc, t, ProducerStates),
           waiting_consumers' = waiting_consumers - One(pc, t, ConsumerStates),
           UNCHANGED <<queue, shutdown_requested, high_water_mark>>,
           shutdown_requested \/ pc[t] \notin {"enqueue_wake", "dequeue_wake"}
    PROVE  IInv'
<1>1. /\ WaiterCountsExact'
      /\ waiting_producers' \in Nat /\ waiting_consumers' \in Nat
      /\ pc' \in [Threads -> States]
      /\ arg' \in [Threads -> Tasks \cup {NULL}]
      /\ ret' \in [Threads -> Codes \X (Tasks \cup {NULL})]
      /\ \A u \in Threads : arg'[u] # NULL <=> pc'[u] \in ProducerStates
      /\ pc'[t] = "idle"
      /\ \A u \in Threads : u # t => pc'[u] = pc[u]
  BY ReturnFacts
<1>2. TypeOK'
  BY <1>1 DEF IInv, TypeOK
<1>3. HighWaterBoundsOccupancy'
  BY DEF IInv, HighWaterBoundsOccupancy
<1>4. Len(queue) \in Int /\ Capacity - Len(queue) \in Int
  BY ConcurrentTaskQueueAssumption DEF IInv, TypeOK
<1>5. /\ Covered(pc, "dequeue_wait", "dequeue_wake", Len(queue))
      /\ Covered(pc, "enqueue_wait", "enqueue_wake", Capacity - Len(queue))
      /\ Asleep(pc) => ~shutdown_requested
  BY NoLostWakeupParts DEF IInv
<1>6. Asleep(pc) => One(pc, t, {"dequeue_wake"}) = 0 /\ One(pc, t, {"enqueue_wake"}) = 0
  BY <1>5 DEF One
<1>7. Covered(pc', "dequeue_wait", "dequeue_wake", Len(queue))
  <2>1. (\E u \in Threads : pc[u] = "dequeue_wait")
            => Len(queue) <= Len(queue) - One(pc, t, {"dequeue_wake"})
    BY <1>4, <1>6 DEF Asleep
  <2>2. QED
    BY <1>1, <1>4, <1>5, <2>1, CoveredQuiet
<1>8. Covered(pc', "enqueue_wait", "enqueue_wake", Capacity - Len(queue))
  <2>1. (\E u \in Threads : pc[u] = "enqueue_wait")
            => Capacity - Len(queue)
                   <= (Capacity - Len(queue)) - One(pc, t, {"enqueue_wake"})
    BY <1>4, <1>6 DEF Asleep
  <2>2. QED
    BY <1>1, <1>4, <1>5, <2>1, CoveredQuiet
<1>9. Asleep(pc') => ~shutdown_requested'
  BY <1>1, <1>5 DEF Asleep
<1>10. NoLostWakeup'
  BY <1>7, <1>8, <1>9, NoLostWakeupParts
<1>11. QED
  BY <1>1, <1>2, <1>3, <1>10 DEF IInv

-----------------------------------------------------------------------------
(* A sleeper is counted, so the transition-signaling test sees it. *)
LEMMA SleeperCounted ==
    ASSUME IInv
    PROVE  /\ not_empty # {} => waiting_consumers > 0
           /\ not_full # {} => waiting_producers > 0
<1>1. \A S : S \in SUBSET Threads =>
          IsFiniteSet(S) /\ Cardinality(S) \in Nat /\ (Cardinality(S) = 0 <=> S = {})
  BY FS_Subset, FS_CardinalityType, FS_EmptySet, ConcurrentTaskQueueAssumption
<1>2. At(ConsumerStates) \in SUBSET Threads /\ At(ProducerStates) \in SUBSET Threads
  BY DEF At
<1>3. not_empty # {} => At(ConsumerStates) # {}
  BY DEF not_empty, At, ConsumerStates
<1>4. not_full # {} => At(ProducerStates) # {}
  BY DEF not_full, At, ProducerStates
<1>5. waiting_consumers = Cardinality(At(ConsumerStates))
      /\ waiting_producers = Cardinality(At(ProducerStates))
  BY DEF IInv, WaiterCountsExact
<1>6. QED
  BY <1>1, <1>2, <1>3, <1>4, <1>5

(* An insertion wakes one sleeping consumer if there is any; a removal     *)
(* likewise a producer.                                                    *)
LEMMA SignalWakesOne ==
    ASSUME IInv
    PROVE  /\ \A woken \in WakesConsumer :
                  \/ woken = {} /\ not_empty = {}
                  \/ \E w \in not_empty : woken = {w}
           /\ \A woken \in WakesProducer :
                  \/ woken = {} /\ not_full = {}
                  \/ \E w \in not_full : woken = {w}
<1>1. not_empty # {} => SignalsNotEmpty
  BY SleeperCounted DEF SignalsNotEmpty
<1>2. not_full # {} => SignalsNotFull
  BY SleeperCounted DEF SignalsNotFull
<1>3. ASSUME NEW woken \in WakesConsumer
      PROVE  \/ woken = {} /\ not_empty = {}
             \/ \E w \in not_empty : woken = {w}
  BY <1>1, <1>3 DEF WakesConsumer, sched_condition_signal
<1>4. ASSUME NEW woken \in WakesProducer
      PROVE  \/ woken = {} /\ not_full = {}
             \/ \E w \in not_full : woken = {w}
  BY <1>2, <1>4 DEF WakesProducer, sched_condition_signal
<1>5. QED
  BY <1>3, <1>4

(* The successful end of an enqueue keeps the invariant. *)
LEMMA InsertKeeps ==
    ASSUME IInv, NEW t \in Threads, NEW task \in Tasks,
           pc[t] \in {"idle", "enqueue_wake"}, ~shutdown_requested, ~Full,
           Insert(t, task), waiting_producers' = Producers(t)
    PROVE  IInv'
<1>1. PICK woken \in WakesConsumer : Return(t, "OK", NULL, woken)
  BY DEF Insert
<1>2. \/ woken = {} /\ not_empty = {}
      \/ \E w \in not_empty : woken = {w}
  BY SignalWakesOne
<1>3. woken \in SUBSET (not_empty \cup not_full) /\ t \notin woken
  BY <1>2 DEF not_empty, At
<1>4. /\ waiting_producers' = waiting_producers - One(pc, t, ProducerStates)
      /\ waiting_consumers' = waiting_consumers - One(pc, t, ConsumerStates)
  BY DEF Insert, Producers, One, ProducerStates, ConsumerStates, IInv, TypeOK
<1>5. "OK" \in Codes /\ NULL \in Tasks \cup {NULL}
  BY DEF Codes
<1>6. /\ WaiterCountsExact'
      /\ waiting_producers' \in Nat /\ waiting_consumers' \in Nat
      /\ pc' \in [Threads -> States]
      /\ arg' \in [Threads -> Tasks \cup {NULL}]
      /\ ret' \in [Threads -> Codes \X (Tasks \cup {NULL})]
      /\ \A u \in Threads : arg'[u] # NULL <=> pc'[u] \in ProducerStates
      /\ pc'[t] = "idle"
      /\ \A u \in Threads : u # t =>
             /\ u \notin woken => pc'[u] = pc[u]
             /\ u \in woken => pc'[u] = Awake(pc[u])
  BY <1>1, <1>3, <1>4, <1>5, ReturnFacts
<1>7. /\ queue \in Seq(Tasks) /\ queue' = Append(queue, task) /\ Len(queue) \in Nat
      /\ Len(queue') = Len(queue) + 1 /\ queue' \in Seq(Tasks)
  BY DEF Insert, IInv, TypeOK
<1>8. /\ high_water_mark' = HighWaterAfterInsert /\ high_water_mark \in Nat
      /\ Len(queue) <= high_water_mark /\ high_water_mark <= Capacity
      /\ Capacity \in Nat /\ Len(queue) < Capacity
  BY <1>7, ConcurrentTaskQueueAssumption
     DEF Insert, IInv, TypeOK, HighWaterBoundsOccupancy, Full
<1>9. HighWaterBoundsOccupancy' /\ high_water_mark' \in Nat
  BY <1>7, <1>8 DEF HighWaterBoundsOccupancy, HighWaterAfterInsert
<1>10. shutdown_requested' = shutdown_requested
  BY DEF Insert
<1>11. TypeOK'
  BY <1>6, <1>7, <1>9, <1>10 DEF IInv, TypeOK
<1>12. /\ Covered(pc, "dequeue_wait", "dequeue_wake", Len(queue))
       /\ Covered(pc, "enqueue_wait", "enqueue_wake", Capacity - Len(queue))
  BY NoLostWakeupParts DEF IInv
<1>13. Covered(pc', "dequeue_wait", "dequeue_wake", Len(queue'))
  <2>1. CASE woken = {} /\ not_empty = {}
    <3>1. \A u \in Threads : pc'[u] # "dequeue_wait"
      BY <1>6, <2>1 DEF not_empty, At
    <3>2. QED
      BY <3>1 DEF Covered
  <2>2. ASSUME NEW w \in not_empty, woken = {w}
        PROVE  Covered(pc', "dequeue_wait", "dequeue_wake", Len(queue'))
    <3>1. w \in Threads /\ pc[w] = "dequeue_wait" /\ w # t
      BY DEF not_empty, At
    <3>2. pc'[w] = "dequeue_wake"
      BY <1>6, <2>2, <3>1 DEF Awake
    <3>3. \A u \in Threads : u # t /\ u # w => pc'[u] = pc[u]
      BY <1>6, <2>2
    <3>4. pc[t] # "dequeue_wake" /\ pc'[t] # "dequeue_wake"
      BY <1>6
    <3>5. Len(queue) \in Int /\ Len(queue') \in Int /\ Len(queue') <= Len(queue) + 1
      BY <1>7
    <3>6. QED
      BY <1>12, <3>1, <3>2, <3>3, <3>4, <3>5, CoveredSignal
  <2>3. QED
    BY <1>2, <2>1, <2>2
<1>14. Covered(pc', "enqueue_wait", "enqueue_wake", Capacity - Len(queue'))
  <2>1. \A u \in Threads : u # t => (pc'[u] = "enqueue_wait" <=> pc[u] = "enqueue_wait")
                                 /\ (pc'[u] = "enqueue_wake" <=> pc[u] = "enqueue_wake")
    <3>1. \A u \in woken : pc[u] = "dequeue_wait" /\ Awake(pc[u]) = "dequeue_wake"
      BY <1>2 DEF not_empty, At, Awake
    <3>2. QED
      BY <1>6, <3>1
  <2>2. Capacity - Len(queue') <= (Capacity - Len(queue)) - One(pc, t, {"enqueue_wake"})
    BY <1>7, <1>8 DEF One
  <2>3. Capacity - Len(queue') \in Int /\ Capacity - Len(queue) \in Int
    BY <1>7, <1>8
  <2>4. pc'[t] # "enqueue_wait"
    BY <1>6
  <2>5. QED
    BY <1>12, <2>1, <2>2, <2>3, <2>4, CoveredQuiet
<1>15. NoLostWakeup'
  BY <1>10, <1>13, <1>14, NoLostWakeupParts
<1>16. QED
  BY <1>6, <1>9, <1>11, <1>15 DEF IInv

(* The successful end of a dequeue keeps the invariant. *)
LEMMA RemoveKeeps ==
    ASSUME IInv, NEW t \in Threads, pc[t] \in {"idle", "dequeue_wake"}, ~Empty,
           Remove(t), waiting_consumers' = Consumers(t)
    PROVE  IInv'
<1>1. PICK woken \in WakesProducer : Return(t, "OK", Head(queue), woken)
  BY DEF Remove
<1>2. \/ woken = {} /\ not_full = {}
      \/ \E w \in not_full : woken = {w}
  BY SignalWakesOne
<1>3. woken \in SUBSET (not_empty \cup not_full) /\ t \notin woken
  BY <1>2 DEF not_full, At
<1>4. /\ waiting_producers' = waiting_producers - One(pc, t, ProducerStates)
      /\ waiting_consumers' = waiting_consumers - One(pc, t, ConsumerStates)
  BY DEF Remove, Consumers, One, ProducerStates, ConsumerStates, IInv, TypeOK
<1>5. /\ queue \in Seq(Tasks) /\ queue # <<>> /\ queue' = Tail(queue)
      /\ Len(queue) \in Nat /\ Len(queue) > 0 /\ Head(queue) \in Tasks
      /\ Len(queue') = Len(queue) - 1 /\ queue' \in Seq(Tasks)
  BY HeadTailProperties DEF Remove, Empty, IInv, TypeOK
<1>6. "OK" \in Codes /\ Head(queue) \in Tasks \cup {NULL}
  BY <1>5 DEF Codes
<1>7. /\ WaiterCountsExact'
      /\ waiting_producers' \in Nat /\ waiting_consumers' \in Nat
      /\ pc' \in [Threads -> States]
      /\ arg' \in [Threads -> Tasks \cup {NULL}]
      /\ ret' \in [Threads -> Codes \X (Tasks \cup {NULL})]
      /\ \A u \in Threads : arg'[u] # NULL <=> pc'[u] \in ProducerStates
      /\ pc'[t] = "idle"
      /\ \A u \in Threads : u # t =>
             /\ u \notin woken => pc'[u] = pc[u]
             /\ u \in woken => pc'[u] = Awake(pc[u])
  BY <1>1, <1>3, <1>4, <1>6, ReturnFacts
<1>8. /\ high_water_mark' = high_water_mark /\ high_water_mark \in Nat
      /\ Len(queue) <= high_water_mark /\ high_water_mark <= Capacity
      /\ Capacity \in Nat /\ shutdown_requested' = shutdown_requested
  BY ConcurrentTaskQueueAssumption DEF Remove, IInv, TypeOK, HighWaterBoundsOccupancy
<1>9. HighWaterBoundsOccupancy'
  BY <1>5, <1>8 DEF HighWaterBoundsOccupancy
<1>10. TypeOK'
  BY <1>5, <1>7, <1>8 DEF IInv, TypeOK
<1>11. /\ Covered(pc, "dequeue_wait", "dequeue_wake", Len(queue))
       /\ Covered(pc, "enqueue_wait", "enqueue_wake", Capacity - Len(queue))
       /\ Asleep(pc) => ~shutdown_requested
  BY NoLostWakeupParts DEF IInv
<1>12. Covered(pc', "enqueue_wait", "enqueue_wake", Capacity - Len(queue'))
  <2>1. CASE woken = {} /\ not_full = {}
    <3>1. \A u \in Threads : pc'[u] # "enqueue_wait"
      BY <1>7, <2>1 DEF not_full, At
    <3>2. QED
      BY <3>1 DEF Covered
  <2>2. ASSUME NEW w \in not_full, woken = {w}
        PROVE  Covered(pc', "enqueue_wait", "enqueue_wake", Capacity - Len(queue'))
    <3>1. w \in Threads /\ pc[w] = "enqueue_wait" /\ w # t
      BY DEF not_full, At
    <3>2. pc'[w] = "enqueue_wake"
      BY <1>7, <2>2, <3>1 DEF Awake
    <3>3. \A u \in Threads : u # t /\ u # w => pc'[u] = pc[u]
      BY <1>7, <2>2
    <3>4. pc[t] # "enqueue_wake" /\ pc'[t] # "enqueue_wake"
      BY <1>7
    <3> DEFINE n == Capacity - Len(queue)
               m == Capacity - Len(queue')
    <3>5. n \in Int /\ m \in Int /\ m <= n + 1
      BY <1>5, <1>8
    <3>6. Covered(pc, "enqueue_wait", "enqueue_wake", n)
      BY <1>11
    <3> HIDE DEF n, m
    <3>7. Covered(pc', "enqueue_wait", "enqueue_wake", m)
      BY <3>1, <3>2, <3>3, <3>4, <3>5, <3>6, CoveredSignal
    <3>8. QED
      BY <3>7 DEF m
  <2>3. QED
    BY <1>2, <2>1, <2>2
<1>13. Covered(pc', "dequeue_wait", "dequeue_wake", Len(queue'))
  <2>1. \A u \in Threads : u # t => (pc'[u] = "dequeue_wait" <=> pc[u] = "dequeue_wait")
                                 /\ (pc'[u] = "dequeue_wake" <=> pc[u] = "dequeue_wake")
    <3>1. \A u \in woken : pc[u] = "enqueue_wait" /\ Awake(pc[u]) = "enqueue_wake"
      BY <1>2 DEF not_full, At, Awake
    <3>2. QED
      BY <1>7, <3>1
  <2>2. Len(queue') <= Len(queue) - One(pc, t, {"dequeue_wake"})
    BY <1>5 DEF One
  <2>3. Len(queue') \in Int /\ Len(queue) \in Int
    BY <1>5
  <2>4. pc'[t] # "dequeue_wait"
    BY <1>7
  <2>5. QED
    BY <1>11, <2>1, <2>2, <2>3, <2>4, CoveredQuiet
<1>14. Asleep(pc') => ~shutdown_requested'
  <2>1. \A u \in Threads : pc'[u] \in {"enqueue_wait", "dequeue_wait"} => pc'[u] = pc[u]
    <3>1. \A u \in woken : Awake(pc[u]) \notin {"enqueue_wait", "dequeue_wait"}
      BY DEF Awake
    <3>2. QED
      BY <1>7, <3>1
  <2>2. QED
    BY <1>8, <1>11, <2>1 DEF Asleep
<1>15. NoLostWakeup'
  BY <1>12, <1>13, <1>14, NoLostWakeupParts
<1>16. QED
  BY <1>7, <1>9, <1>10, <1>15 DEF IInv

(* An enqueue that finds the queue full goes to sleep. *)
LEMMA ProducerSleeps ==
    ASSUME IInv, NEW t \in Threads, NEW task \in Tasks,
           pc[t] \in {"idle", "enqueue_wake"}, ProducerWaits(t),
           waiting_producers' = Producers(t) + 1,
           Move(t, "enqueue_wait", {}),
           arg' = [arg EXCEPT ![t] = task],
           UNCHANGED <<queue, shutdown_requested, waiting_consumers,
                       high_water_mark, ret>>
    PROVE  IInv'
<1>1. TypeOK /\ WaiterCountsExact /\ "enqueue_wait" \in States
  BY DEF IInv, States, ProducerStates
<1>2. /\ pc' \in [Threads -> States] /\ pc'[t] = "enqueue_wait"
      /\ \A u \in Threads : u # t => pc'[u] = pc[u]
  BY <1>1, MoveFacts
<1>3. /\ waiting_producers' = waiting_producers - One(pc, t, ProducerStates)
                                                + One(pc', t, ProducerStates)
      /\ waiting_consumers' = waiting_consumers - One(pc, t, ConsumerStates)
                                                + One(pc', t, ConsumerStates)
  BY <1>1, <1>2 DEF Producers, One, ProducerStates, ConsumerStates, TypeOK
<1>4. WaiterCountsExact' /\ waiting_producers' \in Nat /\ waiting_consumers' \in Nat
  BY <1>1, <1>3, CountsFollow
<1>5. /\ arg' \in [Threads -> Tasks \cup {NULL}]
      /\ \A u \in Threads : arg'[u] # NULL <=> pc'[u] \in ProducerStates
  BY <1>1, <1>2, ConcurrentTaskQueueAssumption DEF TypeOK, ProducerStates
<1>6. TypeOK'
  BY <1>1, <1>2, <1>4, <1>5 DEF TypeOK
<1>7. HighWaterBoundsOccupancy'
  BY DEF IInv, HighWaterBoundsOccupancy
<1>8. Len(queue) \in Int /\ Capacity - Len(queue) \in Int /\ Capacity - Len(queue) <= 0
  BY <1>1, ConcurrentTaskQueueAssumption DEF TypeOK, ProducerWaits, Full
<1>9. Covered(pc', "enqueue_wait", "enqueue_wake", Capacity - Len(queue'))
  BY <1>8, CoveredAtZero
<1>10. Covered(pc', "dequeue_wait", "dequeue_wake", Len(queue'))
  <2>1. Covered(pc, "dequeue_wait", "dequeue_wake", Len(queue))
    BY NoLostWakeupParts DEF IInv
  <2>2. Len(queue) <= Len(queue) - One(pc, t, {"dequeue_wake"})
    BY <1>8 DEF One
  <2>3. Covered(pc', "dequeue_wait", "dequeue_wake", Len(queue))
    BY <1>2, <1>8, <2>1, <2>2, CoveredQuiet
  <2>4. QED
    BY <2>3
<1>11. NoLostWakeup'
  BY <1>9, <1>10, NoLostWakeupParts DEF ProducerWaits
<1>12. QED
  BY <1>4, <1>6, <1>7, <1>11 DEF IInv

(* A dequeue that finds the queue empty goes to sleep. *)
LEMMA ConsumerSleeps ==
    ASSUME IInv, NEW t \in Threads, pc[t] \in {"idle", "dequeue_wake"},
           ~shutdown_requested, Empty,
           waiting_consumers' = Consumers(t) + 1,
           Move(t, "dequeue_wait", {}),
           UNCHANGED <<queue, shutdown_requested, waiting_producers,
                       high_water_mark, arg, ret>>
    PROVE  IInv'
<1>1. TypeOK /\ WaiterCountsExact /\ "dequeue_wait" \in States
  BY DEF IInv, States, ConsumerStates
<1>2. /\ pc' \in [Threads -> States] /\ pc'[t] = "dequeue_wait"
      /\ \A u \in Threads : u # t => pc'[u] = pc[u]
  BY <1>1, MoveFacts
<1>3. /\ waiting_producers' = waiting_producers - One(pc, t, ProducerStates)
                                                + One(pc', t, ProducerStates)
      /\ waiting_consumers' = waiting_consumers - One(pc, t, ConsumerStates)
                                                + One(pc', t, ConsumerStates)
  BY <1>1, <1>2 DEF Consumers, One, ProducerStates, ConsumerStates, TypeOK
<1>4. WaiterCountsExact' /\ waiting_producers' \in Nat /\ waiting_consumers' \in Nat
  BY <1>1, <1>3, CountsFollow
<1>5. \A u \in Threads : arg'[u] # NULL <=> pc'[u] \in ProducerStates
  BY <1>1, <1>2 DEF TypeOK, ProducerStates
<1>6. TypeOK'
  BY <1>1, <1>2, <1>4, <1>5 DEF TypeOK
<1>7. HighWaterBoundsOccupancy'
  BY DEF IInv, HighWaterBoundsOccupancy
<1>8. Len(queue) = 0 /\ Len(queue') = 0 /\ Capacity - Len(queue) \in Int
  BY <1>1, ConcurrentTaskQueueAssumption DEF TypeOK, Empty
<1>9. Covered(pc', "dequeue_wait", "dequeue_wake", Len(queue'))
  BY <1>8, CoveredAtZero
<1>10. Covered(pc', "enqueue_wait", "enqueue_wake", Capacity - Len(queue'))
  <2>1. Covered(pc, "enqueue_wait", "enqueue_wake", Capacity - Len(queue))
    BY NoLostWakeupParts DEF IInv
  <2>2. Capacity - Len(queue) <= (Capacity - Len(queue)) - One(pc, t, {"enqueue_wake"})
    BY <1>8 DEF One
  <2>3. Covered(pc', "enqueue_wait", "enqueue_wake", Capacity - Len(queue))
    BY <1>2, <1>8, <2>1, <2>2, CoveredQuiet
  <2>4. QED
    BY <2>3
<1>11. NoLostWakeup'
  BY <1>9, <1>10, NoLostWakeupParts
<1>12. QED
  BY <1>4, <1>6, <1>7, <1>11 DEF IInv

(* A wait that ends, with or without a signal, leaves the others covered. *)
LEMMA WaitEndsKeeps ==
    ASSUME IInv, NEW t \in Threads, NEW to \in States,
           \/ pc[t] = "enqueue_wait" /\ to \in {"enqueue_wake", "enqueue_fail"}
           \/ pc[t] = "dequeue_wait" /\ to \in {"dequeue_wake", "dequeue_fail"},
           Move(t, to, {}),
           UNCHANGED <<object, arg, ret>>
    PROVE  IInv'
<1>1. TypeOK /\ WaiterCountsExact
  BY DEF IInv
<1>2. /\ pc' \in [Threads -> States] /\ pc'[t] = to
      /\ \A u \in Threads : u # t => pc'[u] = pc[u]
  BY <1>1, MoveFacts
<1>3. UNCHANGED <<queue, shutdown_requested, waiting_consumers, waiting_producers,
                  high_water_mark, arg, ret>>
  BY DEF object
<1>4. /\ pc[t] \in ProducerStates <=> to \in ProducerStates
      /\ pc[t] \in ConsumerStates <=> to \in ConsumerStates
  BY DEF ProducerStates, ConsumerStates
<1>5. /\ waiting_producers' = waiting_producers - One(pc, t, ProducerStates)
                                                + One(pc', t, ProducerStates)
      /\ waiting_consumers' = waiting_consumers - One(pc, t, ConsumerStates)
                                                + One(pc', t, ConsumerStates)
  BY <1>1, <1>2, <1>3, <1>4 DEF One, TypeOK
<1>6. WaiterCountsExact'
  BY <1>1, <1>5, CountsFollow
<1>7. \A u \in Threads : arg'[u] # NULL <=> pc'[u] \in ProducerStates
  <2>1. \A u \in Threads : arg[u] # NULL <=> pc[u] \in ProducerStates
    BY <1>1 DEF TypeOK
  <2>2. QED
    BY <1>2, <1>3, <1>4, <2>1
<1>8. TypeOK'
  BY <1>1, <1>2, <1>3, <1>7 DEF TypeOK
<1>9. HighWaterBoundsOccupancy'
  BY <1>3 DEF IInv, HighWaterBoundsOccupancy
<1> DEFINE n == Capacity - Len(queue)
<1>10. /\ Covered(pc, "dequeue_wait", "dequeue_wake", Len(queue))
       /\ Covered(pc, "enqueue_wait", "enqueue_wake", n)
       /\ Asleep(pc) => ~shutdown_requested
       /\ Len(queue) \in Int /\ n \in Int
  BY NoLostWakeupParts, <1>1, ConcurrentTaskQueueAssumption DEF IInv, TypeOK
<1>11. One(pc, t, {"dequeue_wake"}) = 0 /\ One(pc, t, {"enqueue_wake"}) = 0
  BY DEF One
<1>12. pc'[t] # "enqueue_wait" /\ pc'[t] # "dequeue_wait"
  BY <1>2
<1> HIDE DEF n
<1>13. Covered(pc', "dequeue_wait", "dequeue_wake", Len(queue))
  <2>1. Len(queue) <= Len(queue) - One(pc, t, {"dequeue_wake"})
    BY <1>10, <1>11
  <2>2. QED
    BY <1>2, <1>10, <1>12, <2>1, CoveredQuiet
<1>14. Covered(pc', "enqueue_wait", "enqueue_wake", n)
  <2>1. n <= n - One(pc, t, {"enqueue_wake"})
    BY <1>10, <1>11
  <2>2. QED
    BY <1>2, <1>10, <1>12, <2>1, CoveredQuiet
<1>15. Asleep(pc') => ~shutdown_requested'
  BY <1>2, <1>3, <1>10, <1>12 DEF Asleep
<1>16. NoLostWakeup'
  BY <1>3, <1>13, <1>14, <1>15, NoLostWakeupParts DEF n
<1>17. QED
  BY <1>6, <1>8, <1>9, <1>16 DEF IInv

(* Shutdown wakes everybody: nobody is left asleep. *)
LEMMA ShutdownKeeps ==
    ASSUME IInv, NEW t \in Threads, pc[t] = "idle", concurrent_task_queue_shutdown(t)
    PROVE  IInv'
<1> DEFINE woken == not_empty \cup not_full
<1>1. Return(t, "OK", NULL, woken)
  BY DEF concurrent_task_queue_shutdown, sched_condition_broadcast
<1>2. /\ shutdown_requested' = TRUE
      /\ UNCHANGED <<queue, waiting_consumers, waiting_producers, high_water_mark>>
  BY DEF concurrent_task_queue_shutdown
<1>3. t \notin woken /\ "OK" \in Codes
  BY DEF not_empty, not_full, At, Codes
<1>4. /\ waiting_producers' = waiting_producers - One(pc, t, ProducerStates)
      /\ waiting_consumers' = waiting_consumers - One(pc, t, ConsumerStates)
  BY <1>2 DEF One, ProducerStates, ConsumerStates, IInv, TypeOK
<1>5. /\ WaiterCountsExact'
      /\ waiting_producers' \in Nat /\ waiting_consumers' \in Nat
      /\ pc' \in [Threads -> States]
      /\ arg' \in [Threads -> Tasks \cup {NULL}]
      /\ ret' \in [Threads -> Codes \X (Tasks \cup {NULL})]
      /\ \A u \in Threads : arg'[u] # NULL <=> pc'[u] \in ProducerStates
      /\ pc'[t] = "idle"
      /\ \A u \in Threads : u # t =>
             /\ u \notin woken => pc'[u] = pc[u]
             /\ u \in woken => pc'[u] = Awake(pc[u])
  BY <1>1, <1>3, <1>4, ReturnFacts
<1>6. TypeOK'
  BY <1>2, <1>5 DEF IInv, TypeOK
<1>7. HighWaterBoundsOccupancy'
  BY <1>2 DEF IInv, HighWaterBoundsOccupancy
<1>8. \A u \in Threads : pc'[u] # "enqueue_wait" /\ pc'[u] # "dequeue_wait"
  <2>1. \A u \in Threads : u \notin woken =>
            pc[u] # "enqueue_wait" /\ pc[u] # "dequeue_wait"
    BY DEF not_empty, not_full, At
  <2>2. \A u \in Threads : Awake(pc[u]) # "enqueue_wait" /\ Awake(pc[u]) # "dequeue_wait"
    BY DEF Awake
  <2>3. QED
    BY <1>5, <2>1, <2>2
<1>9. NoLostWakeup'
  BY <1>8, NoLostWakeupParts DEF Covered, Asleep
<1>10. QED
  BY <1>5, <1>6, <1>7, <1>9 DEF IInv

-----------------------------------------------------------------------------
(* A critical section of enqueue keeps the invariant. *)
LEMMA EnqueueKeeps ==
    ASSUME IInv, NEW t \in Threads, NEW task \in Tasks,
           pc[t] \in {"idle", "enqueue_wake"}, concurrent_task_queue_enqueue(t, task)
    PROVE  IInv'
<1>1. Producers(t) = waiting_producers - One(pc, t, ProducerStates)
      /\ waiting_consumers - One(pc, t, ConsumerStates) = waiting_consumers
  BY DEF Producers, One, ProducerStates, ConsumerStates, IInv, TypeOK
<1>2. CASE /\ ProducerWaits(t)
           /\ waiting_producers' = Producers(t) + 1
           /\ Move(t, "enqueue_wait", {})
           /\ arg' = [arg EXCEPT ![t] = task]
           /\ UNCHANGED <<queue, shutdown_requested, waiting_consumers,
                          high_water_mark, ret>>
  BY <1>2, ProducerSleeps
<1>3. CASE /\ shutdown_requested
           /\ waiting_producers' = Producers(t)
           /\ Return(t, "SHUTDOWN", NULL, {})
           /\ UNCHANGED <<queue, shutdown_requested, waiting_consumers,
                          high_water_mark>>
  <2>1. "SHUTDOWN" \in Codes
    BY DEF Codes
  <2>2. QED
    BY <1>1, <1>3, <2>1, RefuseKeeps
<1>4. CASE /\ ~shutdown_requested /\ ~ProducerWaits(t)
           /\ waiting_producers' = Producers(t)
           /\ Insert(t, task)
  <2>1. ~Full
    BY <1>4 DEF ProducerWaits
  <2>2. QED
    BY <1>4, <2>1, InsertKeeps
<1>5. QED
  BY <1>2, <1>3, <1>4 DEF concurrent_task_queue_enqueue

(* So does dequeue. *)
LEMMA DequeueKeeps ==
    ASSUME IInv, NEW t \in Threads,
           pc[t] \in {"idle", "dequeue_wake"}, concurrent_task_queue_dequeue(t)
    PROVE  IInv'
<1>1. Consumers(t) = waiting_consumers - One(pc, t, ConsumerStates)
      /\ waiting_producers - One(pc, t, ProducerStates) = waiting_producers
  BY DEF Consumers, One, ProducerStates, ConsumerStates, IInv, TypeOK
<1>2. CASE /\ ~shutdown_requested /\ Empty
           /\ waiting_consumers' = Consumers(t) + 1
           /\ Move(t, "dequeue_wait", {})
           /\ UNCHANGED <<queue, shutdown_requested, waiting_producers,
                          high_water_mark, arg, ret>>
  BY <1>2, ConsumerSleeps
<1>3. CASE /\ shutdown_requested /\ NothingToTake
           /\ waiting_consumers' = Consumers(t)
           /\ Return(t, "SHUTDOWN", NULL, {})
           /\ UNCHANGED <<queue, shutdown_requested, waiting_producers,
                          high_water_mark>>
  <2>1. "SHUTDOWN" \in Codes
    BY DEF Codes
  <2>2. QED
    BY <1>1, <1>3, <2>1, RefuseKeeps
<1>4. CASE ~NothingToTake /\ waiting_consumers' = Consumers(t) /\ Remove(t)
  BY <1>4, RemoveKeeps DEF NothingToTake
<1>5. QED
  BY <1>2, <1>3, <1>4 DEF concurrent_task_queue_dequeue

(* A call that returns at once and leaves the object alone. *)
LEMMA ImmediateKeeps ==
    ASSUME IInv, NEW t \in Threads, pc[t] = "idle", NEW code \in Codes,
           NEW out \in Tasks \cup {NULL}, Return(t, code, out, {}), UNCHANGED object
    PROVE  IInv'
<1>1. /\ waiting_producers' = waiting_producers - One(pc, t, ProducerStates)
      /\ waiting_consumers' = waiting_consumers - One(pc, t, ConsumerStates)
      /\ UNCHANGED <<queue, shutdown_requested, high_water_mark>>
  BY DEF One, ProducerStates, ConsumerStates, IInv, TypeOK, object
<1>2. QED
  BY <1>1, RefuseKeeps

(* A new call, whichever it is. *)
LEMMA CallKeeps ==
    ASSUME IInv, NEW t \in Threads, Call(t)
    PROVE  IInv'
<1>1. pc[t] = "idle"
  BY DEF Call
<1>2. /\ waiting_producers = Producers(t) /\ waiting_consumers = Consumers(t)
      /\ NULL \in Tasks \cup {NULL}
      /\ {"FULL", "EMPTY", "SHUTDOWN", "OK", "INVALID_ARGUMENT"} \subseteq Codes
  BY <1>1 DEF Producers, Consumers, IInv, TypeOK, Codes
<1>3. ASSUME NEW task \in Tasks, concurrent_task_queue_enqueue(t, task)
      PROVE  IInv'
  BY <1>1, <1>3, EnqueueKeeps
<1>4. ASSUME NEW task \in Tasks, concurrent_task_queue_try_enqueue(t, task)
      PROVE  IInv'
  <2>1. CASE Return(t, "SHUTDOWN", NULL, {}) /\ UNCHANGED object
    BY <1>1, <1>2, <2>1, ImmediateKeeps
  <2>2. CASE Return(t, "FULL", NULL, {}) /\ UNCHANGED object
    BY <1>1, <1>2, <2>2, ImmediateKeeps
  <2>3. CASE /\ ~shutdown_requested /\ ~Full
             /\ Insert(t, task) /\ UNCHANGED waiting_producers
    BY <1>1, <1>2, <2>3, InsertKeeps
  <2>4. QED
    BY <1>4, <2>1, <2>2, <2>3 DEF concurrent_task_queue_try_enqueue
<1>5. CASE concurrent_task_queue_dequeue(t)
  BY <1>1, <1>5, DequeueKeeps
<1>6. CASE concurrent_task_queue_try_dequeue(t)
  <2>1. ASSUME NEW code \in {"SHUTDOWN", "EMPTY"},
               Return(t, code, NULL, {}), UNCHANGED object
        PROVE  IInv'
    BY <1>1, <1>2, <2>1, ImmediateKeeps
  <2>2. CASE ~Empty /\ Remove(t) /\ UNCHANGED waiting_consumers
    BY <1>1, <1>2, <2>2, RemoveKeeps
  <2>3. QED
    BY <1>6, <2>1, <2>2 DEF concurrent_task_queue_try_dequeue
<1>7. CASE concurrent_task_queue_try_peek(t)
  <2>1. UNCHANGED object
    BY <1>7 DEF concurrent_task_queue_try_peek
  <2>2. ASSUME NEW code \in {"SHUTDOWN", "EMPTY"}, Return(t, code, NULL, {})
        PROVE  IInv'
    BY <1>1, <1>2, <2>1, <2>2, ImmediateKeeps
  <2>3. CASE ~Empty /\ Return(t, "OK", Head(queue), {})
    <3>1. Head(queue) \in Tasks \cup {NULL}
      BY <2>3, HeadTailProperties DEF Empty, IInv, TypeOK
    <3>2. QED
      BY <1>1, <1>2, <2>1, <2>3, <3>1, ImmediateKeeps
  <2>4. QED
    BY <1>7, <2>2, <2>3 DEF concurrent_task_queue_try_peek
<1>8. CASE concurrent_task_queue_shutdown(t)
  BY <1>1, <1>8, ShutdownKeeps
<1>9. CASE InvalidArgument(t)
  BY <1>1, <1>2, <1>9, ImmediateKeeps DEF InvalidArgument
<1>10. QED
  BY <1>3, <1>4, <1>5, <1>6, <1>7, <1>8, <1>9 DEF Call

(* A call that goes on after its wait. *)
LEMMA ResumeKeeps ==
    ASSUME IInv, NEW t \in Threads, Resume(t)
    PROVE  IInv'
<1>1. CASE pc[t] = "enqueue_wake" /\ concurrent_task_queue_enqueue(t, arg[t])
  <2>1. arg[t] \in Tasks
    BY <1>1 DEF IInv, TypeOK, ProducerStates
  <2>2. QED
    BY <1>1, <2>1, EnqueueKeeps
<1>2. CASE pc[t] = "dequeue_wake" /\ concurrent_task_queue_dequeue(t)
  BY <1>2, DequeueKeeps
<1>3. CASE FailedWaitReturns(t)
  <2>1. pc[t] \in {"enqueue_fail", "dequeue_fail"} /\ "SYSTEM" \in Codes
    BY <1>3 DEF FailedWaitReturns, Codes
  <2>2. /\ waiting_producers' = waiting_producers - One(pc, t, ProducerStates)
        /\ waiting_consumers' = waiting_consumers - One(pc, t, ConsumerStates)
    BY <1>3 DEF FailedWaitReturns, One, ProducerStates, ConsumerStates, IInv, TypeOK
  <2>3. /\ Return(t, "SYSTEM", NULL, {})
        /\ UNCHANGED <<queue, shutdown_requested, high_water_mark>>
    BY <1>3 DEF FailedWaitReturns
  <2>4. QED
    BY <2>1, <2>2, <2>3, RefuseKeeps
<1>4. QED
  BY <1>1, <1>2, <1>3 DEF Resume

(* The end of a wait itself. *)
LEMMA WaitStepKeeps ==
    ASSUME IInv, NEW t \in Threads, SpuriousWakeup(t) \/ WaitFails(t)
    PROVE  IInv'
<1>1. /\ "enqueue_wake" \in States /\ "dequeue_wake" \in States
      /\ "enqueue_fail" \in States /\ "dequeue_fail" \in States
  BY DEF States, ProducerStates, ConsumerStates
<1>2. CASE SpuriousWakeup(t)
  <2>1. \/ pc[t] = "enqueue_wait" /\ Awake(pc[t]) = "enqueue_wake"
        \/ pc[t] = "dequeue_wait" /\ Awake(pc[t]) = "dequeue_wake"
    BY <1>2 DEF SpuriousWakeup, Awake
  <2>2. Move(t, Awake(pc[t]), {}) /\ UNCHANGED <<object, arg, ret>>
    BY <1>2 DEF SpuriousWakeup
  <2>3. QED
    BY <1>1, <2>1, <2>2, WaitEndsKeeps
<1>3. CASE WaitFails(t)
  BY <1>1, <1>3, WaitEndsKeeps DEF WaitFails
<1>4. QED
  BY <1>2, <1>3

(* The zero-filled object. *)
LEMMA InitInv == Init => IInv
<1> SUFFICES ASSUME Init PROVE IInv
  OBVIOUS
<1>1. TypeOK
  <2>1. queue \in Seq(Tasks) /\ pc \in [Threads -> States]
    BY DEF Init, States
  <2>2. /\ arg \in [Threads -> Tasks \cup {NULL}]
        /\ ret \in [Threads -> Codes \X (Tasks \cup {NULL})]
    BY DEF Init, Codes
  <2>3. \A t \in Threads : arg[t] # NULL <=> pc[t] \in ProducerStates
    BY DEF Init, ProducerStates
  <2>4. shutdown_requested \in BOOLEAN
    BY DEF Init
  <2>5. QED
    BY <2>1, <2>2, <2>3, <2>4 DEF Init, TypeOK
<1>2. At(ProducerStates) = {} /\ At(ConsumerStates) = {}
  BY DEF Init, At, ProducerStates, ConsumerStates
<1>3. WaiterCountsExact
  BY <1>2, FS_EmptySet DEF Init, WaiterCountsExact
<1>4. not_empty = {} /\ not_full = {}
  BY DEF Init, not_empty, not_full, At
<1>5. NoLostWakeup
  BY <1>4 DEF NoLostWakeup
<1>6. HighWaterBoundsOccupancy
  BY ConcurrentTaskQueueAssumption DEF Init, HighWaterBoundsOccupancy
<1>7. QED
  BY <1>1, <1>3, <1>5, <1>6 DEF IInv

(* Every step of every thread. *)
LEMMA StepInv == IInv /\ [Next]_vars => IInv'
<1> SUFFICES ASSUME IInv, [Next]_vars PROVE IInv'
  OBVIOUS
<1>1. ASSUME NEW t \in Threads, Call(t) \/ Resume(t) \/ SpuriousWakeup(t) \/ WaitFails(t)
      PROVE  IInv'
  BY <1>1, CallKeeps, ResumeKeeps, WaitStepKeeps
<1>2. CASE UNCHANGED vars
  BY <1>2 DEF vars, IInv, TypeOK, WaiterCountsExact, NoLostWakeup,
              HighWaterBoundsOccupancy, At, not_empty, not_full
<1>3. QED
  BY <1>1, <1>2 DEF Next

(* The inductive invariant holds after every step of every thread. *)
THEOREM Invariance == Spec => []IInv
BY InitInv, StepInv, PTL DEF Spec

(* The fields have their types, and exactly the threads inside a blocked   *)
(* concurrent_task_queue_enqueue hold a task to insert.                    *)
THEOREM TypeCorrect == Spec => []TypeOK
<1>1. IInv => TypeOK
  BY DEF IInv
<1>2. QED
  BY <1>1, Invariance, PTL

(* waiting_producers and waiting_consumers count exactly the threads in    *)
(* the wait loops of enqueue and dequeue, on the error paths too.          *)
THEOREM CountsAreExact == Spec => []WaiterCountsExact
<1>1. IInv => WaiterCountsExact
  BY DEF IInv
<1>2. QED
  BY <1>1, Invariance, PTL

(* The signals of enqueue, dequeue and shutdown never leave a thread       *)
(* asleep that has something to do, for any number of threads.             *)
THEOREM WakeupsAreNotLost == Spec => []NoLostWakeup
<1>1. IInv => NoLostWakeup
  BY DEF IInv
<1>2. QED
  BY <1>1, Invariance, PTL

(* The occupancy never exceeds the high-water mark, nor that the capacity. *)
THEOREM OccupancyIsBounded == Spec => []HighWaterBoundsOccupancy
<1>1. IInv => HighWaterBoundsOccupancy
  BY DEF IInv
<1>2. QED
  BY <1>1, Invariance, PTL

-----------------------------------------------------------------------------
(***************************************************************************)
(* The mutex, the wait loops and the signals of concurrent_task_queue.c    *)
(* implement a queue whose calls are atomic (ClosableQueue), for any       *)
(* finite set of threads and any capacity.                                 *)
(***************************************************************************)

(* Only a failing sched_condition_wait puts a thread on the error path. *)
FailuresAllowed ==
    \A t \in Threads : pc[t] \in {"enqueue_fail", "dequeue_fail"} => WaitFailures

RInv == IInv /\ FailuresAllowed

(* A thread's unfinished call changes only when it moves. *)
LEMMA PendingMoves ==
    ASSUME TypeOK, NEW t \in Threads, NEW to \in States,
           NEW woken \in SUBSET (not_empty \cup not_full), t \notin woken,
           Move(t, to, woken)
    PROVE  Pending' = [Pending EXCEPT ![t] = IF to \in ProducerStates THEN "put"
                                             ELSE IF to \in ConsumerStates THEN "take"
                                             ELSE "none"]
<1>1. /\ pc'[t] = to
      /\ \A u \in Threads : u # t =>
             /\ pc'[u] \in ProducerStates <=> pc[u] \in ProducerStates
             /\ pc'[u] \in ConsumerStates <=> pc[u] \in ConsumerStates
  BY MoveFacts
<1>2. QED
  BY <1>1 DEF Pending

(* The thread's call as the abstract queue sees it. *)
LEMMA PendingAt ==
    ASSUME NEW t \in Threads
    PROVE  /\ pc[t] = "idle" => Pending[t] = "none"
           /\ pc[t] \in ProducerStates => Pending[t] = "put"
           /\ pc[t] \in ConsumerStates => Pending[t] = "take"
BY DEF Pending, ProducerStates, ConsumerStates

(* A return ends the abstract call with the same answer. *)
LEMMA ReturnFinishes ==
    ASSUME TypeOK, NEW t \in Threads, NEW code, NEW out,
           NEW woken \in SUBSET (not_empty \cup not_full), t \notin woken,
           Return(t, code, out, woken)
    PROVE  Abstract!Finish(t, code, out)
<1>1. "idle" \in States /\ "idle" \notin ProducerStates /\ "idle" \notin ConsumerStates
  BY DEF States, ProducerStates, ConsumerStates
<1>2. Pending' = [Pending EXCEPT ![t] = "none"]
  BY <1>1, PendingMoves DEF Return
<1>3. QED
  BY <1>2 DEF Return, Abstract!Finish

(* An insertion is the abstract put of the task the caller came with. *)
LEMMA InsertIsPut ==
    ASSUME IInv, NEW t \in Threads, NEW task \in Tasks,
           pc[t] = "idle" \/ (pc[t] = "enqueue_wake" /\ arg[t] = task),
           ~shutdown_requested, ~Full, Insert(t, task)
    PROVE  Abstract!Put(t, task)
<1>1. PICK woken \in WakesConsumer : Return(t, "OK", NULL, woken)
  BY DEF Insert
<1>2. \/ woken = {} /\ not_empty = {}
      \/ \E w \in not_empty : woken = {w}
  BY SignalWakesOne
<1>3. woken \in SUBSET (not_empty \cup not_full) /\ t \notin woken
  BY <1>2 DEF not_empty, At
<1>4. Abstract!Finish(t, "OK", NULL)
  BY <1>1, <1>3, ReturnFinishes DEF IInv
<1>5. Abstract!MayPut(t, task)
  BY PendingAt DEF Abstract!MayPut, ProducerStates
<1>6. Len(queue) < Capacity
  BY ConcurrentTaskQueueAssumption DEF IInv, TypeOK, HighWaterBoundsOccupancy, Full
<1>7. QED
  BY <1>4, <1>5, <1>6 DEF Insert, Abstract!Put

(* A removal is the abstract take. *)
LEMMA RemoveIsTake ==
    ASSUME IInv, NEW t \in Threads, pc[t] \in {"idle", "dequeue_wake"}, ~Empty, Remove(t)
    PROVE  Abstract!Take(t)
<1>1. PICK woken \in WakesProducer : Return(t, "OK", Head(queue), woken)
  BY DEF Remove
<1>2. \/ woken = {} /\ not_full = {}
      \/ \E w \in not_full : woken = {w}
  BY SignalWakesOne
<1>3. woken \in SUBSET (not_empty \cup not_full) /\ t \notin woken
  BY <1>2 DEF not_full, At
<1>4. Abstract!Finish(t, "OK", Head(queue))
  BY <1>1, <1>3, ReturnFinishes DEF IInv
<1>5. Abstract!MayTake(t)
  BY PendingAt DEF Abstract!MayTake, ConsumerStates
<1>6. QED
  BY <1>4, <1>5 DEF Remove, Empty, Abstract!Take

-----------------------------------------------------------------------------
(* A critical section of enqueue: the abstract call is suspended, refused, *)
(* done, or (a wakeup that finds the queue full again) still pending.      *)
LEMMA EnqueueRefines ==
    ASSUME IInv, NEW t \in Threads, NEW task \in Tasks,
           pc[t] = "idle" \/ (pc[t] = "enqueue_wake" /\ arg[t] = task),
           concurrent_task_queue_enqueue(t, task)
    PROVE  Abstract!Next \/ UNCHANGED Abstract!vars
<1>1. TypeOK /\ Abstract!MayPut(t, task)
  BY PendingAt DEF IInv, Abstract!MayPut, ProducerStates
<1>2. CASE /\ ProducerWaits(t)
           /\ Move(t, "enqueue_wait", {})
           /\ arg' = [arg EXCEPT ![t] = task]
           /\ UNCHANGED <<queue, shutdown_requested, ret>>
  <2>1. "enqueue_wait" \in States /\ "enqueue_wait" \in ProducerStates
    BY DEF States, ProducerStates
  <2>2. Pending' = [Pending EXCEPT ![t] = "put"]
    BY <1>1, <1>2, <2>1, PendingMoves
  <2>3. CASE pc[t] = "idle"
    <3>1. Abstract!Suspend(t, "put", task) /\ Len(queue) = Capacity
      BY <1>2, <2>2, <2>3, PendingAt DEF Abstract!Suspend, ProducerWaits, Full
    <3>2. QED
      BY <3>1 DEF Abstract!Next
  <2>4. CASE pc[t] = "enqueue_wake" /\ arg[t] = task
    <3>1. Pending[t] = "put"
      BY <2>4, PendingAt DEF ProducerStates
    <3>2. Pending' = Pending
      BY <2>2, <3>1 DEF Pending
    <3>3. arg' = arg
      BY <1>1, <1>2, <2>4 DEF TypeOK
    <3>4. QED
      BY <1>2, <3>2, <3>3 DEF Abstract!vars
  <2>5. QED
    BY <2>3, <2>4
<1>3. CASE /\ shutdown_requested
           /\ Return(t, "SHUTDOWN", NULL, {})
           /\ UNCHANGED <<queue, shutdown_requested>>
  <2>1. Abstract!Finish(t, "SHUTDOWN", NULL)
    BY <1>1, <1>3, ReturnFinishes
  <2>2. Abstract!PutClosed(t, task)
    BY <1>1, <1>3, <2>1 DEF Abstract!PutClosed
  <2>3. QED
    BY <2>2 DEF Abstract!Next
<1>4. CASE ~shutdown_requested /\ ~ProducerWaits(t) /\ Insert(t, task)
  <2>1. Abstract!Put(t, task)
    BY <1>4, InsertIsPut DEF ProducerWaits
  <2>2. QED
    BY <2>1 DEF Abstract!Next
<1>5. QED
  BY <1>2, <1>3, <1>4 DEF concurrent_task_queue_enqueue

(* A critical section of dequeue. *)
LEMMA DequeueRefines ==
    ASSUME IInv, NEW t \in Threads, pc[t] \in {"idle", "dequeue_wake"},
           concurrent_task_queue_dequeue(t)
    PROVE  Abstract!Next \/ UNCHANGED Abstract!vars
<1>1. TypeOK /\ Abstract!MayTake(t)
  BY PendingAt DEF IInv, Abstract!MayTake, ConsumerStates
<1>2. CASE /\ ~shutdown_requested /\ Empty
           /\ Move(t, "dequeue_wait", {})
           /\ UNCHANGED <<queue, shutdown_requested, arg, ret>>
  <2>1. /\ "dequeue_wait" \in States /\ "dequeue_wait" \notin ProducerStates
        /\ "dequeue_wait" \in ConsumerStates
    BY DEF States, ProducerStates, ConsumerStates
  <2>2. Pending' = [Pending EXCEPT ![t] = "take"]
    BY <1>1, <1>2, <2>1, PendingMoves
  <2>3. CASE pc[t] = "idle"
    <3>1. arg[t] = NULL
      BY <1>1, <2>3 DEF TypeOK, ProducerStates
    <3>2. arg' = [arg EXCEPT ![t] = NULL]
      BY <1>1, <1>2, <3>1 DEF TypeOK
    <3>3. Abstract!Suspend(t, "take", NULL) /\ queue = <<>>
      BY <1>2, <2>2, <2>3, <3>2, PendingAt DEF Abstract!Suspend, Empty
    <3>4. QED
      BY <3>3 DEF Abstract!Next
  <2>4. CASE pc[t] = "dequeue_wake"
    <3>1. Pending[t] = "take"
      BY <2>4, PendingAt DEF ConsumerStates
    <3>2. Pending' = Pending
      BY <2>2, <3>1 DEF Pending
    <3>3. QED
      BY <1>2, <3>2 DEF Abstract!vars
  <2>5. QED
    BY <2>3, <2>4
<1>3. CASE /\ shutdown_requested /\ NothingToTake
           /\ Return(t, "SHUTDOWN", NULL, {})
           /\ UNCHANGED <<queue, shutdown_requested>>
  <2>1. Abstract!Finish(t, "SHUTDOWN", NULL)
    BY <1>1, <1>3, ReturnFinishes
  <2>2. Abstract!TakeClosed(t)
    BY <1>1, <1>3, <2>1 DEF Abstract!TakeClosed, NothingToTake, Empty
  <2>3. QED
    BY <2>2 DEF Abstract!Next
<1>4. CASE ~NothingToTake /\ Remove(t)
  <2>1. Abstract!Take(t)
    BY <1>4, RemoveIsTake DEF NothingToTake
  <2>2. QED
    BY <2>1 DEF Abstract!Next
<1>5. QED
  BY <1>2, <1>3, <1>4 DEF concurrent_task_queue_dequeue

(* A new call is the abstract call of the same name. *)
LEMMA CallRefines ==
    ASSUME IInv, NEW t \in Threads, Call(t)
    PROVE  Abstract!Next \/ UNCHANGED Abstract!vars
<1>1. TypeOK /\ pc[t] = "idle" /\ Pending[t] = "none"
  BY PendingAt DEF Call, IInv
<1>2. \A code, out : Return(t, code, out, {}) => Abstract!Finish(t, code, out)
  BY <1>1, ReturnFinishes
<1>3. ASSUME UNCHANGED object PROVE UNCHANGED <<queue, shutdown_requested>>
  BY <1>3 DEF object
<1>4. ASSUME Empty, UNCHANGED object,
             Return(t, IF shutdown_requested THEN "SHUTDOWN" ELSE "EMPTY", NULL, {})
      PROVE  Abstract!Next
  <2>1. CASE shutdown_requested
    <3>1. Abstract!Finish(t, "SHUTDOWN", NULL)
      BY <1>2, <1>4, <2>1
    <3>2. Abstract!TakeClosed(t)
      BY <1>1, <1>3, <1>4, <2>1, <3>1 DEF Abstract!TakeClosed, Abstract!MayTake, Empty
    <3>3. QED
      BY <3>2 DEF Abstract!Next
  <2>2. CASE ~shutdown_requested
    <3>1. Abstract!Finish(t, "EMPTY", NULL)
      BY <1>2, <1>4, <2>2
    <3>2. Abstract!Immediate(t)
      BY <1>1, <1>3, <1>4, <2>2, <3>1 DEF Abstract!Immediate, Empty
    <3>3. QED
      BY <3>2 DEF Abstract!Next
  <2>3. QED
    BY <2>1, <2>2
<1>5. ASSUME NEW task \in Tasks, concurrent_task_queue_enqueue(t, task)
      PROVE  Abstract!Next \/ UNCHANGED Abstract!vars
  BY <1>1, <1>5, EnqueueRefines
<1>6. ASSUME NEW task \in Tasks, concurrent_task_queue_try_enqueue(t, task)
      PROVE  Abstract!Next
  <2>1. CASE shutdown_requested /\ Return(t, "SHUTDOWN", NULL, {}) /\ UNCHANGED object
    <3>1. Abstract!PutClosed(t, task)
      BY <1>1, <1>2, <1>3, <2>1 DEF Abstract!PutClosed, Abstract!MayPut
    <3>2. QED
      BY <3>1 DEF Abstract!Next
  <2>2. CASE /\ ~shutdown_requested /\ Full
             /\ Return(t, "FULL", NULL, {}) /\ UNCHANGED object
    <3>1. Abstract!Immediate(t)
      BY <1>1, <1>2, <1>3, <2>2 DEF Abstract!Immediate, Full
    <3>2. QED
      BY <3>1 DEF Abstract!Next
  <2>3. CASE ~shutdown_requested /\ ~Full /\ Insert(t, task)
    <3>1. Abstract!Put(t, task)
      BY <1>1, <2>3, InsertIsPut
    <3>2. QED
      BY <3>1 DEF Abstract!Next
  <2>4. QED
    BY <1>6, <2>1, <2>2, <2>3 DEF concurrent_task_queue_try_enqueue
<1>7. CASE concurrent_task_queue_dequeue(t)
  BY <1>1, <1>7, DequeueRefines
<1>8. CASE concurrent_task_queue_try_dequeue(t)
  <2>1. CASE ~Empty /\ Remove(t)
    <3>1. Abstract!Take(t)
      BY <1>1, <2>1, RemoveIsTake
    <3>2. QED
      BY <3>1 DEF Abstract!Next
  <2>2. QED
    BY <1>4, <1>8, <2>1 DEF concurrent_task_queue_try_dequeue
<1>9. CASE concurrent_task_queue_try_peek(t)
  <2>1. CASE ~Empty /\ Return(t, "OK", Head(queue), {}) /\ UNCHANGED object
    <3>1. Abstract!Immediate(t)
      BY <1>1, <1>2, <1>3, <2>1 DEF Abstract!Immediate, Empty
    <3>2. QED
      BY <3>1 DEF Abstract!Next
  <2>2. QED
    BY <1>4, <1>9, <2>1 DEF concurrent_task_queue_try_peek
<1>10. CASE concurrent_task_queue_shutdown(t)
  <2>1. Return(t, "OK", NULL, not_empty \cup not_full)
    BY <1>10 DEF concurrent_task_queue_shutdown, sched_condition_broadcast
  <2>2. t \notin not_empty \cup not_full
    BY <1>1 DEF not_empty, not_full, At
  <2>3. Abstract!Finish(t, "OK", NULL)
    BY <1>1, <2>1, <2>2, ReturnFinishes
  <2>4. Abstract!Close(t)
    BY <1>1, <1>10, <2>3 DEF Abstract!Close, concurrent_task_queue_shutdown
  <2>5. QED
    BY <2>4 DEF Abstract!Next
<1>11. CASE InvalidArgument(t)
  <2>1. Abstract!Finish(t, "INVALID_ARGUMENT", NULL) /\ UNCHANGED object
    BY <1>2, <1>11 DEF InvalidArgument
  <2>2. Abstract!Immediate(t)
    BY <1>1, <1>3, <2>1 DEF Abstract!Immediate
  <2>3. QED
    BY <2>2 DEF Abstract!Next
<1>12. QED
  BY <1>5, <1>6, <1>7, <1>8, <1>9, <1>10, <1>11 DEF Call

(* A call that goes on after its wait finishes as the pending one does. *)
LEMMA ResumeRefines ==
    ASSUME RInv, NEW t \in Threads, Resume(t)
    PROVE  Abstract!Next \/ UNCHANGED Abstract!vars
<1>1. IInv /\ TypeOK
  BY DEF RInv, IInv
<1>2. CASE pc[t] = "enqueue_wake" /\ concurrent_task_queue_enqueue(t, arg[t])
  <2>1. arg[t] \in Tasks
    BY <1>1, <1>2 DEF TypeOK, ProducerStates
  <2>2. QED
    BY <1>1, <1>2, <2>1, EnqueueRefines
<1>3. CASE pc[t] = "dequeue_wake" /\ concurrent_task_queue_dequeue(t)
  BY <1>1, <1>3, DequeueRefines
<1>4. CASE FailedWaitReturns(t)
  <2>1. /\ pc[t] \in {"enqueue_fail", "dequeue_fail"}
        /\ Return(t, "SYSTEM", NULL, {}) /\ UNCHANGED <<queue, shutdown_requested>>
    BY <1>4 DEF FailedWaitReturns
  <2>2. WaitFailures /\ Pending[t] # "none"
    BY <2>1, PendingAt DEF RInv, FailuresAllowed, ProducerStates, ConsumerStates
  <2>3. Abstract!Finish(t, "SYSTEM", NULL)
    BY <1>1, <2>1, ReturnFinishes
  <2>4. Abstract!Fail(t)
    BY <2>1, <2>2, <2>3 DEF Abstract!Fail
  <2>5. QED
    BY <2>4 DEF Abstract!Next
<1>5. QED
  BY <1>2, <1>3, <1>4 DEF Resume

(* The end of a wait is invisible to the abstract queue. *)
LEMMA WaitStepRefines ==
    ASSUME IInv, NEW t \in Threads, SpuriousWakeup(t) \/ WaitFails(t)
    PROVE  UNCHANGED Abstract!vars
<1>1. TypeOK
  BY DEF IInv
<1>2. PICK to \in States :
          /\ Move(t, to, {}) /\ UNCHANGED <<object, arg, ret>>
          /\ \/ pc[t] = "enqueue_wait" /\ to \in {"enqueue_wake", "enqueue_fail"}
             \/ pc[t] = "dequeue_wait" /\ to \in {"dequeue_wake", "dequeue_fail"}
  <2>1. /\ "enqueue_wake" \in States /\ "dequeue_wake" \in States
        /\ "enqueue_fail" \in States /\ "dequeue_fail" \in States
    BY DEF States, ProducerStates, ConsumerStates
  <2>2. CASE SpuriousWakeup(t)
    BY <2>1, <2>2 DEF SpuriousWakeup, Awake
  <2>3. CASE WaitFails(t)
    BY <2>1, <2>3 DEF WaitFails
  <2>4. QED
    BY <2>2, <2>3
<1>3. CASE pc[t] = "enqueue_wait" /\ to \in {"enqueue_wake", "enqueue_fail"}
  <2>1. Pending' = [Pending EXCEPT ![t] = "put"] /\ Pending[t] = "put"
    BY <1>1, <1>2, <1>3, PendingMoves, PendingAt DEF ProducerStates
  <2>2. Pending' = Pending
    BY <2>1 DEF Pending
  <2>3. QED
    BY <1>2, <2>2 DEF Abstract!vars, object
<1>4. CASE pc[t] = "dequeue_wait" /\ to \in {"dequeue_wake", "dequeue_fail"}
  <2>1. Pending' = [Pending EXCEPT ![t] = "take"] /\ Pending[t] = "take"
    BY <1>1, <1>2, <1>4, PendingMoves, PendingAt DEF ProducerStates, ConsumerStates
  <2>2. Pending' = Pending
    BY <2>1 DEF Pending
  <2>3. QED
    BY <1>2, <2>2 DEF Abstract!vars, object
<1>5. QED
  BY <1>2, <1>3, <1>4

-----------------------------------------------------------------------------
(* A step on which t moves elsewhere than to the error path. *)
LEMMA MoveAllowed ==
    ASSUME FailuresAllowed, NEW t \in Threads, NEW to, NEW woken,
           to \notin {"enqueue_fail", "dequeue_fail"}, Move(t, to, woken)
    PROVE  FailuresAllowed'
<1>1. \A u \in Threads : pc'[u] \in {"enqueue_fail", "dequeue_fail"} => pc'[u] = pc[u]
  BY DEF Move, Awake
<1>2. QED
  BY <1>1 DEF FailuresAllowed

(* Every return and every insertion or removal is such a step. *)
LEMMA ReturnAllowed ==
    ASSUME FailuresAllowed, NEW t \in Threads,
           \E code, out, woken : Return(t, code, out, woken)
    PROVE  FailuresAllowed'
BY MoveAllowed DEF Return

(* The error path is entered by a failing wait only. *)
LEMMA StepAllowed ==
    ASSUME FailuresAllowed, [Next]_vars
    PROVE  FailuresAllowed'
<1>1. ASSUME NEW t \in Threads, NEW task, Insert(t, task) PROVE FailuresAllowed'
  BY <1>1, ReturnAllowed DEF Insert
<1>2. ASSUME NEW t \in Threads, Remove(t) PROVE FailuresAllowed'
  BY <1>2, ReturnAllowed DEF Remove
<1>3. ASSUME NEW t \in Threads, NEW task, concurrent_task_queue_enqueue(t, task)
      PROVE  FailuresAllowed'
  BY <1>1, <1>3, ReturnAllowed, MoveAllowed DEF concurrent_task_queue_enqueue
<1>4. ASSUME NEW t \in Threads, concurrent_task_queue_dequeue(t)
      PROVE  FailuresAllowed'
  BY <1>2, <1>4, ReturnAllowed, MoveAllowed DEF concurrent_task_queue_dequeue
<1>5. ASSUME NEW t \in Threads, Call(t) PROVE FailuresAllowed'
  <2>1. ASSUME NEW task, concurrent_task_queue_try_enqueue(t, task)
        PROVE  FailuresAllowed'
    BY <1>1, <2>1, ReturnAllowed DEF concurrent_task_queue_try_enqueue
  <2>2. CASE concurrent_task_queue_try_dequeue(t)
    BY <1>2, <2>2, ReturnAllowed DEF concurrent_task_queue_try_dequeue
  <2>3. CASE \/ concurrent_task_queue_try_peek(t)
             \/ concurrent_task_queue_shutdown(t)
             \/ InvalidArgument(t)
    BY <2>3, ReturnAllowed
       DEF concurrent_task_queue_try_peek, concurrent_task_queue_shutdown, InvalidArgument
  <2>4. QED
    BY <1>3, <1>4, <1>5, <2>1, <2>2, <2>3 DEF Call
<1>6. ASSUME NEW t \in Threads, Resume(t) PROVE FailuresAllowed'
  <2>1. CASE FailedWaitReturns(t)
    BY <2>1, ReturnAllowed DEF FailedWaitReturns
  <2>2. QED
    BY <1>3, <1>4, <1>6, <2>1 DEF Resume
<1>7. ASSUME NEW t \in Threads, SpuriousWakeup(t) PROVE FailuresAllowed'
  <2>1. Awake(pc[t]) \notin {"enqueue_fail", "dequeue_fail"}
    BY DEF Awake
  <2>2. QED
    BY <1>7, <2>1, MoveAllowed DEF SpuriousWakeup
<1>8. ASSUME NEW t \in Threads, WaitFails(t) PROVE FailuresAllowed'
  BY <1>8 DEF WaitFails, FailuresAllowed
<1>9. CASE UNCHANGED vars
  BY <1>9 DEF vars, FailuresAllowed
<1>10. QED
  BY <1>5, <1>6, <1>7, <1>8, <1>9 DEF Next

(* concurrent_task_queue.c implements the closable queue whose calls are   *)
(* atomic: every behaviour of the threads is one of ClosableQueue, with    *)
(* the wait loops, the wakeups and the waiter counts hidden.               *)
THEOREM QueueImplementsClosableQueue == Spec => ImplementsClosableQueue
<1>1. Init => RInv
  BY InitInv DEF RInv, FailuresAllowed, Init
<1>2. RInv /\ [Next]_vars => RInv'
  BY StepInv, StepAllowed DEF RInv
<1>3. Init => Abstract!Init
  <2>1. Init => Pending = [t \in Threads |-> "none"]
    BY DEF Init, Pending, ProducerStates, ConsumerStates
  <2>2. QED
    BY <2>1 DEF Init, Abstract!Init
<1>4. RInv /\ [Next]_vars => [Abstract!Next]_(Abstract!vars)
  <2> SUFFICES ASSUME RInv, [Next]_vars
               PROVE  Abstract!Next \/ UNCHANGED Abstract!vars
    OBVIOUS
  <2>1. IInv
    BY DEF RInv
  <2>2. ASSUME NEW t \in Threads,
               Call(t) \/ Resume(t) \/ SpuriousWakeup(t) \/ WaitFails(t)
        PROVE  Abstract!Next \/ UNCHANGED Abstract!vars
    BY <2>1, <2>2, CallRefines, ResumeRefines, WaitStepRefines
  <2>3. CASE UNCHANGED vars
    BY <2>3 DEF vars, Abstract!vars, Pending
  <2>4. QED
    BY <2>2, <2>3 DEF Next
<1>5. QED
  BY <1>1, <1>2, <1>3, <1>4, PTL DEF Spec, ImplementsClosableQueue, Abstract!Spec
=============================================================================
