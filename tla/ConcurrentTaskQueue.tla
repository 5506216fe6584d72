------------------------ MODULE ConcurrentTaskQueue ------------------------
(***************************************************************************)
(* src/src/concurrent_task_queue.c: a TaskQueue behind one mutex and two   *)
(* condition variables, not_empty and not_full.                            *)
(*                                                                         *)
(* All state is read and written with the mutex held, so a step is one     *)
(* critical section: from acquiring the mutex (at the start of a call, or  *)
(* on the return from a wait) to releasing it (at the end of the call, or  *)
(* on entering a wait).  The TaskQueue inside is a sequence here: that is  *)
(* what TaskQueue is shown to implement.                                   *)
(***************************************************************************)
EXTENDS Integers, Sequences, FiniteSets

CONSTANTS
    Threads,            \* the threads that share the queue
    Tasks,              \* the Task objects
    NULL,               \* the null pointer
    Capacity,           \* the capacity given to concurrent_task_queue_init
    Operations,         \* Operations[t]: the functions thread t may call
    TransitionSignaling,\* CONCURRENT_SCHEDULER_USE_TRANSITION_SIGNALING
    WaitFailures        \* may sched_condition_wait return an error?

ASSUME ConcurrentTaskQueueAssumption ==
    /\ Capacity \in Nat \ {0}
    /\ IsFiniteSet(Threads)
    /\ NULL \notin Tasks
    /\ TransitionSignaling \in BOOLEAN
    /\ WaitFailures \in BOOLEAN

VARIABLES
    queue,              \* the contents of queue->queue, oldest first
    shutdown_requested,
    waiting_consumers,
    waiting_producers,
    high_water_mark,
    pc,                 \* pc[t]: where t stands in its call, see States
    arg,                \* arg[t]: the task a blocked enqueue of t will insert
    ret                 \* ret[t]: <<code, *task>> of t's last call

object == <<queue, shutdown_requested, waiting_consumers, waiting_producers,
            high_water_mark>>
vars == <<queue, shutdown_requested, waiting_consumers, waiting_producers,
          high_water_mark, pc, arg, ret>>

(* "idle": outside the queue.  "x_wait": asleep on x's condition variable, *)
(* the mutex released.  "x_wake": woken, about to reacquire the mutex.     *)
(* "x_fail": the wait returned an error, about to reacquire the mutex.     *)
ProducerStates == {"enqueue_wait", "enqueue_wake", "enqueue_fail"}
ConsumerStates == {"dequeue_wait", "dequeue_wake", "dequeue_fail"}
States == {"idle"} \cup ProducerStates \cup ConsumerStates
Codes == {"none", "OK", "INVALID_ARGUMENT", "FULL", "EMPTY", "SHUTDOWN", "SYSTEM"}

At(states) == {t \in Threads : pc[t] \in states}

(* A zero-filled implementation, as calloc in concurrent_task_queue_init   *)
(* leaves it.                                                              *)
Init ==
    /\ queue = <<>>
    /\ shutdown_requested = FALSE
    /\ waiting_consumers = 0 /\ waiting_producers = 0
    /\ high_water_mark = 0
    /\ pc = [t \in Threads |-> "idle"]
    /\ arg = [t \in Threads |-> NULL]
    /\ ret = [t \in Threads |-> <<"none", NULL>>]

-----------------------------------------------------------------------------
(* Condition variables: which sleepers a call wakes. *)
not_empty == At({"dequeue_wait"})
not_full == At({"enqueue_wait"})

sched_condition_signal(sleepers) ==
    IF sleepers = {} THEN {{}} ELSE {{w} : w \in sleepers}
BroadcastWakesOne(sleepers) == sched_condition_signal(sleepers)     \* a mutant
sched_condition_broadcast(sleepers) == {sleepers}

Awake(state) == IF state = "enqueue_wait" THEN "enqueue_wake" ELSE "dequeue_wake"

(* t moves to state `to`, and the threads in `woken` leave their waits. *)
Move(t, to, woken) ==
    pc' = [u \in Threads |-> IF u = t THEN to
                             ELSE IF u \in woken THEN Awake(pc[u]) ELSE pc[u]]

(* t's call returns `code`, with `out` stored through its pointer argument. *)
Return(t, code, out, woken) ==
    /\ Move(t, "idle", woken)
    /\ ret' = [ret EXCEPT ![t] = <<code, out>>]
    /\ arg' = [arg EXCEPT ![t] = NULL]

Full == Len(queue) = Capacity
Empty == queue = <<>>

(* Mutants of the definitions below: a signal only when the queue was      *)
(* empty, a signal that asks for the wrong waiters, a high-water mark      *)
(* taken before the insertion.                                             *)
SignalsOnlyWhenWasEmpty == ~TransitionSignaling \/ Empty
SignalsForProducers == ~TransitionSignaling \/ waiting_producers > 0
HighWaterBeforeInsert ==
    IF Len(queue) > high_water_mark THEN Len(queue) ELSE high_water_mark

(* The condition compiled before each signal; it is evaluated after the    *)
(* insertion or removal, was_empty and was_full before it.                 *)
SignalsNotEmpty == ~TransitionSignaling \/ Empty \/ waiting_consumers > 0
SignalsNotFull == ~TransitionSignaling \/ Full \/ waiting_producers > 0

WakesConsumer == IF SignalsNotEmpty THEN sched_condition_signal(not_empty) ELSE {{}}
WakesProducer == IF SignalsNotFull THEN sched_condition_signal(not_full) ELSE {{}}

HighWaterAfterInsert ==
    IF Len(queue) + 1 > high_water_mark THEN Len(queue) + 1 ELSE high_water_mark

(* The successful end of enqueue and try_enqueue. *)
Insert(t, task) ==
    /\ queue' = Append(queue, task)
    /\ high_water_mark' = HighWaterAfterInsert
    /\ \E woken \in WakesConsumer : Return(t, "OK", NULL, woken)
    /\ UNCHANGED <<shutdown_requested, waiting_consumers>>

(* The successful end of dequeue and try_dequeue. *)
Remove(t) ==
    /\ queue' = Tail(queue)
    /\ \E woken \in WakesProducer : Return(t, "OK", Head(queue), woken)
    /\ UNCHANGED <<shutdown_requested, waiting_producers, high_water_mark>>

-----------------------------------------------------------------------------
(* Mutants: a count dropped also by a call that did not wait, a predicate  *)
(* tested with `if` instead of `while`, a consumer that leaves at shutdown *)
(* without draining the queue.                                             *)
ProducersAlwaysDropped(t) == waiting_producers - 1
ProducerWaitsOnce(t) == pc[t] = "idle" /\ ~shutdown_requested /\ Full
NothingToTakeAtShutdown == shutdown_requested \/ Empty

(* A waiter's count is dropped as it returns from sched_condition_wait. *)
Producers(t) == waiting_producers - (IF pc[t] = "idle" THEN 0 ELSE 1)
Consumers(t) == waiting_consumers - (IF pc[t] = "idle" THEN 0 ELSE 1)

(* The predicate of enqueue's wait loop, and the test after dequeue's.     *)
ProducerWaits(t) == ~shutdown_requested /\ Full
NothingToTake == Empty

(* One critical section of concurrent_task_queue_enqueue: on entry, or on  *)
(* the return from a wait, after which the loop tests its predicate again. *)
concurrent_task_queue_enqueue(t, task) ==
    \/ /\ ProducerWaits(t)
       /\ waiting_producers' = Producers(t) + 1
       /\ Move(t, "enqueue_wait", {})
       /\ arg' = [arg EXCEPT ![t] = task]
       /\ UNCHANGED <<queue, shutdown_requested, waiting_consumers,
                      high_water_mark, ret>>
    \/ /\ shutdown_requested
       /\ waiting_producers' = Producers(t)
       /\ Return(t, "SHUTDOWN", NULL, {})
       /\ UNCHANGED <<queue, shutdown_requested, waiting_consumers,
                      high_water_mark>>
    \/ /\ ~shutdown_requested /\ ~ProducerWaits(t)
       /\ waiting_producers' = Producers(t)
       /\ Insert(t, task)

concurrent_task_queue_try_enqueue(t, task) ==
    \/ shutdown_requested /\ Return(t, "SHUTDOWN", NULL, {}) /\ UNCHANGED object
    \/ /\ ~shutdown_requested /\ Full
       /\ Return(t, "FULL", NULL, {}) /\ UNCHANGED object
    \/ /\ ~shutdown_requested /\ ~Full
       /\ Insert(t, task)
       /\ UNCHANGED waiting_producers

concurrent_task_queue_dequeue(t) ==
    \/ /\ ~shutdown_requested /\ Empty
       /\ waiting_consumers' = Consumers(t) + 1
       /\ Move(t, "dequeue_wait", {})
       /\ UNCHANGED <<queue, shutdown_requested, waiting_producers,
                      high_water_mark, arg, ret>>
    \/ /\ shutdown_requested /\ NothingToTake
       /\ waiting_consumers' = Consumers(t)
       /\ Return(t, "SHUTDOWN", NULL, {})
       /\ UNCHANGED <<queue, shutdown_requested, waiting_producers,
                      high_water_mark>>
    \/ /\ ~NothingToTake
       /\ waiting_consumers' = Consumers(t)
       /\ Remove(t)

concurrent_task_queue_try_dequeue(t) ==
    \/ /\ Empty
       /\ Return(t, IF shutdown_requested THEN "SHUTDOWN" ELSE "EMPTY", NULL, {})
       /\ UNCHANGED object
    \/ ~Empty /\ Remove(t) /\ UNCHANGED waiting_consumers

concurrent_task_queue_try_peek(t) ==
    /\ UNCHANGED object
    /\ \/ /\ Empty
          /\ Return(t, IF shutdown_requested THEN "SHUTDOWN" ELSE "EMPTY", NULL, {})
       \/ ~Empty /\ Return(t, "OK", Head(queue), {})

concurrent_task_queue_shutdown(t) ==
    /\ shutdown_requested' = TRUE
    /\ \E c \in sched_condition_broadcast(not_empty),
          p \in sched_condition_broadcast(not_full) : Return(t, "OK", NULL, c \cup p)
    /\ UNCHANGED <<queue, waiting_consumers, waiting_producers, high_water_mark>>

(* A NULL argument is refused before the mutex is touched. *)
InvalidArgument(t) ==
    /\ Return(t, "INVALID_ARGUMENT", NULL, {})
    /\ UNCHANGED object

-----------------------------------------------------------------------------
(* sched_condition_wait may return without a signal, *)
SpuriousWakeup(t) ==
    /\ pc[t] \in {"enqueue_wait", "dequeue_wait"}
    /\ Move(t, Awake(pc[t]), {})
    /\ UNCHANGED <<object, arg, ret>>

(* or fail, which ends the wait without consuming a signal. *)
WaitFails(t) ==
    /\ WaitFailures
    /\ \/ pc[t] = "enqueue_wait" /\ Move(t, "enqueue_fail", {})
       \/ pc[t] = "dequeue_wait" /\ Move(t, "dequeue_fail", {})
    /\ UNCHANGED <<object, arg, ret>>

(* A mutant: the error path forgets to uncount the waiter. *)
FailedWaitKeepsCount(t) ==
    /\ pc[t] \in {"enqueue_fail", "dequeue_fail"}
    /\ Return(t, "SYSTEM", NULL, {})
    /\ UNCHANGED object

(* The error path of a failed wait: uncount the waiter and give up. *)
FailedWaitReturns(t) ==
    /\ \/ /\ pc[t] = "enqueue_fail"
          /\ waiting_producers' = waiting_producers - 1
          /\ UNCHANGED waiting_consumers
       \/ /\ pc[t] = "dequeue_fail"
          /\ waiting_consumers' = waiting_consumers - 1
          /\ UNCHANGED waiting_producers
    /\ Return(t, "SYSTEM", NULL, {})
    /\ UNCHANGED <<queue, shutdown_requested, high_water_mark>>

Call(t) ==
    /\ pc[t] = "idle"
    /\ \/ /\ "enqueue" \in Operations[t]
          /\ \E task \in Tasks : concurrent_task_queue_enqueue(t, task)
       \/ /\ "try_enqueue" \in Operations[t]
          /\ \E task \in Tasks : concurrent_task_queue_try_enqueue(t, task)
       \/ "dequeue" \in Operations[t] /\ concurrent_task_queue_dequeue(t)
       \/ "try_dequeue" \in Operations[t] /\ concurrent_task_queue_try_dequeue(t)
       \/ "try_peek" \in Operations[t] /\ concurrent_task_queue_try_peek(t)
       \/ "shutdown" \in Operations[t] /\ concurrent_task_queue_shutdown(t)
       \/ "null" \in Operations[t] /\ InvalidArgument(t)

(* A thread that has left its wait goes on with its call. *)
Resume(t) ==
    \/ pc[t] = "enqueue_wake" /\ concurrent_task_queue_enqueue(t, arg[t])
    \/ pc[t] = "dequeue_wake" /\ concurrent_task_queue_dequeue(t)
    \/ FailedWaitReturns(t)

Next ==
    \E t \in Threads : Call(t) \/ Resume(t) \/ SpuriousWakeup(t) \/ WaitFails(t)

Spec == Init /\ [][Next]_vars

(* A thread that can acquire the mutex and go on eventually does; no       *)
(* thread is assumed to make a new call, and no sleeper to wake by itself. *)
Fairness == \A t \in Threads : WF_vars(Resume(t))
LiveSpec == Spec /\ Fairness

-----------------------------------------------------------------------------
(* The types of the fields, and the task of a blocked enqueue. *)
TypeOK ==
    /\ queue \in Seq(Tasks)
    /\ shutdown_requested \in BOOLEAN
    /\ waiting_consumers \in Nat /\ waiting_producers \in Nat
    /\ high_water_mark \in Nat
    /\ pc \in [Threads -> States]
    /\ arg \in [Threads -> Tasks \cup {NULL}]
    /\ ret \in [Threads -> Codes \X (Tasks \cup {NULL})]
    /\ \A t \in Threads : arg[t] # NULL <=> pc[t] \in ProducerStates

(* The waiter counts that decide whether a signal may be skipped are       *)
(* exact on every path through the wait loops, the failed waits included:  *)
(* a thread is counted from the moment it goes to sleep until it has the   *)
(* mutex again.  An undercount would suppress a needed signal and wrap     *)
(* below zero later.                                                       *)
WaiterCountsExact ==
    /\ waiting_producers = Cardinality(At(ProducerStates))
    /\ waiting_consumers = Cardinality(At(ConsumerStates))

(* No wakeup is lost.  While a consumer sleeps, the queue is not shut down *)
(* and there are at least as many woken consumers on their way as there    *)
(* are tasks to take; while a producer sleeps, at least as many woken      *)
(* producers as there are free slots.  One signal per insertion and per    *)
(* removal is enough for this whatever the interleaving, with and without  *)
(* transition signaling (the signal conditions of enqueue and dequeue).    *)
NoLostWakeup ==
    /\ not_empty # {} =>
           /\ ~shutdown_requested
           /\ Len(queue) <= Cardinality(At({"dequeue_wake"}))
    /\ not_full # {} =>
           /\ ~shutdown_requested
           /\ Capacity - Len(queue) <= Cardinality(At({"enqueue_wake"}))

(* The high-water mark that the runtime snapshot reports covers every      *)
(* occupancy there has been, and neither ever exceeds the capacity: no     *)
(* interleaving of a retested wait with try_enqueue overfills the ring.    *)
HighWaterBoundsOccupancy ==
    Len(queue) <= high_water_mark /\ high_water_mark <= Capacity

(* What a caller sees of a thread inside the queue: its unfinished call.   *)
Pending == [t \in Threads |-> IF pc[t] \in ProducerStates THEN "put"
                              ELSE IF pc[t] \in ConsumerStates THEN "take"
                              ELSE "none"]

Abstract == INSTANCE ClosableQueue WITH
    closed <- shutdown_requested, pending <- Pending

(* Every call takes effect atomically and once: waits, wakeups and retests *)
(* of the predicate are invisible, tasks come out in the order in which    *)
(* they went in, none is lost, duplicated or accepted after shutdown, and  *)
(* a dequeue reports SHUTDOWN only when the queue has been drained.        *)
ImplementsClosableQueue == Abstract!Spec

(* While there is room a blocked enqueue returns, while there are tasks a  *)
(* blocked dequeue returns, and after shutdown every blocked call returns: *)
(* the fairness of the abstract queue, from that of the threads alone.     *)
BlockedCallsReturn == Abstract!Fairness
=============================================================================
