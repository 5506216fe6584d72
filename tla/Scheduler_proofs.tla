------------------------- MODULE Scheduler_proofs -------------------------
(***************************************************************************)
(* The scheduler keeps its types, and uses its queue as the queue's own    *)
(* specification lets a thread use it, for any number of workers,          *)
(* submitters and submissions, any capacity and any set of faults.  The    *)
(* invariants proved of ConcurrentTaskQueue hold in the scheduler by that. *)
(***************************************************************************)
EXTENDS Scheduler, FiniteSetTheorems, WellFoundedInduction, TLAPS

(* The theorems about the queue, for the queue of the scheduler. *)
QP == INSTANCE ConcurrentTaskQueue_proofs WITH
    pc <- qpc, arg <- qarg, ret <- qret,
    WaitFailures <- "wait" \in Faults,
    Operations <- [t \in Threads |-> {"enqueue", "try_enqueue", "dequeue", "shutdown"}]

QueueInv ==
    /\ Q!TypeOK /\ Q!WaiterCountsExact /\ Q!NoLostWakeup
    /\ Q!HighWaterBoundsOccupancy

(* A thread inside the queue stands at the label after the call, with the  *)
(* task that it inserts; a call that has returned has one of its codes.    *)
QueueUse ==
    \A t \in Threads :
        /\ qpc[t] \in Q!ProducerStates => pc[t] = "submitted" /\ qarg[t] = task[t]
        /\ qpc[t] \in Q!ConsumerStates => pc[t] = "dequeued"
        /\ pc[t] \in SubmitLabels \cup TaskInHandLabels => task[t] \in Tasks
        /\ pc[t] = "dequeued" /\ qpc[t] = "idle" =>
               \/ qret[t][1] = "OK" /\ qret[t][2] \in Tasks
               \/ qret[t][1] \in {"SHUTDOWN", "SYSTEM"}
        /\ pc[t] = "submitted" /\ qpc[t] = "idle" =>
               qret[t][1] \in {"OK", "SHUTDOWN", "SYSTEM"}
        /\ pc[t] = "try_submitted" => qret[t][1] \in {"OK", "FULL", "SHUTDOWN"}

ReleaseLabels == {"start_release", "join_release"}

(* A thread that has not exited has a handle, a handle belongs to a thread *)
(* that was started, and join frees the arrays only when none is left.     *)
Handles ==
    /\ \A w \in Workers : /\ pc[w] \notin {"none", "exited"} => handle[w]
                          /\ handle[w] => w <= started_worker_count
    /\ ~allocated => started_worker_count = 0
    /\ pc[Main] \in {"start_create", "start_wait", "start_asleep",
                     "start_publish", "start_abort", "start_release"} => allocated
    /\ pc[Main] \in ReleaseLabels /\ all_joined =>
           \A w \in Workers : w < index => ~handle[w]

(* A worker's count of running callbacks is one while it runs one. *)
RunningLabels == {"execute", "callback", "count_stopped"} \cup SubmitLabels
RunningExact ==
    \A w \in Workers :
        context[w]["running"] = IF pc[w] \in RunningLabels THEN 1 ELSE 0

(* The inductive invariant.  The types alone are not inductive: a worker   *)
(* takes its running count down, which stays a natural number because it   *)
(* is exact; that it is exact when join clears the counters rests on the   *)
(* handles; and a submission inserts a task because of QueueUse.           *)
BaseInv == TypeOK /\ QueueInv /\ QueueUse /\ Handles /\ RunningExact

-----------------------------------------------------------------------------
(* The threads. *)
LEMMA ThreadsFinite == IsFiniteSet(Threads)
<1>1. IsFiniteSet(Workers)
  BY FS_Interval, SchedulerAssumption DEF Workers
<1>2. IsFiniteSet({Main})
  BY FS_Singleton
<1>3. QED
  BY <1>1, <1>2, FS_Union, SchedulerAssumption DEF Threads

(* Workers, submitters and Main are different threads. *)
LEMMA ThreadKinds ==
    /\ Workers \subseteq Threads /\ Submitters \subseteq Threads /\ Main \in Threads
    /\ Main \notin Workers /\ Main \notin Submitters
    /\ \A t \in Submitters : t \notin Workers
    /\ \A t \in Threads : t \in Workers \/ t \in Submitters \/ t = Main
    /\ NULL \notin Tasks /\ Workers \subseteq Nat \ {0} /\ Tasks \subseteq Nat
BY SchedulerAssumption DEF Threads, Workers, Tasks

(* The assumption of the queue holds for the queue of the scheduler. *)
LEMMA QueueAssumption == QP!ConcurrentTaskQueueAssumption
<1>1. QP!IsFiniteSet(Threads)
  BY ThreadsFinite DEF QP!IsFiniteSet, IsFiniteSet
<1>2. QED
  BY <1>1, ThreadKinds, SchedulerAssumption DEF QP!ConcurrentTaskQueueAssumption

-----------------------------------------------------------------------------
(* The queue's invariant, by its own proof. *)
LEMMA QueueInvSame == QueueInv <=> QP!IInv
<1>1. QP!TypeOK <=> Q!TypeOK
  BY DEF QP!TypeOK, Q!TypeOK, QP!States, Q!States, QP!ProducerStates,
         Q!ProducerStates, QP!ConsumerStates, Q!ConsumerStates, QP!Codes, Q!Codes
<1>2. QP!NoLostWakeup <=> Q!NoLostWakeup
  BY DEF QP!NoLostWakeup, Q!NoLostWakeup, QP!Cardinality, Q!Cardinality,
         QP!At, Q!At, QP!not_empty, Q!not_empty, QP!not_full, Q!not_full
<1>3. QP!WaiterCountsExact <=> Q!WaiterCountsExact
  BY DEF QP!WaiterCountsExact, Q!WaiterCountsExact, QP!Cardinality, Q!Cardinality,
         QP!At, Q!At, QP!ProducerStates, Q!ProducerStates, QP!ConsumerStates,
         Q!ConsumerStates
<1>4. QP!HighWaterBoundsOccupancy <=> Q!HighWaterBoundsOccupancy
  BY DEF QP!HighWaterBoundsOccupancy, Q!HighWaterBoundsOccupancy
<1>5. QED
  BY <1>1, <1>2, <1>3, <1>4 DEF QP!IInv, QueueInv

(* The same in the next state. *)
LEMMA QueueInvSamePrimed == QueueInv' <=> QP!IInv'
BY QueueInvSame, PTL

(* A step of the queue keeps its invariant. *)
LEMMA QueueInvStep ==
    ASSUME QueueInv, [Q!Next]_(Q!vars)
    PROVE  QueueInv'
<1>1. [QP!Next]_(QP!vars)
  <2>1. QP!vars = Q!vars /\ QP!vars' = Q!vars'
    BY DEF QP!vars, Q!vars
  <2>2. Q!Next => QP!Next
    BY DEF QP!Next, Q!Next, QP!Call, Q!Call, QP!Resume, Q!Resume,
           QP!SpuriousWakeup, Q!SpuriousWakeup, QP!WaitFails, Q!WaitFails,
           QP!FailedWaitReturns, Q!FailedWaitReturns,
           QP!concurrent_task_queue_enqueue, Q!concurrent_task_queue_enqueue,
           QP!concurrent_task_queue_try_enqueue, Q!concurrent_task_queue_try_enqueue,
           QP!concurrent_task_queue_dequeue, Q!concurrent_task_queue_dequeue,
           QP!concurrent_task_queue_try_dequeue, Q!concurrent_task_queue_try_dequeue,
           QP!concurrent_task_queue_try_peek, Q!concurrent_task_queue_try_peek,
           QP!concurrent_task_queue_shutdown, Q!concurrent_task_queue_shutdown,
           QP!InvalidArgument, Q!InvalidArgument, QP!Insert, Q!Insert,
           QP!Remove, Q!Remove, QP!Return, Q!Return, QP!Move, Q!Move,
           QP!Awake, Q!Awake, QP!Full, Q!Full, QP!Empty, Q!Empty,
           QP!SignalsNotEmpty, Q!SignalsNotEmpty, QP!SignalsNotFull, Q!SignalsNotFull,
           QP!WakesConsumer, Q!WakesConsumer, QP!WakesProducer, Q!WakesProducer,
           QP!HighWaterAfterInsert, Q!HighWaterAfterInsert,
           QP!Producers, Q!Producers, QP!Consumers, Q!Consumers,
           QP!ProducerWaits, Q!ProducerWaits, QP!NothingToTake, Q!NothingToTake,
           QP!not_empty, Q!not_empty, QP!not_full, Q!not_full, QP!At, Q!At,
           QP!sched_condition_signal, Q!sched_condition_signal,
           QP!sched_condition_broadcast, Q!sched_condition_broadcast,
           QP!object, Q!object
  <2>3. QED
    BY <2>1, <2>2
<1>2. QP!IInv
  BY QueueInvSame
<1>3. QP!IInv'
  BY <1>1, <1>2, QP!StepInv, QueueAssumption
<1>4. QED
  BY <1>3, QueueInvSamePrimed

(* The empty queue of concurrent_task_queue_init satisfies it. *)
LEMMA QueueInvInit == Q!Init => QueueInv
<1>1. Q!Init => QP!Init
  BY DEF Q!Init, QP!Init
<1>2. QED
  BY <1>1, QP!InitInv, QueueAssumption, QueueInvSame

-----------------------------------------------------------------------------
(* What a call of the queue does, as far as the scheduler can tell.  A     *)
(* thread other than the caller may be woken, but stays in its call.       *)
Bystanders(t) ==
    \A u \in Threads : u # t =>
        /\ qarg'[u] = qarg[u] /\ qret'[u] = qret[u]
        /\ qpc'[u] = "idle" <=> qpc[u] = "idle"
        /\ qpc'[u] \in Q!ProducerStates <=> qpc[u] \in Q!ProducerStates
        /\ qpc'[u] \in Q!ConsumerStates <=> qpc[u] \in Q!ConsumerStates
        /\ qpc'[u] \in {"enqueue_fail", "dequeue_fail"} => qpc'[u] = qpc[u]

Asleep(t, label) ==
    /\ qpc'[t] = label /\ qret'[t] = qret[t]
    /\ queue' = queue /\ shutdown_requested' = shutdown_requested
Answers(t, code) ==
    /\ qpc'[t] = "idle" /\ qret'[t] = <<code, NULL>>
    /\ queue' = queue /\ shutdown_requested' = shutdown_requested
Puts(t, k) ==
    /\ ~shutdown_requested /\ Len(queue) < Capacity
    /\ qpc'[t] = "idle" /\ qret'[t] = <<"OK", NULL>>
    /\ queue' = Append(queue, k) /\ shutdown_requested' = shutdown_requested
Takes(t) ==
    /\ queue # <<>>
    /\ qpc'[t] = "idle" /\ qret'[t] = <<"OK", Head(queue)>>
    /\ queue' = Tail(queue) /\ shutdown_requested' = shutdown_requested

(* The end of a call, and the beginning of a wait. *)
LEMMA ReturnFacts ==
    ASSUME Q!TypeOK, NEW t \in Threads, NEW code, NEW out,
           NEW woken \in SUBSET (Q!not_empty \cup Q!not_full),
           Q!Return(t, code, out, woken)
    PROVE  qpc'[t] = "idle" /\ qret'[t] = <<code, out>> /\ Bystanders(t)
<1>1. qpc'[t] = "idle" /\ qret'[t] = <<code, out>>
  BY DEF Q!TypeOK, Q!Return, Q!Move
<1>2. \A u \in woken : qpc[u] = "enqueue_wait" \/ qpc[u] = "dequeue_wait"
  BY DEF Q!not_empty, Q!not_full, Q!At
<1>3. ASSUME NEW u \in Threads, u # t
      PROVE  /\ qarg'[u] = qarg[u] /\ qret'[u] = qret[u]
             /\ qpc'[u] = IF u \in woken THEN Q!Awake(qpc[u]) ELSE qpc[u]
  BY <1>3 DEF Q!TypeOK, Q!Return, Q!Move
<1>4. QED
  BY <1>1, <1>2, <1>3
     DEF Bystanders, Q!Awake, Q!ProducerStates, Q!ConsumerStates

(* A thread that begins or ends a wait wakes nobody. *)
LEMMA SleepFacts ==
    ASSUME Q!TypeOK, NEW t \in Threads, NEW label, Q!Move(t, label, {}),
           UNCHANGED qret, \A u \in Threads : u # t => qarg'[u] = qarg[u]
    PROVE  qpc'[t] = label /\ qret'[t] = qret[t] /\ Bystanders(t)
BY DEF Q!TypeOK, Q!Move, Bystanders

(* A signal wakes threads that sleep inside the queue, and no others. *)
LEMMA WokenFacts ==
    /\ Q!WakesConsumer \subseteq SUBSET (Q!not_empty \cup Q!not_full)
    /\ Q!WakesProducer \subseteq SUBSET (Q!not_empty \cup Q!not_full)
BY DEF Q!WakesConsumer, Q!WakesProducer, Q!sched_condition_signal

(* The successful end of an enqueue puts the task at the end. *)
LEMMA InsertFacts ==
    ASSUME QueueInv, NEW t \in Threads, NEW k, ~shutdown_requested, ~Q!Full,
           Q!Insert(t, k)
    PROVE  Puts(t, k) /\ Bystanders(t)
<1>1. PICK woken \in Q!WakesConsumer : Q!Return(t, "OK", NULL, woken)
  BY DEF Q!Insert
<1>2. qpc'[t] = "idle" /\ qret'[t] = <<"OK", NULL>> /\ Bystanders(t)
  BY <1>1, WokenFacts, ReturnFacts DEF QueueInv
<1>3. Len(queue) < Capacity
  BY SchedulerAssumption DEF QueueInv, Q!TypeOK, Q!HighWaterBoundsOccupancy, Q!Full
<1>4. QED
  BY <1>2, <1>3 DEF Puts, Q!Insert

(* concurrent_task_queue_enqueue sleeps, refuses, or puts the task. *)
LEMMA EnqueueFacts ==
    ASSUME QueueInv, NEW t \in Threads, NEW k \in Tasks,
           Q!concurrent_task_queue_enqueue(t, k)
    PROVE  /\ Bystanders(t)
           /\ \/ Asleep(t, "enqueue_wait") /\ qarg'[t] = k /\ ~shutdown_requested
              \/ Answers(t, "SHUTDOWN") /\ shutdown_requested
              \/ Puts(t, k)
<1>1. CASE /\ Q!ProducerWaits(t)
           /\ Q!Move(t, "enqueue_wait", {})
           /\ qarg' = [qarg EXCEPT ![t] = k]
           /\ UNCHANGED <<queue, shutdown_requested, qret>>
  <2>1. qarg'[t] = k /\ \A u \in Threads : u # t => qarg'[u] = qarg[u]
    BY <1>1 DEF QueueInv, Q!TypeOK
  <2>2. qpc'[t] = "enqueue_wait" /\ qret'[t] = qret[t] /\ Bystanders(t)
    BY <1>1, <2>1, SleepFacts DEF QueueInv
  <2>3. QED
    BY <1>1, <2>1, <2>2 DEF Asleep, Q!ProducerWaits
<1>2. CASE /\ shutdown_requested
           /\ Q!Return(t, "SHUTDOWN", NULL, {})
           /\ UNCHANGED <<queue, shutdown_requested>>
  <2>1. qpc'[t] = "idle" /\ qret'[t] = <<"SHUTDOWN", NULL>> /\ Bystanders(t)
    BY <1>2, ReturnFacts DEF QueueInv
  <2>2. QED
    BY <1>2, <2>1 DEF Answers
<1>3. CASE ~shutdown_requested /\ ~Q!ProducerWaits(t) /\ Q!Insert(t, k)
  BY <1>3, InsertFacts DEF Q!ProducerWaits
<1>4. QED
  BY <1>1, <1>2, <1>3 DEF Q!concurrent_task_queue_enqueue

(* concurrent_task_queue_try_enqueue never sleeps. *)
LEMMA TryEnqueueFacts ==
    ASSUME QueueInv, NEW t \in Threads, NEW k \in Tasks,
           Q!concurrent_task_queue_try_enqueue(t, k)
    PROVE  /\ Bystanders(t)
           /\ \/ Answers(t, "SHUTDOWN") /\ shutdown_requested
              \/ Answers(t, "FULL") /\ ~shutdown_requested
              \/ Puts(t, k)
<1>1. ASSUME NEW code, Q!Return(t, code, NULL, {}), UNCHANGED Q!object
      PROVE  Bystanders(t) /\ Answers(t, code)
  <2>1. qpc'[t] = "idle" /\ qret'[t] = <<code, NULL>> /\ Bystanders(t)
    BY <1>1, ReturnFacts DEF QueueInv
  <2>2. QED
    BY <1>1, <2>1 DEF Answers, Q!object
<1>2. CASE ~shutdown_requested /\ ~Q!Full /\ Q!Insert(t, k)
  BY <1>2, InsertFacts
<1>3. QED
  BY <1>1, <1>2 DEF Q!concurrent_task_queue_try_enqueue

(* concurrent_task_queue_dequeue sleeps, reports a drained queue, or takes. *)
LEMMA DequeueFacts ==
    ASSUME QueueInv, NEW t \in Threads, Q!concurrent_task_queue_dequeue(t)
    PROVE  /\ Bystanders(t)
           /\ \/ Asleep(t, "dequeue_wait") /\ ~shutdown_requested
              \/ Answers(t, "SHUTDOWN") /\ shutdown_requested /\ queue = <<>>
              \/ Takes(t)
<1>1. CASE /\ ~shutdown_requested
           /\ Q!Move(t, "dequeue_wait", {})
           /\ UNCHANGED <<queue, shutdown_requested, qarg, qret>>
  <2>1. qpc'[t] = "dequeue_wait" /\ qret'[t] = qret[t] /\ Bystanders(t)
    BY <1>1, SleepFacts DEF QueueInv
  <2>2. QED
    BY <1>1, <2>1 DEF Asleep
<1>2. CASE /\ shutdown_requested /\ Q!NothingToTake
           /\ Q!Return(t, "SHUTDOWN", NULL, {})
           /\ UNCHANGED <<queue, shutdown_requested>>
  <2>1. qpc'[t] = "idle" /\ qret'[t] = <<"SHUTDOWN", NULL>> /\ Bystanders(t)
    BY <1>2, ReturnFacts DEF QueueInv
  <2>2. QED
    BY <1>2, <2>1 DEF Answers, Q!NothingToTake, Q!Empty
<1>3. CASE ~Q!NothingToTake /\ Q!Remove(t)
  <2>1. PICK woken \in Q!WakesProducer : Q!Return(t, "OK", Head(queue), woken)
    BY <1>3 DEF Q!Remove
  <2>2. qpc'[t] = "idle" /\ qret'[t] = <<"OK", Head(queue)>> /\ Bystanders(t)
    BY <2>1, WokenFacts, ReturnFacts DEF QueueInv
  <2>3. QED
    BY <1>3, <2>2 DEF Takes, Q!Remove, Q!NothingToTake, Q!Empty
<1>4. QED
  BY <1>1, <1>2, <1>3 DEF Q!concurrent_task_queue_dequeue

(* concurrent_task_queue_shutdown closes the queue and leaves its tasks. *)
LEMMA ShutdownFacts ==
    ASSUME QueueInv, NEW t \in Threads, Q!concurrent_task_queue_shutdown(t)
    PROVE  /\ Bystanders(t)
           /\ qpc'[t] = "idle" /\ queue' = queue /\ shutdown_requested' = TRUE
<1>1. Q!Return(t, "OK", NULL, Q!not_empty \cup Q!not_full)
  BY DEF Q!concurrent_task_queue_shutdown, Q!sched_condition_broadcast
<1>2. QED
  BY <1>1, ReturnFacts DEF QueueInv, Q!concurrent_task_queue_shutdown

(* A thread that goes on after a wait, and the end of a wait. *)
LEMMA ResumeFacts ==
    ASSUME QueueInv, NEW t \in Threads, Q!Resume(t)
    PROVE  /\ Bystanders(t)
           /\ \/ /\ qpc[t] \in Q!ProducerStates /\ qarg[t] \in Tasks
                 /\ \/ /\ Asleep(t, "enqueue_wait") /\ qarg'[t] = qarg[t]
                       /\ ~shutdown_requested
                    \/ Answers(t, "SHUTDOWN") /\ shutdown_requested
                    \/ Puts(t, qarg[t])
                    \/ Answers(t, "SYSTEM") /\ qpc[t] = "enqueue_fail"
              \/ /\ qpc[t] \in Q!ConsumerStates
                 /\ \/ Asleep(t, "dequeue_wait") /\ ~shutdown_requested
                    \/ Answers(t, "SHUTDOWN") /\ shutdown_requested /\ queue = <<>>
                    \/ Takes(t)
                    \/ Answers(t, "SYSTEM") /\ qpc[t] = "dequeue_fail"
<1>1. CASE qpc[t] = "enqueue_wake" /\ Q!concurrent_task_queue_enqueue(t, qarg[t])
  <2>1. qpc[t] \in Q!ProducerStates
    BY <1>1 DEF Q!ProducerStates
  <2>2. qarg[t] \in Tasks
    BY <2>1 DEF QueueInv, Q!TypeOK
  <2>3. QED
    BY <1>1, <2>1, <2>2, EnqueueFacts
<1>2. CASE qpc[t] = "dequeue_wake" /\ Q!concurrent_task_queue_dequeue(t)
  <2>1. qpc[t] \in Q!ConsumerStates
    BY <1>2 DEF Q!ConsumerStates
  <2>2. QED
    BY <1>2, <2>1, DequeueFacts
<1>3. CASE Q!FailedWaitReturns(t)
  <2>1. qpc'[t] = "idle" /\ qret'[t] = <<"SYSTEM", NULL>> /\ Bystanders(t)
    BY <1>3, ReturnFacts DEF QueueInv, Q!FailedWaitReturns
  <2>2. Answers(t, "SYSTEM")
    BY <1>3, <2>1 DEF Answers, Q!FailedWaitReturns
  <2>3. CASE qpc[t] = "enqueue_fail"
    <3>1. qpc[t] \in Q!ProducerStates
      BY <2>3 DEF Q!ProducerStates
    <3>2. qarg[t] \in Tasks
      BY <3>1 DEF QueueInv, Q!TypeOK
    <3>3. QED
      BY <2>1, <2>2, <2>3, <3>1, <3>2
  <2>4. CASE qpc[t] = "dequeue_fail"
    BY <2>1, <2>2, <2>4 DEF Q!ConsumerStates
  <2>5. QED
    BY <1>3, <2>3, <2>4 DEF Q!FailedWaitReturns
<1>4. QED
  BY <1>1, <1>2, <1>3 DEF Q!Resume

(* A wait that ends, woken or failed, leaves the contents alone. *)
LEMMA WaitEndsFacts ==
    ASSUME QueueInv, NEW t \in Threads, Q!SpuriousWakeup(t) \/ Q!WaitFails(t)
    PROVE  /\ Bystanders(t) /\ qret' = qret /\ qarg' = qarg
           /\ queue' = queue /\ shutdown_requested' = shutdown_requested
           /\ \/ qpc[t] = "enqueue_wait" /\ qpc'[t] \in {"enqueue_wake", "enqueue_fail"}
              \/ qpc[t] = "dequeue_wait" /\ qpc'[t] \in {"dequeue_wake", "dequeue_fail"}
           /\ qpc'[t] \in {"enqueue_fail", "dequeue_fail"} => "wait" \in Faults
<1>1. PICK to : /\ \/ qpc[t] = "enqueue_wait" /\ to \in {"enqueue_wake", "enqueue_fail"}
                   \/ qpc[t] = "dequeue_wait" /\ to \in {"dequeue_wake", "dequeue_fail"}
                /\ to \in {"enqueue_fail", "dequeue_fail"} => "wait" \in Faults
                /\ Q!Move(t, to, {}) /\ UNCHANGED <<Q!object, qarg, qret>>
  BY DEF Q!SpuriousWakeup, Q!WaitFails, Q!Awake
<1>2. qpc'[t] = to /\ Bystanders(t)
  BY <1>1, SleepFacts DEF QueueInv
<1>3. QED
  BY <1>1, <1>2 DEF Q!object

-----------------------------------------------------------------------------
(* The steps of the scheduler, one action each. *)
LEMMA NextCases ==
    ASSUME Next
    PROVE  \/ LifecycleCallReturnsAtOnce \/ StartBegins \/ ShutdownBegins
           \/ JoinWaits \/ scheduler_destroy \/ StartAllocates \/ StartCreates
           \/ StartPublishes \/ StartAborts \/ StartFails \/ StartWaits
           \/ JoinWorker \/ FinishRelease \/ ShutdownQueue \/ ShutdownWaits
           \/ JoinPublishes \/ JoinWaitFails \/ MainSpuriousWakeup
           \/ \E t \in Workers \cup Submitters :
                  \/ \E call \in {"submit", "try_submit"} : register_submitter(t, call)
                  \/ SubmitToQueue(t) \/ deregister_submitter(t)
                  \/ QueueResumes(t) \/ QueueWaitEnds(t)
           \/ \E w \in Workers :
                  \/ WorkerReady(w) \/ WorkerDequeue(w) \/ WorkerCountsDequeue(w)
                  \/ WorkerCountsStart(w) \/ WorkerExecutes(w) \/ CallbackReturns(w)
                  \/ WorkerCountsStop(w) \/ WorkerQueueFailure(w) \/ WorkerExits(w)
<1>1. ASSUME NEW t \in Workers \cup Submitters, Submit(t)
      PROVE  \/ \E call \in {"submit", "try_submit"} : register_submitter(t, call)
             \/ SubmitToQueue(t) \/ deregister_submitter(t)
  BY <1>1, SchedulerAssumption DEF Submit
<1>2. CASE LifecycleCall
  BY <1>2 DEF LifecycleCall
<1>3. CASE LifecycleStep
  BY <1>3 DEF LifecycleStep
<1>4. CASE LifecycleWaitFails
  BY <1>4 DEF LifecycleWaitFails
<1>5. ASSUME NEW w \in Workers, scheduler_worker_entry(w)
      PROVE  \/ WorkerReady(w) \/ WorkerDequeue(w) \/ WorkerCountsDequeue(w)
             \/ WorkerCountsStart(w) \/ WorkerExecutes(w) \/ CallbackReturns(w)
             \/ WorkerCountsStop(w) \/ WorkerQueueFailure(w) \/ WorkerExits(w)
  BY <1>5 DEF scheduler_worker_entry
<1>6. QED
  BY <1>1, <1>2, <1>3, <1>4, <1>5 DEF Next

(* A thread that is not at the label after a call is outside the queue. *)
LEMMA OutsideQueue ==
    ASSUME Q!TypeOK, QueueUse, NEW t \in Threads, pc[t] \notin {"submitted", "dequeued"}
    PROVE  qpc[t] = "idle"
BY DEF Q!TypeOK, Q!States, QueueUse

(* Every step of the scheduler is a step of the queue, or leaves it alone. *)
LEMMA QueueStep ==
    ASSUME TypeOK, QueueInv, QueueUse, [Next]_vars
    PROVE  [Q!Next]_(Q!vars)
<1> USE ThreadKinds
<1>1. ASSUME UNCHANGED queueVars PROVE UNCHANGED Q!vars
  BY <1>1 DEF queueVars, Q!vars
<1>2. ASSUME NEW t \in Threads, qpc[t] = "idle",
             \/ \E k \in Tasks : Q!concurrent_task_queue_enqueue(t, k)
             \/ \E k \in Tasks : Q!concurrent_task_queue_try_enqueue(t, k)
             \/ Q!concurrent_task_queue_dequeue(t)
             \/ Q!concurrent_task_queue_shutdown(t)
      PROVE  Q!Next
  BY <1>2 DEF Q!Next, Q!Call
<1>3. ASSUME NEW t \in Workers \cup Submitters, SubmitToQueue(t)
      PROVE  Q!Next
  <2>1. pc[t] \in {"submit", "try_submit"}
    BY <1>3 DEF SubmitToQueue
  <2>2. qpc[t] = "idle" /\ task[t] \in Tasks
    BY <2>1, OutsideQueue DEF QueueInv, QueueUse, SubmitLabels
  <2>3. QED
    BY <1>2, <1>3, <2>2 DEF SubmitToQueue
<1>4. ASSUME NEW t \in Threads, QueueResumes(t) \/ QueueWaitEnds(t)
      PROVE  Q!Next
  BY <1>4 DEF QueueResumes, QueueWaitEnds, Q!Next
<1>5. ASSUME NEW w \in Workers, WorkerDequeue(w) \/ WorkerQueueFailure(w)
      PROVE  Q!Next
  <2>1. qpc[w] = "idle"
    BY <1>5, OutsideQueue DEF WorkerDequeue, WorkerQueueFailure, QueueInv
  <2>2. QED
    BY <1>2, <1>5, <2>1 DEF WorkerDequeue, WorkerQueueFailure
<1>6. CASE StartAborts \/ ShutdownQueue
  <2>1. qpc[Main] = "idle"
    BY <1>6, OutsideQueue DEF StartAborts, ShutdownQueue, QueueInv
  <2>2. QED
    BY <1>2, <1>6, <2>1 DEF StartAborts, ShutdownQueue
<1>7. CASE \/ LifecycleCallReturnsAtOnce \/ StartBegins \/ ShutdownBegins
           \/ JoinWaits \/ scheduler_destroy \/ StartAllocates \/ StartCreates
           \/ StartPublishes \/ StartFails \/ StartWaits
           \/ JoinWorker \/ FinishRelease \/ ShutdownWaits
           \/ JoinPublishes \/ JoinWaitFails \/ MainSpuriousWakeup
  BY <1>1, <1>7
     DEF LifecycleCallReturnsAtOnce, Refused, StartBegins, ShutdownBegins,
         JoinWaits, scheduler_destroy, StartAllocates, StartCreates, StartPublishes,
         StartFails, StartWaits, JoinWorker, FinishRelease, ShutdownWaits,
         JoinPublishes, JoinWaitFails, MainSpuriousWakeup
<1>8. ASSUME NEW t \in Threads,
             \/ \E call \in {"submit", "try_submit"} : register_submitter(t, call)
             \/ deregister_submitter(t) \/ WorkerReady(t) \/ WorkerCountsDequeue(t)
             \/ WorkerCountsStart(t) \/ WorkerExecutes(t) \/ CallbackReturns(t)
             \/ WorkerCountsStop(t) \/ WorkerExits(t)
      PROVE  UNCHANGED Q!vars
  BY <1>1, <1>8
     DEF register_submitter, deregister_submitter, WorkerReady, WorkerCountsDequeue,
         WorkerCountsStart, WorkerExecutes, CallbackReturns, WorkerCountsStop,
         WorkerExits, record_worker_exit
<1>9. CASE UNCHANGED vars
  BY <1>1, <1>9 DEF vars
<1>10. QED
  BY <1>3, <1>4, <1>5, <1>6, <1>7, <1>8, <1>9, NextCases

-----------------------------------------------------------------------------
(* What each part of the state is changed by. *)
LEMMA LifecycleFrame ==
    ASSUME [Next]_vars
    PROVE  \/ UNCHANGED lifecycleVars
           \/ StartBegins \/ StartAllocates \/ StartPublishes \/ StartFails
           \/ ShutdownBegins \/ JoinPublishes \/ scheduler_destroy
           \/ \E t \in Workers \cup Submitters :
                  \/ \E call \in {"submit", "try_submit"} : register_submitter(t, call)
                  \/ deregister_submitter(t)
BY NextCases
   DEF vars, LifecycleCallReturnsAtOnce, Refused, JoinWaits, StartCreates, StartAborts,
       StartWaits, JoinWorker, FinishRelease, ShutdownQueue, ShutdownWaits,
       JoinWaitFails, MainSpuriousWakeup, SubmitToQueue, QueueResumes, QueueWaitEnds,
       WorkerReady, WorkerDequeue, WorkerCountsDequeue, WorkerCountsStart,
       WorkerExecutes, CallbackReturns, WorkerCountsStop, WorkerQueueFailure,
       WorkerExits, record_worker_exit

(* The fields under the worker mutex. *)
LEMMA WorkerFrame ==
    ASSUME [Next]_vars
    PROVE  \/ UNCHANGED workerVars
           \/ scheduler_destroy \/ StartAllocates \/ StartCreates \/ JoinWorker
           \/ FinishRelease
           \/ \E w \in Workers : WorkerReady(w) \/ WorkerExits(w)
BY NextCases
   DEF vars, LifecycleCallReturnsAtOnce, Refused, JoinWaits, StartBegins, ShutdownBegins,
       StartPublishes, StartFails, JoinPublishes, StartAborts, StartWaits,
       ShutdownQueue, ShutdownWaits, JoinWaitFails, MainSpuriousWakeup,
       register_submitter, SubmitToQueue, deregister_submitter, QueueResumes,
       QueueWaitEnds, WorkerDequeue, WorkerCountsDequeue, WorkerCountsStart,
       WorkerExecutes, CallbackReturns, WorkerCountsStop, WorkerQueueFailure

(* The atomic counters of the workers. *)
LEMMA ContextFrame ==
    ASSUME [Next]_vars
    PROVE  \/ UNCHANGED contextVars
           \/ FinishRelease
           \/ \E w \in Workers : \/ WorkerCountsDequeue(w) \/ WorkerCountsStart(w)
                                 \/ CallbackReturns(w) \/ WorkerCountsStop(w)
BY NextCases
   DEF vars, LifecycleCallReturnsAtOnce, Refused, JoinWaits, StartBegins, ShutdownBegins,
       scheduler_destroy, StartAllocates, StartCreates, StartPublishes, StartFails,
       JoinPublishes, StartAborts, StartWaits, JoinWorker, ShutdownQueue,
       ShutdownWaits, JoinWaitFails, MainSpuriousWakeup,
       register_submitter, SubmitToQueue, deregister_submitter, QueueResumes,
       QueueWaitEnds, WorkerReady, WorkerDequeue, WorkerExecutes,
       WorkerQueueFailure, WorkerExits, record_worker_exit

(* The tasks in hand, the results of the workers, the join loop's locals. *)
LEMMA LocalsFrame ==
    ASSUME [Next]_vars
    PROVE  \/ UNCHANGED <<task, exit, joinVars>>
           \/ JoinWaits \/ StartAborts \/ JoinWorker \/ FinishRelease
           \/ \E t \in Workers \cup Submitters :
                  \/ \E call \in {"submit", "try_submit"} : register_submitter(t, call)
                  \/ deregister_submitter(t)
           \/ \E w \in Workers :
                  WorkerCountsDequeue(w) \/ WorkerExecutes(w) \/ WorkerExits(w)
BY NextCases
   DEF vars, LifecycleCallReturnsAtOnce, Refused, StartBegins, ShutdownBegins,
       scheduler_destroy, StartAllocates, StartCreates, StartPublishes, StartFails,
       JoinPublishes, StartWaits, ShutdownQueue, ShutdownWaits, JoinWaitFails,
       MainSpuriousWakeup, SubmitToQueue, QueueResumes, QueueWaitEnds, WorkerReady,
       WorkerDequeue, WorkerCountsStart, CallbackReturns, WorkerCountsStop,
       WorkerQueueFailure

(* The history of submissions and callbacks. *)
LEMMA HistoryFrame ==
    ASSUME [Next]_vars
    PROVE  \/ UNCHANGED history
           \/ StartCreates \/ JoinWorker
           \/ \E t \in Workers \cup Submitters :
                  \/ \E call \in {"submit", "try_submit"} : register_submitter(t, call)
                  \/ deregister_submitter(t)
           \/ \E w \in Workers : WorkerExecutes(w) \/ CallbackReturns(w) \/ WorkerExits(w)
BY NextCases
   DEF vars, LifecycleCallReturnsAtOnce, Refused, JoinWaits, StartBegins, ShutdownBegins,
       scheduler_destroy, StartAllocates, StartPublishes, StartFails,
       JoinPublishes, StartAborts, StartWaits, FinishRelease, ShutdownQueue,
       ShutdownWaits, JoinWaitFails, MainSpuriousWakeup,
       SubmitToQueue, QueueResumes, QueueWaitEnds, WorkerReady, WorkerDequeue,
       WorkerCountsDequeue, WorkerCountsStart, WorkerCountsStop, WorkerQueueFailure

-----------------------------------------------------------------------------
(* The conjuncts of TypeOK, by the part of the state they are about. *)
FlagTypes ==
    /\ implementation \in BOOLEAN /\ lifecycle_accounting_overflow \in BOOLEAN
    /\ allocated \in BOOLEAN /\ worker_sync_initialized \in BOOLEAN
    /\ worker_accounting_overflow \in BOOLEAN /\ all_joined \in BOOLEAN
LifecycleTypes ==
    /\ state \in LifecycleStates
    /\ active_submitter_count \in Nat
    /\ submitted_count \in 0..CounterMax /\ accepted_count \in 0..CounterMax
    /\ rejected_count \in 0..CounterMax
WorkerTypes ==
    /\ handle \in [Workers -> BOOLEAN]
    /\ started_worker_count \in 0..WorkerCount
    /\ created_worker_count \in Nat /\ ready_worker_count \in Nat
    /\ active_worker_count \in Nat /\ joined_worker_count \in Nat
    /\ total \in [Counters -> 0..CounterMax]
    /\ worker_startup_failure_count \in 0..CounterMax
    /\ worker_runtime_failure_count \in 0..CounterMax
    /\ join_failure_count \in 0..CounterMax
ContextTypes ==
    /\ context \in [Workers -> [Counters -> 0..CounterMax]]
    /\ accounting_overflow \in [Workers -> BOOLEAN]
PcTypes ==
    /\ pc \in [Threads -> WorkerLabels \cup MainLabels]
    /\ \A w \in Workers : pc[w] \in WorkerLabels
    /\ \A t \in Submitters : pc[t] \in {"idle"} \cup SubmitLabels
    /\ pc[Main] \in MainLabels
LocalTypes ==
    /\ task \in [Threads -> Tasks \cup {NULL}]
    /\ exit \in [Workers -> {"none", "OK", "QUEUE", "SYNCHRONIZATION"}]
    /\ index \in Nat \ {0} /\ result \in {"OK", "SYSTEM"}
HistoryTypes ==
    /\ executed \in [Tasks -> Nat]
    /\ outcome \in [Tasks -> SchedulerCodes]
    /\ tally \in [Tallied -> Nat]

(* TypeOK is the conjunction of these. *)
LEMMA TypeParts ==
    TypeOK <=> /\ FlagTypes /\ LifecycleTypes /\ WorkerTypes /\ ContextTypes
               /\ PcTypes /\ LocalTypes /\ HistoryTypes
BY DEF TypeOK, FlagTypes, LifecycleTypes, WorkerTypes, ContextTypes, PcTypes,
       LocalTypes, HistoryTypes

(* Flags stay Boolean. *)
LEMMA FlagTypesStep ==
    ASSUME TypeOK, [Next]_vars
    PROVE  FlagTypes'
<1>1. FlagTypes
  BY TypeParts
<1>2. implementation' \in BOOLEAN /\ lifecycle_accounting_overflow' \in BOOLEAN
  <2>1. CASE UNCHANGED lifecycleVars
    BY <1>1, <2>1 DEF FlagTypes, lifecycleVars, submissionVars
  <2>2. CASE \/ StartBegins \/ StartAllocates \/ StartPublishes \/ StartFails
             \/ ShutdownBegins \/ JoinPublishes \/ scheduler_destroy
    BY <1>1, <2>2
       DEF StartBegins, StartAllocates, StartPublishes, StartFails, ShutdownBegins,
           JoinPublishes, scheduler_destroy, Refused, FlagTypes, lifecycleVars,
           submissionVars
  <2>3. ASSUME NEW t, NEW call, register_submitter(t, call) \/ deregister_submitter(t)
        PROVE  implementation' \in BOOLEAN /\ lifecycle_accounting_overflow' \in BOOLEAN
    BY <1>1, <2>3 DEF register_submitter, deregister_submitter, FlagTypes
  <2>4. QED
    BY <2>1, <2>2, <2>3, LifecycleFrame
<1>3. /\ allocated' \in BOOLEAN /\ worker_sync_initialized' \in BOOLEAN
      /\ worker_accounting_overflow' \in BOOLEAN
  <2>1. CASE UNCHANGED workerVars
    BY <1>1, <2>1 DEF FlagTypes, workerVars, failureVars
  <2>2. CASE scheduler_destroy
    BY <1>1, <2>2 DEF scheduler_destroy, Refused, FlagTypes, workerVars, failureVars
  <2>3. CASE StartAllocates \/ StartCreates
    BY <1>1, <2>3 DEF StartAllocates, StartCreates, FlagTypes, failureVars
  <2>4. CASE JoinWorker
    BY <1>1, <2>4 DEF JoinWorker, CountJoinFailure, NoJoinFailure, FlagTypes
  <2>5. CASE FinishRelease
    BY <1>1, <2>5 DEF FinishRelease, FreeArrays, AggregateOverflows, FlagTypes
  <2>6. ASSUME NEW w, WorkerReady(w) \/ WorkerExits(w)
        PROVE  /\ allocated' \in BOOLEAN /\ worker_sync_initialized' \in BOOLEAN
               /\ worker_accounting_overflow' \in BOOLEAN
    BY <1>1, <2>6
       DEF WorkerReady, WorkerExits, record_worker_exit, failureVars, FlagTypes
  <2>7. QED
    BY <2>1, <2>2, <2>3, <2>4, <2>5, <2>6, WorkerFrame
<1>4. all_joined' \in BOOLEAN
  <2>1. CASE UNCHANGED joinVars
    BY <1>1, <2>1 DEF FlagTypes, joinVars
  <2>2. CASE JoinWaits \/ StartAborts
    BY <1>1, <2>2 DEF JoinWaits, StartAborts, BeginRelease, FlagTypes, joinVars
  <2>3. CASE JoinWorker \/ FinishRelease
    BY <1>1, <2>3 DEF JoinWorker, FinishRelease, JoinFailureKept, FlagTypes
  <2>4. QED
    BY <2>1, <2>2, <2>3, LocalsFrame
       DEF register_submitter, deregister_submitter, WorkerCountsDequeue,
           WorkerExecutes, WorkerExits, record_worker_exit
<1>5. QED
  BY <1>2, <1>3, <1>4 DEF FlagTypes

(* A saturating increment stays within the counter. *)
LEMMA IncrementType ==
    ASSUME NEW n \in 0..CounterMax
    PROVE  Increment(n) \in 0..CounterMax /\ Overflows(n) \in BOOLEAN
BY SchedulerAssumption DEF Increment, Overflows

(* So does a saturating addition. *)
LEMMA SumType ==
    ASSUME NEW n \in 0..CounterMax, NEW v \in Nat
    PROVE  add_saturating(n, v) \in 0..CounterMax
BY SchedulerAssumption DEF add_saturating, SumOverflows

(* The unbounded counts stay natural numbers. *)
LEMMA TallyType ==
    ASSUME tally \in [Tallied -> Nat], NEW c \in Tallied, Tally(c)
    PROVE  tally' \in [Tallied -> Nat]
BY DEF Tally

(* What the exit of a worker does. *)
LEMMA ExitFacts ==
    ASSUME NEW w \in Workers, WorkerExits(w), active_worker_count \in Nat
    PROVE  /\ active_worker_count' \in Nat
           /\ active_worker_count # 0 => active_worker_count' = active_worker_count - 1
           /\ \E n \in 0..2 :
                 /\ worker_runtime_failure_count' =
                       add_saturating(worker_runtime_failure_count, n)
                 /\ worker_accounting_overflow' =
                       (\/ worker_accounting_overflow
                        \/ SumOverflows(worker_runtime_failure_count, n))
                 /\ tally' = [tally EXCEPT !["runtime_failures"] = @ + n]
           /\ \E e \in {"OK", "QUEUE", "SYNCHRONIZATION"} : exit' = [exit EXCEPT ![w] = e]
           /\ Goto(w, "exited")
<1>1. PICK code \in {"OK", "QUEUE"} : record_worker_exit(w, code)
  BY DEF WorkerExits
<1> DEFINE uncounted == active_worker_count = 0
           final == IF uncounted THEN "SYNCHRONIZATION" ELSE code
           failures == (IF uncounted THEN 1 ELSE 0) + (IF final = "OK" THEN 0 ELSE 1)
<1>2. failures \in 0..2 /\ final \in {"OK", "QUEUE", "SYNCHRONIZATION"}
  OBVIOUS
<1>3. /\ active_worker_count' = IF uncounted THEN 0 ELSE active_worker_count - 1
      /\ worker_runtime_failure_count' =
             add_saturating(worker_runtime_failure_count, failures)
      /\ worker_accounting_overflow' =
             (\/ worker_accounting_overflow
              \/ SumOverflows(worker_runtime_failure_count, failures))
      /\ tally' = [tally EXCEPT !["runtime_failures"] = @ + failures]
      /\ exit' = [exit EXCEPT ![w] = final]
      /\ Goto(w, "exited")
  BY <1>1, Zenon DEF record_worker_exit
<1>4. /\ active_worker_count' \in Nat
      /\ active_worker_count # 0 => active_worker_count' = active_worker_count - 1
  BY <1>3
<1> HIDE DEF uncounted, final, failures
<1>5. QED
  BY <1>2, <1>3, <1>4

(* The submission counters stay within their range. *)
LEMMA LifecycleTypesStep ==
    ASSUME TypeOK, [Next]_vars
    PROVE  LifecycleTypes'
<1>1. LifecycleTypes
  BY TypeParts
<1>2. CASE UNCHANGED lifecycleVars
  BY <1>1, <1>2 DEF LifecycleTypes, lifecycleVars, submissionVars
<1>3. CASE \/ StartBegins \/ StartAllocates \/ StartPublishes \/ StartFails
           \/ ShutdownBegins \/ JoinPublishes
  BY <1>1, <1>3
     DEF StartBegins, StartAllocates, StartPublishes, StartFails, ShutdownBegins,
         JoinPublishes, LifecycleTypes, LifecycleStates, submissionVars
<1>4. CASE scheduler_destroy
  BY <1>1, <1>4
     DEF scheduler_destroy, Refused, LifecycleTypes, lifecycleVars, submissionVars
<1>5. ASSUME NEW t \in Workers \cup Submitters,
             NEW call \in {"submit", "try_submit"}, register_submitter(t, call)
      PROVE  LifecycleTypes'
  <2>1. submitted_count' \in 0..CounterMax
    BY <1>1, <1>5, IncrementType DEF register_submitter, LifecycleTypes
  <2>2. rejected_count' \in 0..CounterMax /\ active_submitter_count' \in Nat
    BY <1>1, <1>5, IncrementType DEF register_submitter, LifecycleTypes
  <2>3. state' = state /\ accepted_count' = accepted_count
    BY <1>5 DEF register_submitter
  <2>4. QED
    BY <1>1, <2>1, <2>2, <2>3 DEF LifecycleTypes
<1>6. ASSUME NEW t \in Workers \cup Submitters, deregister_submitter(t)
      PROVE  LifecycleTypes'
  <2>1. active_submitter_count' \in Nat
    BY <1>1, <1>6 DEF deregister_submitter, Leaves, LifecycleTypes
  <2>2. accepted_count' \in 0..CounterMax /\ rejected_count' \in 0..CounterMax
    BY <1>1, <1>6, IncrementType DEF deregister_submitter, LifecycleTypes
  <2>3. state' = state /\ submitted_count' = submitted_count
    BY <1>6 DEF deregister_submitter
  <2>4. QED
    BY <1>1, <2>1, <2>2, <2>3 DEF LifecycleTypes
<1>7. QED
  BY <1>2, <1>3, <1>4, <1>5, <1>6, LifecycleFrame

(* The history keeps its types: a submission returns one of the codes. *)
LEMMA HistoryTypesStep ==
    ASSUME BaseInv, [Next]_vars
    PROVE  HistoryTypes'
<1>1. HistoryTypes
  BY TypeParts DEF BaseInv
<1>2. CASE UNCHANGED history
  BY <1>1, <1>2 DEF HistoryTypes, history
<1>3. CASE StartCreates
  BY <1>1, <1>3, TallyType DEF StartCreates, HistoryTypes, Tallied
<1>4. CASE JoinWorker
  BY <1>1, <1>4, TallyType
     DEF JoinWorker, CountJoinFailure, NoJoinFailure, HistoryTypes, Tallied
<1>5. ASSUME NEW t \in Workers \cup Submitters,
             NEW call \in {"submit", "try_submit"}, register_submitter(t, call)
      PROVE  HistoryTypes'
  <2>1. tally' \in [Tallied -> Nat]
    BY <1>1, <1>5, TallyType DEF register_submitter, HistoryTypes, Tallied
  <2>2. outcome' \in [Tasks -> SchedulerCodes]
    BY <1>1, <1>5 DEF register_submitter, HistoryTypes, SchedulerCodes
  <2>3. QED
    BY <1>1, <1>5, <2>1, <2>2 DEF register_submitter, HistoryTypes
<1>6. ASSUME NEW t \in Workers \cup Submitters, deregister_submitter(t)
      PROVE  HistoryTypes'
  <2>1. /\ map_blocking_enqueue_result(qret[t][1]) \in SchedulerCodes
        /\ map_try_enqueue_result(qret[t][1]) \in SchedulerCodes
    BY DEF map_blocking_enqueue_result, map_try_enqueue_result, SchedulerCodes
  <2>2. QED
    BY <1>1, <1>6, <2>1 DEF deregister_submitter, HistoryTypes, SchedulerCodes
<1>7. ASSUME NEW w \in Workers, WorkerExecutes(w) \/ CallbackReturns(w)
      PROVE  HistoryTypes'
  BY <1>1, <1>7 DEF WorkerExecutes, CallbackReturns, Tally, Tallied, HistoryTypes
<1>8. ASSUME NEW w \in Workers, WorkerExits(w)
      PROVE  HistoryTypes'
  <2>1. PICK n \in 0..2 : tally' = [tally EXCEPT !["runtime_failures"] = @ + n]
    BY <1>8, ExitFacts, TypeParts DEF BaseInv, WorkerTypes
  <2>2. executed' = executed /\ outcome' = outcome
    BY <1>8 DEF WorkerExits, record_worker_exit
  <2>3. QED
    BY <1>1, <2>1, <2>2 DEF HistoryTypes, Tallied
<1>9. QED
  BY <1>2, <1>3, <1>4, <1>5, <1>6, <1>7, <1>8, HistoryFrame

(* The task in hand is a task: what dequeue returned with OK is one. *)
LEMMA LocalTypesStep ==
    ASSUME BaseInv, [Next]_vars
    PROVE  LocalTypes'
<1>1. LocalTypes /\ tally \in [Tallied -> Nat]
  BY TypeParts DEF BaseInv, HistoryTypes
<1>2. CASE UNCHANGED <<task, exit, joinVars>>
  BY <1>1, <1>2 DEF LocalTypes, joinVars
<1>3. CASE JoinWaits \/ StartAborts
  BY <1>1, <1>3 DEF JoinWaits, StartAborts, BeginRelease, LocalTypes, joinVars
<1>4. CASE JoinWorker \/ FinishRelease
  BY <1>1, <1>4
     DEF JoinWorker, FinishRelease, Released, JoinFailureKept, LocalTypes
<1>5. ASSUME NEW t \in Workers \cup Submitters,
             NEW call \in {"submit", "try_submit"}, register_submitter(t, call)
      PROVE  LocalTypes'
  <2>1. tally["submitted"] + 1 \in Tasks
    BY <1>1, <1>5, SchedulerAssumption DEF register_submitter, Tasks, Tallied
  <2>2. QED
    BY <1>1, <1>5, <2>1 DEF register_submitter, LocalTypes, joinVars
<1>6. ASSUME NEW t \in Workers \cup Submitters, deregister_submitter(t)
      PROVE  LocalTypes'
  BY <1>1, <1>6 DEF deregister_submitter, LocalTypes, joinVars
<1>7. ASSUME NEW w \in Workers, WorkerCountsDequeue(w)
      PROVE  LocalTypes'
  <2>1. qret[w][2] \in Tasks
    BY <1>7, ThreadKinds DEF WorkerCountsDequeue, BaseInv, QueueUse
  <2>2. QED
    BY <1>1, <1>7, <2>1 DEF WorkerCountsDequeue, LocalTypes, joinVars
<1>8. ASSUME NEW w \in Workers, WorkerExecutes(w) \/ WorkerExits(w)
      PROVE  LocalTypes'
  BY <1>1, <1>8
     DEF WorkerExecutes, WorkerExits, record_worker_exit, LocalTypes, joinVars
<1>9. QED
  BY <1>2, <1>3, <1>4, <1>5, <1>6, <1>7, <1>8, LocalsFrame

(* The running count of a worker never drops below zero. *)
LEMMA ContextTypesStep ==
    ASSUME BaseInv, [Next]_vars
    PROVE  ContextTypes'
<1>1. ContextTypes
  BY TypeParts DEF BaseInv
<1>2. CASE UNCHANGED contextVars
  BY <1>1, <1>2 DEF ContextTypes, contextVars
<1>3. CASE FinishRelease
  <2>1. [w \in Workers |-> ZeroCounters] \in [Workers -> [Counters -> 0..CounterMax]]
    BY SchedulerAssumption DEF ZeroCounters
  <2>2. CASE all_joined
    BY <1>3, <2>1, <2>2 DEF FinishRelease, ContextTypes
  <2>3. CASE ~all_joined
    BY <1>1, <1>3, <2>3 DEF FinishRelease, ContextTypes, contextVars
  <2>4. QED
    BY <2>2, <2>3
<1>4. ASSUME NEW w \in Workers, NEW c \in Counters, Count(w, c)
      PROVE  ContextTypes'
  <2>1. context[w][c] \in 0..CounterMax
    BY <1>1 DEF ContextTypes
  <2>2. Increment(context[w][c]) \in 0..CounterMax /\ Overflows(context[w][c]) \in BOOLEAN
    BY <2>1, IncrementType
  <2>3. QED
    BY <1>1, <1>4, <2>2 DEF Count, ContextTypes
<1>5. ASSUME NEW w \in Workers,
             WorkerCountsDequeue(w) \/ WorkerCountsStart(w) \/ CallbackReturns(w)
      PROVE  ContextTypes'
  BY <1>4, <1>5
     DEF WorkerCountsDequeue, WorkerCountsStart, CallbackReturns, Counters
<1>6. ASSUME NEW w \in Workers, WorkerCountsStop(w)
      PROVE  ContextTypes'
  <2>1. context[w]["running"] - 1 \in 0..CounterMax
    BY <1>6, SchedulerAssumption DEF WorkerCountsStop, BaseInv, RunningExact, RunningLabels
  <2>2. QED
    BY <1>1, <1>6, <2>1 DEF WorkerCountsStop, ContextTypes
<1>7. QED
  BY <1>2, <1>3, <1>5, <1>6, ContextFrame

(* Aggregate adds up the counters of the workers. *)
LEMMA LeastNumber ==
    ASSUME NEW T \in SUBSET Nat, T # {}
    PROVE  \E m \in T : \A n \in T : m <= n
<1>1. PICK m \in T : \A n \in T : ~ (<<n, m>> \in OpToRel(<, Nat))
  BY NatLessThanWellFounded, WFMin
<1>2. \A n \in T : ~(n < m)
  BY <1>1 DEF OpToRel
<1>3. QED
  BY <1>2

Sums(f, counter, n) ==
    f = [w \in 0..n |-> IF w = 0 THEN total[counter]
                        ELSE add_saturating(f[w - 1], context[w][counter])]

(* The function defined by this recursion exists, whatever the number of workers. *)
LEMMA SumsExist ==
    ASSUME NEW counter PROVE \A n \in Nat : \E f : Sums(f, counter, n)
<1> DEFINE T == {n \in Nat : ~ \E f : Sums(f, counter, n)}
<1> SUFFICES ASSUME T # {} PROVE FALSE
  OBVIOUS
<1>1. PICK m \in T : \A n \in T : m <= n
  BY LeastNumber
<1>2. m # 0
  <2> DEFINE f == [w \in 0..0 |-> total[counter]]
  <2>1. Sums(f, counter, 0)
    BY DEF Sums
  <2>2. QED
    BY <2>1
<1>3. PICK g : Sums(g, counter, m - 1)
  BY <1>1, <1>2
<1> DEFINE f == [w \in 0..m |-> IF w = m THEN add_saturating(g[m - 1], context[m][counter])
                               ELSE g[w]]
<1>4. \A w \in 0..(m - 1) : g[w] = IF w = 0 THEN total[counter]
                                   ELSE add_saturating(g[w - 1], context[w][counter])
  BY <1>3, <1>2 DEF Sums
<1>5. ASSUME NEW w \in 0..m
      PROVE  f[w] = IF w = 0 THEN total[counter]
                    ELSE add_saturating(f[w - 1], context[w][counter])
  <2>1. CASE w = m
    BY <1>2, <2>1
  <2>2. CASE w = 0
    BY <1>2, <1>4, <2>2
  <2>3. CASE w # m /\ w # 0
    <3>1. w \in 0..(m - 1) /\ w - 1 \in 0..m /\ w - 1 # m
      BY <2>3
    <3>2. f[w] = g[w] /\ f[w - 1] = g[w - 1]
      BY <2>3, <3>1
    <3>3. QED
      BY <1>4, <2>3, <3>1, <3>2
  <2>4. QED
    BY <2>1, <2>2, <2>3
<1>6. Sums(f, counter, m)
  BY <1>5 DEF Sums
<1>7. QED
  BY <1>1, <1>6

(* Aggregate satisfies its recursive definition. *)
LEMMA AggregateSums ==
    ASSUME NEW counter PROVE Sums(Aggregate(counter), counter, WorkerCount)
<1>1. PICK f : Sums(f, counter, WorkerCount)
  BY SumsExist, SchedulerAssumption
<1>2. QED
  BY <1>1 DEF Sums, Aggregate

(* The aggregate stays within the counter. *)
LEMMA AggregateType ==
    ASSUME NEW c \in Counters, total \in [Counters -> 0..CounterMax], ContextTypes
    PROVE  Aggregate(c) \in [0..WorkerCount -> 0..CounterMax]
<1> DEFINE f == Aggregate(c)
           T == {n \in 0..WorkerCount : ~ (f[n] \in 0..CounterMax)}
<1>1. f = [w \in 0..WorkerCount |-> IF w = 0 THEN total[c]
                                    ELSE add_saturating(f[w - 1], context[w][c])]
  BY AggregateSums DEF Sums
<1>2. T = {}
  <2>1. SUFFICES ASSUME T # {} PROVE FALSE
    OBVIOUS
  <2> HIDE DEF f
  <2>2. PICK m \in T : \A n \in T : m <= n
    <3>1. T \in SUBSET Nat
      BY SchedulerAssumption
    <3>2. QED
      BY <2>1, <3>1, LeastNumber
  <2>3. f[0] = total[c]
    BY <1>1, SchedulerAssumption
  <2>4. m \in 1..WorkerCount
    BY <2>2, <2>3
  <2>5. f[m - 1] \in 0..CounterMax
    <3>1. m - 1 \in 0..WorkerCount /\ ~ (m <= m - 1)
      BY <2>4, SchedulerAssumption
    <3>2. QED
      BY <2>2, <3>1
  <2>6. f[m] = add_saturating(f[m - 1], context[m][c])
    BY <1>1, <2>4
  <2>7. context[m][c] \in Nat
    BY <2>4 DEF ContextTypes, Workers
  <2>8. f[m] \in 0..CounterMax
    BY <2>5, <2>6, <2>7, SumType
  <2>9. QED
    BY <2>2, <2>8
<1>3. QED
  BY <1>1, <1>2

(* The worker fields keep their types, the aggregated totals included. *)
LEMMA WorkerTypesStep ==
    ASSUME BaseInv, [Next]_vars
    PROVE  WorkerTypes'
<1>1. WorkerTypes /\ ContextTypes
  BY TypeParts DEF BaseInv
<1>2. CASE UNCHANGED workerVars
  BY <1>1, <1>2 DEF WorkerTypes, workerVars, failureVars
<1>3. CASE scheduler_destroy
  BY <1>1, <1>3 DEF scheduler_destroy, Refused, WorkerTypes, workerVars, failureVars
<1>4. CASE StartAllocates
  BY <1>1, <1>4 DEF StartAllocates, WorkerTypes, failureVars
<1>5. CASE StartCreates
  <2>1. /\ UNCHANGED <<ready_worker_count, active_worker_count, joined_worker_count,
                       total, worker_runtime_failure_count, join_failure_count>>
    BY <1>5 DEF StartCreates
  <2>2. started_worker_count' \in 0..WorkerCount /\ created_worker_count' \in Nat
    <3>1. \/ UNCHANGED <<started_worker_count, created_worker_count>>
          \/ started_worker_count < WorkerCount /\ CountCreated
      BY <1>5 DEF StartCreates
    <3>2. QED
      BY <1>1, <3>1, SchedulerAssumption DEF CountCreated, WorkerTypes
  <2>3. handle' \in [Workers -> BOOLEAN]
    <3>1. handle' = handle \/ \E w : handle' = [handle EXCEPT ![w] = TRUE]
      BY <1>5 DEF StartCreates
    <3>2. QED
      BY <1>1, <3>1 DEF WorkerTypes
  <2>4. worker_startup_failure_count' \in 0..CounterMax
    BY <1>1, <1>5, IncrementType DEF StartCreates, WorkerTypes
  <2>5. QED
    BY <1>1, <2>1, <2>2, <2>3, <2>4 DEF WorkerTypes
<1>6. CASE JoinWorker
  <2>1. /\ UNCHANGED <<started_worker_count, created_worker_count, ready_worker_count,
                       active_worker_count, total, worker_startup_failure_count,
                       worker_runtime_failure_count>>
    BY <1>6 DEF JoinWorker
  <2>2. handle' \in [Workers -> BOOLEAN]
    BY <1>1, <1>6 DEF JoinWorker, Released, WorkerTypes
  <2>3. joined_worker_count' \in Nat
    BY <1>1, <1>6 DEF JoinWorker, WorkerTypes
  <2>4. join_failure_count' \in 0..CounterMax
    BY <1>1, <1>6, IncrementType DEF JoinWorker, CountJoinFailure, NoJoinFailure, WorkerTypes
  <2>5. QED
    BY <1>1, <2>1, <2>2, <2>3, <2>4 DEF WorkerTypes
<1>7. CASE FinishRelease
  <2>1. UNCHANGED <<handle, created_worker_count, active_worker_count,
                    joined_worker_count, worker_startup_failure_count,
                    worker_runtime_failure_count, join_failure_count>>
    BY <1>7 DEF FinishRelease
  <2>2. started_worker_count' \in 0..WorkerCount /\ ready_worker_count' \in Nat
    BY <1>1, <1>7, SchedulerAssumption DEF FinishRelease, FreeArrays, WorkerTypes
  <2>3. total' \in [Counters -> 0..CounterMax]
    <3>1. ASSUME NEW c \in Counters
          PROVE  Aggregate(c)[WorkerCount] \in 0..CounterMax
      <4>1. WorkerCount \in 0..WorkerCount
        BY SchedulerAssumption
      <4>2. QED
        BY <1>1, <4>1, AggregateType DEF WorkerTypes
    <3>2. CASE total' = total
      BY <1>1, <3>2 DEF WorkerTypes
    <3>3. CASE total' = [c \in Counters |-> IF c \in Aggregated
                                              THEN Aggregate(c)[WorkerCount] ELSE total[c]]
      BY <1>1, <3>1, <3>3 DEF WorkerTypes
    <3>4. QED
      BY <1>7, <3>2, <3>3 DEF FinishRelease
  <2>4. QED
    BY <1>1, <2>1, <2>2, <2>3 DEF WorkerTypes
<1>8. ASSUME NEW w \in Workers, WorkerReady(w)
      PROVE  WorkerTypes'
  BY <1>1, <1>8 DEF WorkerReady, WorkerTypes, failureVars
<1>9. ASSUME NEW w \in Workers, WorkerExits(w)
      PROVE  WorkerTypes'
  <2>1. UNCHANGED <<handle, started_worker_count, created_worker_count,
                    ready_worker_count, joined_worker_count, total,
                    worker_startup_failure_count, join_failure_count>>
    BY <1>9 DEF WorkerExits, record_worker_exit
  <2>2. active_worker_count' \in Nat
    BY <1>1, <1>9, ExitFacts DEF WorkerTypes
  <2>3. PICK n \in 0..2 : worker_runtime_failure_count' =
                             add_saturating(worker_runtime_failure_count, n)
    BY <1>1, <1>9, ExitFacts DEF WorkerTypes
  <2>4. worker_runtime_failure_count' \in 0..CounterMax
    <3>1. n \in Nat /\ worker_runtime_failure_count \in 0..CounterMax
      BY <1>1 DEF WorkerTypes
    <3>2. QED
      BY <2>3, <3>1, SumType
  <2>5. QED
    BY <1>1, <2>1, <2>2, <2>4 DEF WorkerTypes
<1>10. QED
  BY <1>2, <1>3, <1>4, <1>5, <1>6, <1>7, <1>8, <1>9, WorkerFrame

(* Every thread stays within the labels of its kind. *)
LEMMA PcTypesStep ==
    ASSUME TypeOK, [Next]_vars
    PROVE  PcTypes'
<1> USE ThreadKinds
<1>1. PcTypes
  BY TypeParts
<1>2. ASSUME UNCHANGED pc PROVE PcTypes'
  BY <1>1, <1>2 DEF PcTypes
<1>3. ASSUME NEW label \in MainLabels, Goto(Main, label) PROVE PcTypes'
  BY <1>1, <1>3 DEF PcTypes, Goto
<1>4. ASSUME NEW w \in Workers, NEW label \in WorkerLabels, Goto(w, label) PROVE PcTypes'
  BY <1>1, <1>4 DEF PcTypes, Goto
<1>5. ASSUME NEW t \in Workers \cup Submitters, NEW label \in SubmitLabels, Goto(t, label)
      PROVE  PcTypes'
  BY <1>1, <1>5 DEF PcTypes, Goto, WorkerLabels
<1>6. ASSUME NEW t \in Workers \cup Submitters, NEW l, NEW m \in MainLabels,
             l = Home(t) \/ (t \in Workers /\ l \in WorkerLabels),
             pc' = [pc EXCEPT ![t] = l, ![Main] = m]
      PROVE  PcTypes'
  <2>1. l \in WorkerLabels \/ (t \in Submitters /\ l = "idle")
    BY <1>6 DEF Home, WorkerLabels
  <2>2. l \in WorkerLabels \cup MainLabels
    BY <2>1 DEF MainLabels
  <2>3. \A u \in Threads : pc'[u] = IF u = Main THEN m ELSE IF u = t THEN l ELSE pc[u]
    BY <1>1, <1>6 DEF PcTypes
  <2>4. pc' \in [Threads -> WorkerLabels \cup MainLabels]
    BY <1>1, <1>6, <2>2 DEF PcTypes
  <2>5. t \in Workers => l \in WorkerLabels
    BY <2>1
  <2>6. t \in Submitters => l = "idle"
    BY <1>6, <2>1 DEF Home
  <2>7. QED
    BY <1>1, <2>3, <2>4, <2>5, <2>6 DEF PcTypes
<1>7. pc[Main] \in MainLabels /\ LifecycleWake(pc[Main]) \in MainLabels
      /\ WorkerWake(pc[Main]) \in MainLabels
      /\ WorkerWake(LifecycleWake(pc[Main])) \in MainLabels
  BY <1>1 DEF PcTypes, MainLabels, LifecycleWake, WorkerWake
<1>8. CASE LifecycleCallReturnsAtOnce \/ scheduler_destroy \/ JoinWorker \/ UNCHANGED vars
  BY <1>2, <1>8
     DEF LifecycleCallReturnsAtOnce, scheduler_destroy, Refused, JoinWorker, vars
<1>9. CASE \/ StartBegins \/ ShutdownBegins \/ StartAllocates \/ StartPublishes
           \/ StartAborts \/ StartFails \/ StartWaits
  BY <1>3, <1>9
     DEF StartBegins, ShutdownBegins, StartAllocates, StartPublishes, StartAborts,
         StartFails, StartWaits, BeginRelease, LifecycleReturns, MainLabels
<1>10. CASE \/ JoinWaits \/ FinishRelease \/ ShutdownQueue \/ ShutdownWaits
            \/ JoinPublishes \/ JoinWaitFails
  BY <1>3, <1>10
     DEF JoinWaits, FinishRelease, AfterRelease, ShutdownQueue, ShutdownWaits,
         JoinPublishes, JoinWaitFails, BeginRelease, LifecycleReturns, MainLabels
<1>11. CASE MainSpuriousWakeup
  BY <1>3, <1>7, <1>11 DEF MainSpuriousWakeup
<1>12. CASE StartCreates
  <2>1. CASE Goto(Main, "start_abort")
    BY <1>3, <2>1 DEF MainLabels
  <2>2. CASE \E m \in MainLabels :
               pc' = [pc EXCEPT ![started_worker_count + 1] = "entry", ![Main] = m]
    <3>1. started_worker_count + 1 \in Workers
      BY <1>12, TypeParts, SchedulerAssumption DEF StartCreates, WorkerTypes, Workers
    <3>2. QED
      BY <1>6, <2>2, <3>1 DEF WorkerLabels
  <2>3. QED
    BY <1>7, <1>12, <2>1, <2>2 DEF StartCreates, MainLabels
<1>13. ASSUME NEW t \in Workers \cup Submitters,
              NEW call \in {"submit", "try_submit"}, register_submitter(t, call)
       PROVE  PcTypes'
  BY <1>2, <1>5, <1>13 DEF register_submitter, SubmitLabels
<1>14. ASSUME NEW t \in Workers \cup Submitters, SubmitToQueue(t)
       PROVE  PcTypes'
  BY <1>5, <1>14 DEF SubmitToQueue, SubmitLabels
<1>15. ASSUME NEW t \in Workers \cup Submitters, deregister_submitter(t)
       PROVE  PcTypes'
  <2>1. PICK m \in MainLabels : pc' = [pc EXCEPT ![t] = Home(t), ![Main] = m]
    BY <1>7, <1>15 DEF deregister_submitter
  <2>2. QED
    BY <1>6, <2>1, Zenon
<1>16. ASSUME NEW t \in Workers \cup Submitters, QueueResumes(t) \/ QueueWaitEnds(t)
       PROVE  PcTypes'
  BY <1>2, <1>16 DEF QueueResumes, QueueWaitEnds
<1>17. ASSUME NEW w \in Workers, WorkerReady(w)
       PROVE  PcTypes'
  <2>1. pc' = [pc EXCEPT ![w] = "dequeue", ![Main] = WorkerWake(@)]
    BY <1>17 DEF WorkerReady
  <2>2. "dequeue" \in WorkerLabels
    BY DEF WorkerLabels
  <2>3. pc' = [pc EXCEPT ![w] = "dequeue", ![Main] = WorkerWake(pc[Main])]
    BY <1>1, <2>1 DEF PcTypes
  <2>4. QED
    BY <1>6, <1>7, <2>2, <2>3
<1>18. ASSUME NEW w \in Workers,
              \/ WorkerDequeue(w) \/ WorkerCountsDequeue(w)
              \/ WorkerCountsStart(w) \/ WorkerExecutes(w) \/ CallbackReturns(w)
              \/ WorkerCountsStop(w) \/ WorkerQueueFailure(w) \/ WorkerExits(w)
       PROVE  PcTypes'
  BY <1>4, <1>18
     DEF WorkerDequeue, WorkerCountsDequeue, WorkerCountsStart, WorkerExecutes,
         CallbackReturns, WorkerCountsStop, WorkerQueueFailure, WorkerExits,
         record_worker_exit, WorkerLabels, TaskInHandLabels
<1>19. QED
  BY <1>8, <1>9, <1>10, <1>11, <1>12, <1>13, <1>14, <1>15, <1>16, <1>17, <1>18,
     NextCases

(* The types after a step. *)
LEMMA TypeStep ==
    ASSUME BaseInv, [Next]_vars
    PROVE  TypeOK'
<1>1. TypeOK
  BY DEF BaseInv
<1>2. /\ FlagTypes' /\ LifecycleTypes' /\ WorkerTypes' /\ ContextTypes'
      /\ PcTypes' /\ LocalTypes' /\ HistoryTypes'
  BY <1>1, FlagTypesStep, LifecycleTypesStep, WorkerTypesStep, ContextTypesStep,
     PcTypesStep, LocalTypesStep, HistoryTypesStep
<1>3. QED
  BY <1>2
     DEF TypeOK, FlagTypes, LifecycleTypes, WorkerTypes, ContextTypes, PcTypes,
         LocalTypes, HistoryTypes

-----------------------------------------------------------------------------
(* What Main does that moves no other thread and leaves the queue alone. *)
MainOnly ==
    \/ LifecycleCallReturnsAtOnce \/ StartBegins \/ ShutdownBegins
    \/ JoinWaits \/ scheduler_destroy \/ StartAllocates
    \/ StartPublishes \/ StartFails \/ StartWaits
    \/ JoinWorker \/ FinishRelease \/ ShutdownWaits
    \/ JoinPublishes \/ JoinWaitFails \/ MainSpuriousWakeup

(* Such a step moves Main alone. *)
LEMMA MainOnlyFrame ==
    ASSUME TypeOK, MainOnly
    PROVE  /\ UNCHANGED <<queueVars, task>>
           /\ \A u \in Threads : u # Main => pc'[u] = pc[u]
<1>1. UNCHANGED <<queueVars, task>>
  BY DEF MainOnly, LifecycleCallReturnsAtOnce, Refused, StartBegins, ShutdownBegins,
         JoinWaits, scheduler_destroy, StartAllocates, StartPublishes, StartFails,
         StartWaits, JoinWorker, FinishRelease, ShutdownWaits, JoinPublishes,
         JoinWaitFails, MainSpuriousWakeup
<1>2. pc' = pc \/ \E label : Goto(Main, label)
  BY DEF MainOnly, LifecycleCallReturnsAtOnce, Refused, StartBegins, ShutdownBegins,
         JoinWaits, scheduler_destroy, StartAllocates, StartPublishes, StartFails,
         StartWaits, JoinWorker, FinishRelease, ShutdownWaits, JoinPublishes,
         JoinWaitFails, MainSpuriousWakeup, LifecycleReturns, BeginRelease
<1>3. QED
  BY <1>1, <1>2 DEF TypeOK, Goto

(* Goto moves one thread. *)
LEMMA GotoFacts ==
    ASSUME TypeOK, NEW t \in Threads, NEW label, Goto(t, label)
    PROVE  pc'[t] = label /\ \A u \in Threads : u # t => pc'[u] = pc[u]
BY DEF TypeOK, Goto

(* A step that leaves the queue alone disturbs nobody in it. *)
LEMMA BystandersQuiet ==
    ASSUME UNCHANGED queueVars, NEW t PROVE Bystanders(t)
BY DEF queueVars, Bystanders

-----------------------------------------------------------------------------
(* QueueUse of one thread. *)
QueueUseOf(t) ==
    /\ qpc[t] \in Q!ProducerStates => pc[t] = "submitted" /\ qarg[t] = task[t]
    /\ qpc[t] \in Q!ConsumerStates => pc[t] = "dequeued"
    /\ pc[t] \in SubmitLabels \cup TaskInHandLabels => task[t] \in Tasks
    /\ pc[t] = "dequeued" /\ qpc[t] = "idle" =>
           \/ qret[t][1] = "OK" /\ qret[t][2] \in Tasks
           \/ qret[t][1] \in {"SHUTDOWN", "SYSTEM"}
    /\ pc[t] = "submitted" /\ qpc[t] = "idle" =>
           qret[t][1] \in {"OK", "SHUTDOWN", "SYSTEM"}
    /\ pc[t] = "try_submitted" => qret[t][1] \in {"OK", "FULL", "SHUTDOWN"}

(* Only the thread that moves can disturb it. *)
LEMMA QueueUseLocal ==
    ASSUME BaseInv, TypeOK', NEW t \in Threads, Bystanders(t),
           \A u \in Threads : u # t => task'[u] = task[u] /\ (pc'[u] = pc[u] \/ u = Main),
           QueueUseOf(t)'
    PROVE  QueueUse'
<1>1. ASSUME NEW u \in Threads, u # t, u # Main
      PROVE  QueueUseOf(u)'
  <2>1. QueueUseOf(u)
    BY DEF BaseInv, QueueUse, QueueUseOf
  <2>2. QED
    BY <1>1, <2>1 DEF QueueUseOf, Bystanders
<1>2. CASE t # Main
  <2>1. qpc[Main] = "idle"
    BY ThreadKinds, OutsideQueue DEF BaseInv, QueueInv, TypeOK, MainLabels
  <2>2. qpc'[Main] = "idle" /\ pc'[Main] \in MainLabels
    BY <1>2, <2>1, ThreadKinds DEF Bystanders, TypeOK
  <2>3. QueueUseOf(Main)'
    BY <2>2 DEF QueueUseOf, MainLabels, SubmitLabels, TaskInHandLabels,
                Q!ProducerStates, Q!ConsumerStates
  <2>4. QED
    BY <1>1, <2>3 DEF QueueUse, QueueUseOf
<1>3. CASE t = Main
  BY <1>1, <1>3 DEF QueueUse, QueueUseOf
<1>4. QED
  BY <1>2, <1>3

(* A thread at a label where nothing is asked of it. *)
LEMMA QueueUseElsewhere ==
    ASSUME NEW t, qpc'[t] = "idle",
           pc'[t] \notin SubmitLabels \cup TaskInHandLabels \cup {"dequeued"}
    PROVE  QueueUseOf(t)'
BY DEF QueueUseOf, SubmitLabels, TaskInHandLabels, Q!ProducerStates, Q!ConsumerStates

(* Every step keeps QueueUse. *)
LEMMA QueueUseStep ==
    ASSUME BaseInv, [Next]_vars
    PROVE  QueueUse'
<1> USE ThreadKinds
<1>1. TypeOK /\ TypeOK' /\ QueueInv /\ QueueUse
  BY TypeStep DEF BaseInv
<1>2. qpc[Main] = "idle" /\ pc'[Main] \in MainLabels
  BY <1>1, OutsideQueue DEF QueueInv, TypeOK, MainLabels
<1>3. ASSUME NEW t \in Threads PROVE QueueUseOf(t)
  BY <1>1 DEF QueueUse, QueueUseOf
<1>4. ASSUME qpc'[Main] = "idle", Bystanders(Main), task' = task,
             \A u \in Threads : u # Main => pc'[u] = pc[u]
      PROVE  QueueUse'
  <2>1. QueueUseOf(Main)'
    BY <1>2, <1>4, QueueUseElsewhere DEF MainLabels, SubmitLabels, TaskInHandLabels
  <2>2. QED
    BY <1>1, <1>4, <2>1, QueueUseLocal
<1>5. CASE MainOnly
  <2>1. /\ UNCHANGED <<queueVars, task>>
        /\ \A u \in Threads : u # Main => pc'[u] = pc[u]
    BY <1>1, <1>5, MainOnlyFrame
  <2>2. QED
    BY <1>2, <1>4, <2>1, BystandersQuiet DEF queueVars
<1>6. CASE StartAborts \/ ShutdownQueue
  <2>1. Q!concurrent_task_queue_shutdown(Main) /\ task' = task
    BY <1>6 DEF StartAborts, ShutdownQueue
  <2>2. \A u \in Threads : u # Main => pc'[u] = pc[u]
    BY <1>1, <1>6, GotoFacts DEF StartAborts, ShutdownQueue, BeginRelease
  <2>3. QED
    BY <1>1, <1>4, <2>1, <2>2, ShutdownFacts
<1>7. CASE StartCreates
  <2>1. UNCHANGED <<queueVars, task>>
    BY <1>7 DEF StartCreates
  <2>2. CASE Goto(Main, "start_abort")
    BY <1>1, <1>2, <1>4, <2>1, <2>2, BystandersQuiet, GotoFacts DEF queueVars
  <2>3. ASSUME NEW w, w = started_worker_count + 1, NEW m,
               pc' = [pc EXCEPT ![w] = "entry", ![Main] = m]
        PROVE  QueueUse'
    <3>1. w \in Workers
      BY <1>1, <1>7, <2>3, TypeParts, SchedulerAssumption
         DEF StartCreates, WorkerTypes, Workers
    <3>2. pc'[w] = "entry" /\ \A u \in Threads : u # w => pc'[u] = pc[u] \/ u = Main
      BY <1>1, <2>3, <3>1 DEF TypeOK
    <3>3. qpc[w] = "idle"
      <4>1. ~handle[w]
        BY <1>1, <2>3, <3>1 DEF BaseInv, Handles, TypeOK
      <4>2. pc[w] \in {"none", "exited"}
        BY <3>1, <4>1 DEF BaseInv, Handles
      <4>3. QED
        BY <1>1, <3>1, <4>2, OutsideQueue DEF QueueInv
    <3>4. QueueUseOf(w)'
      BY <2>1, <3>2, <3>3, QueueUseElsewhere
         DEF queueVars, SubmitLabels, TaskInHandLabels
    <3>5. QED
      BY <2>1, <3>1, <3>2, <3>4, <1>1, QueueUseLocal, BystandersQuiet
  <2>4. QED
    BY <1>7, <2>2, <2>3 DEF StartCreates
<1>8. ASSUME NEW t \in Threads, NEW label, Goto(t, label), Bystanders(t),
             \A u \in Threads : u # t => task'[u] = task[u], QueueUseOf(t)'
      PROVE  QueueUse'
  BY <1>1, <1>8, GotoFacts, QueueUseLocal
<1>9. ASSUME NEW t \in Workers \cup Submitters,
             NEW call \in {"submit", "try_submit"}, register_submitter(t, call)
      PROVE  QueueUse'
  <2>1. CASE UNCHANGED <<pc, task>>
    <3>1. UNCHANGED queueVars
      BY <1>9 DEF register_submitter
    <3>2. QED
      BY <1>2, <1>4, <2>1, <3>1, BystandersQuiet DEF queueVars
  <2>2. CASE Goto(t, call) /\ \E k : task' = [task EXCEPT ![t] = k]
    <3>1. UNCHANGED queueVars /\ pc[t] = Home(t)
      BY <1>9 DEF register_submitter
    <3>2. qpc'[t] = "idle" /\ Bystanders(t)
      BY <1>1, <3>1, OutsideQueue, BystandersQuiet DEF Home, QueueInv, queueVars
    <3>3. pc'[t] = call /\ \A u \in Threads : u # t => task'[u] = task[u]
      BY <1>1, <2>2, GotoFacts DEF TypeOK
    <3>4. task'[t] \in Tasks
      <4>1. tally["submitted"] + 1 \in Tasks
        <5>1. tally["submitted"] \in Nat
          BY <1>1, TypeParts DEF HistoryTypes, Tallied
        <5>2. tally["submitted"] < MaxSubmissions
          BY <1>9 DEF register_submitter
        <5>3. QED
          BY <5>1, <5>2, SchedulerAssumption DEF Tasks
      <4>2. Goto(t, call) => task' = [task EXCEPT ![t] = tally["submitted"] + 1]
        <5>1. CASE GateOpen
          BY <1>9, <5>1 DEF register_submitter
        <5>2. CASE ~GateOpen
          <6>1. pc' = pc
            BY <1>9, <5>2 DEF register_submitter
          <6>2. QED
            BY <1>1, <3>1, <3>3, <6>1 DEF Home
        <5>3. QED
          BY <5>1, <5>2
      <4>3. QED
        BY <1>1, <2>2, <4>1, <4>2 DEF TypeOK
    <3>5. QueueUseOf(t)'
      BY <3>2, <3>3, <3>4 DEF QueueUseOf, Q!ProducerStates, Q!ConsumerStates
    <3>6. QED
      BY <1>8, <2>2, <3>2, <3>3, <3>5
  <2>3. QED
    BY <1>9, <2>1, <2>2 DEF register_submitter
<1>10. ASSUME NEW t \in Workers \cup Submitters, SubmitToQueue(t)
       PROVE  QueueUse'
  <2>1. pc[t] \in SubmitLabels /\ task' = task
    BY <1>10 DEF SubmitToQueue, SubmitLabels
  <2>2. task[t] \in Tasks
    BY <1>3, <2>1 DEF QueueUseOf
  <2>3. CASE Q!concurrent_task_queue_enqueue(t, task[t]) /\ Goto(t, "submitted")
    <3>1. /\ Bystanders(t)
          /\ \/ Asleep(t, "enqueue_wait") /\ qarg'[t] = task[t] /\ ~shutdown_requested
             \/ Answers(t, "SHUTDOWN") /\ shutdown_requested
             \/ Puts(t, task[t])
      BY <1>1, <2>2, <2>3, EnqueueFacts
    <3>2. pc'[t] = "submitted"
      BY <1>1, <2>3, GotoFacts
    <3>3. QueueUseOf(t)'
      BY <2>1, <2>2, <3>1, <3>2
         DEF QueueUseOf, Asleep, Answers, Puts, Q!ProducerStates, Q!ConsumerStates
    <3>4. QED
      BY <1>8, <2>1, <2>3, <3>1, <3>3
  <2>4. CASE Q!concurrent_task_queue_try_enqueue(t, task[t]) /\ Goto(t, "try_submitted")
    <3>1. /\ Bystanders(t)
          /\ \/ Answers(t, "SHUTDOWN") /\ shutdown_requested
             \/ Answers(t, "FULL") /\ ~shutdown_requested
             \/ Puts(t, task[t])
      BY <1>1, <2>2, <2>4, TryEnqueueFacts
    <3>2. pc'[t] = "try_submitted"
      BY <1>1, <2>4, GotoFacts
    <3>3. QueueUseOf(t)'
      BY <2>1, <2>2, <3>1, <3>2
         DEF QueueUseOf, Answers, Puts, Q!ProducerStates, Q!ConsumerStates
    <3>4. QED
      BY <1>8, <2>1, <2>4, <3>1, <3>3
  <2>5. QED
    BY <1>10, <2>3, <2>4 DEF SubmitToQueue
<1>11. ASSUME NEW t \in Workers \cup Submitters, deregister_submitter(t)
       PROVE  QueueUse'
  <2>1. UNCHANGED queueVars /\ qpc[t] = "idle" /\ task' = [task EXCEPT ![t] = NULL]
    BY <1>11 DEF deregister_submitter
  <2>2. \E m : pc' = [pc EXCEPT ![t] = Home(t), ![Main] = m]
    BY <1>11 DEF deregister_submitter
  <2>3. pc'[t] = Home(t) /\ \A u \in Threads : u # t => pc'[u] = pc[u] \/ u = Main
    BY <1>1, <2>2 DEF TypeOK
  <2>4. QueueUseOf(t)'
    BY <2>1, <2>3, QueueUseElsewhere DEF Home, SubmitLabels, TaskInHandLabels, queueVars
  <2>5. \A u \in Threads : u # t => task'[u] = task[u]
    BY <1>1, <2>1 DEF TypeOK
  <2>6. QED
    BY <1>1, <2>1, <2>3, <2>4, <2>5, QueueUseLocal, BystandersQuiet
<1>12. ASSUME NEW t \in Workers \cup Submitters, QueueResumes(t)
       PROVE  QueueUse'
  <2>1. UNCHANGED <<pc, task>> /\ Q!Resume(t)
    BY <1>12 DEF QueueResumes
  <2>2. Bystanders(t)
    BY <1>1, <2>1, ResumeFacts
  <2>3. QueueUseOf(t)'
    <3>1. CASE qpc[t] \in Q!ProducerStates
      <4>1. qpc[t] \notin Q!ConsumerStates /\ pc[t] = "submitted" /\ qarg[t] = task[t]
        BY <1>3, <3>1 DEF QueueUseOf, Q!ProducerStates, Q!ConsumerStates
      <4>2. /\ qarg[t] \in Tasks
            /\ \/ Asleep(t, "enqueue_wait") /\ qarg'[t] = qarg[t]
               \/ Answers(t, "SHUTDOWN")
               \/ Puts(t, qarg[t])
               \/ Answers(t, "SYSTEM")
        BY <1>1, <2>1, <4>1, ResumeFacts
      <4>3. QED
        BY <2>1, <4>1, <4>2
           DEF QueueUseOf, Asleep, Answers, Puts, Q!ProducerStates, Q!ConsumerStates
    <3>2. CASE qpc[t] \in Q!ConsumerStates
      <4>1. qpc[t] \notin Q!ProducerStates /\ pc[t] = "dequeued"
        BY <1>3, <3>2 DEF QueueUseOf, Q!ProducerStates, Q!ConsumerStates
      <4>2. \/ Asleep(t, "dequeue_wait")
            \/ Answers(t, "SHUTDOWN")
            \/ Takes(t)
            \/ Answers(t, "SYSTEM")
        BY <1>1, <2>1, <4>1, ResumeFacts
      <4>3. queue # <<>> => Head(queue) \in Tasks
        BY <1>1 DEF QueueInv, Q!TypeOK
      <4>4. QED
        BY <2>1, <4>1, <4>2, <4>3
           DEF QueueUseOf, Asleep, Answers, Takes, Q!ProducerStates, Q!ConsumerStates,
               SubmitLabels, TaskInHandLabels
    <3>3. QED
      BY <1>1, <2>1, <3>1, <3>2, ResumeFacts
  <2>4. QED
    BY <1>1, <2>1, <2>2, <2>3, QueueUseLocal
<1>13. ASSUME NEW t \in Workers \cup Submitters, QueueWaitEnds(t)
       PROVE  QueueUse'
  <2>1. UNCHANGED <<pc, task>> /\ (Q!SpuriousWakeup(t) \/ Q!WaitFails(t))
    BY <1>13 DEF QueueWaitEnds
  <2>2. Bystanders(t)
    BY <1>1, <2>1, WaitEndsFacts
  <2>3. /\ qret' = qret /\ qarg' = qarg
        /\ \/ qpc[t] = "enqueue_wait" /\ qpc'[t] \in {"enqueue_wake", "enqueue_fail"}
           \/ qpc[t] = "dequeue_wait" /\ qpc'[t] \in {"dequeue_wake", "dequeue_fail"}
    BY <1>1, <2>1, WaitEndsFacts
  <2>4. QueueUseOf(t)'
    BY <1>3, <2>1, <2>3 DEF QueueUseOf, Q!ProducerStates, Q!ConsumerStates
  <2>5. QED
    BY <1>1, <2>1, <2>2, <2>4, QueueUseLocal
<1>14. ASSUME NEW w \in Workers, WorkerReady(w)
       PROVE  QueueUse'
  <2>1. UNCHANGED <<queueVars, task>> /\ pc[w] = "entry"
    BY <1>14 DEF WorkerReady
  <2>2. \E m : pc' = [pc EXCEPT ![w] = "dequeue", ![Main] = m]
    BY <1>1, <1>14 DEF WorkerReady, TypeOK
  <2>3. pc'[w] = "dequeue" /\ \A u \in Threads : u # w => pc'[u] = pc[u] \/ u = Main
    BY <1>1, <2>2 DEF TypeOK
  <2>4. qpc[w] = "idle"
    BY <1>1, <2>1, OutsideQueue DEF QueueInv
  <2>5. QueueUseOf(w)'
    BY <2>1, <2>3, <2>4, QueueUseElsewhere DEF SubmitLabels, TaskInHandLabels, queueVars
  <2>6. QED
    BY <1>1, <2>1, <2>3, <2>5, QueueUseLocal, BystandersQuiet
<1>15. ASSUME NEW w \in Workers, WorkerDequeue(w)
       PROVE  QueueUse'
  <2>1. Q!concurrent_task_queue_dequeue(w) /\ Goto(w, "dequeued") /\ task' = task
    BY <1>15 DEF WorkerDequeue
  <2>2. /\ Bystanders(w)
        /\ \/ Asleep(w, "dequeue_wait") /\ ~shutdown_requested
           \/ Answers(w, "SHUTDOWN") /\ shutdown_requested /\ queue = <<>>
           \/ Takes(w)
    BY <1>1, <2>1, DequeueFacts
  <2>3. pc'[w] = "dequeued"
    BY <1>1, <2>1, GotoFacts
  <2>4. queue # <<>> => Head(queue) \in Tasks
    BY <1>1 DEF QueueInv, Q!TypeOK
  <2>5. QueueUseOf(w)'
    BY <2>2, <2>3, <2>4
       DEF QueueUseOf, Asleep, Answers, Takes, Q!ProducerStates, Q!ConsumerStates,
           SubmitLabels, TaskInHandLabels
  <2>6. QED
    BY <1>8, <2>1, <2>2, <2>5
<1>16. ASSUME NEW w \in Workers, WorkerCountsDequeue(w)
       PROVE  QueueUse'
  <2>1. /\ pc[w] = "dequeued" /\ qpc[w] = "idle" /\ qret[w][1] = "OK"
        /\ task' = [task EXCEPT ![w] = qret[w][2]]
        /\ Goto(w, "count_started") /\ UNCHANGED queueVars
    BY <1>16 DEF WorkerCountsDequeue
  <2>2. pc'[w] = "count_started"
    BY <1>1, <2>1, GotoFacts
  <2>3. task'[w] \in Tasks /\ \A u \in Threads : u # w => task'[u] = task[u]
    BY <1>1, <1>3, <2>1 DEF QueueUseOf, TypeOK
  <2>4. QueueUseOf(w)'
    BY <2>1, <2>2, <2>3 DEF QueueUseOf, queueVars, Q!ProducerStates, Q!ConsumerStates
  <2>5. QED
    BY <1>8, <2>1, <2>3, <2>4, BystandersQuiet
<1>17. ASSUME NEW w \in Workers, WorkerCountsStart(w)
       PROVE  QueueUse'
  <2>1. PICK label \in {"count_running", "execute"} :
             pc[w] \in TaskInHandLabels /\ Goto(w, label) /\ UNCHANGED <<queueVars, task>>
    BY <1>17 DEF WorkerCountsStart, TaskInHandLabels
  <2>2. pc'[w] = label
    BY <1>1, <2>1, GotoFacts
  <2>3. task'[w] \in Tasks /\ qpc[w] = "idle"
    BY <1>1, <1>3, <2>1, OutsideQueue DEF QueueUseOf, TaskInHandLabels, QueueInv
  <2>4. QueueUseOf(w)'
    BY <2>1, <2>2, <2>3 DEF QueueUseOf, queueVars, Q!ProducerStates, Q!ConsumerStates
  <2>5. QED
    BY <1>8, <2>1, <2>4, BystandersQuiet
<1>18. ASSUME NEW w \in Workers,
              \/ WorkerExecutes(w) \/ CallbackReturns(w) \/ WorkerCountsStop(w)
              \/ WorkerExits(w)
       PROVE  QueueUse'
  <2>1. PICK label \in {"callback", "count_stopped", "dequeue", "exited"} :
             /\ Goto(w, label) /\ UNCHANGED queueVars
             /\ task' = task \/ task' = [task EXCEPT ![w] = NULL]
             /\ pc[w] \in {"execute", "callback", "count_stopped", "abandon"} \/ qpc[w] = "idle"
    BY <1>18
       DEF WorkerExecutes, CallbackReturns, WorkerCountsStop, WorkerExits,
           record_worker_exit
  <2>2. pc'[w] = label
    BY <1>1, <2>1, GotoFacts
  <2>3. qpc'[w] = "idle"
    BY <1>1, <2>1, OutsideQueue DEF QueueInv, queueVars
  <2>4. QueueUseOf(w)'
    BY <2>2, <2>3, QueueUseElsewhere DEF SubmitLabels, TaskInHandLabels
  <2>5. \A u \in Threads : u # w => task'[u] = task[u]
    BY <1>1, <2>1 DEF TypeOK
  <2>6. QED
    BY <1>8, <2>1, <2>4, <2>5, BystandersQuiet
<1>19. ASSUME NEW w \in Workers, WorkerQueueFailure(w)
       PROVE  QueueUse'
  <2>1. Q!concurrent_task_queue_shutdown(w) /\ Goto(w, "abandon") /\ task' = task
    BY <1>19 DEF WorkerQueueFailure
  <2>2. pc'[w] = "abandon" /\ qpc'[w] = "idle" /\ Bystanders(w)
    BY <1>1, <2>1, GotoFacts, ShutdownFacts
  <2>3. QueueUseOf(w)'
    BY <2>2, QueueUseElsewhere DEF SubmitLabels, TaskInHandLabels
  <2>4. QED
    BY <1>8, <2>1, <2>2, <2>3
<1>20. CASE UNCHANGED vars
  BY <1>2, <1>4, <1>20, BystandersQuiet DEF vars, queueVars
<1>21. QED
  BY <1>5, <1>6, <1>7, <1>9, <1>10, <1>11, <1>12, <1>13, <1>14, <1>15, <1>16, <1>17,
     <1>18, <1>19, <1>20, NextCases
     DEF MainOnly

-----------------------------------------------------------------------------
(* What the creation of a worker does, or its failure. *)
LEMMA CreateFacts ==
    ASSUME TypeOK, StartCreates
    PROVE  /\ started_worker_count + 1 \in Workers /\ pc[Main] = "start_create"
           /\ \/ /\ pc'[Main] = "start_abort"
                 /\ \A u \in Threads : u # Main => pc'[u] = pc[u]
                 /\ UNCHANGED <<handle, started_worker_count, created_worker_count>>
              \/ /\ pc'[Main] = IF started_worker_count + 1 = WorkerCount
                                THEN "start_wait" ELSE "start_create"
                 /\ pc'[started_worker_count + 1] = "entry"
                 /\ \A u \in Threads :
                       u # Main /\ u # started_worker_count + 1 => pc'[u] = pc[u]
                 /\ handle' = [handle EXCEPT ![started_worker_count + 1] = TRUE]
                 /\ CountCreated
<1> DEFINE w == started_worker_count + 1
<1>1. w \in Workers /\ pc[Main] = "start_create"
  BY TypeParts, SchedulerAssumption DEF StartCreates, WorkerTypes, Workers
<1>2. \/ Goto(Main, "start_abort") /\ UNCHANGED <<handle, started_worker_count, created_worker_count>>
      \/ /\ handle' = [handle EXCEPT ![w] = TRUE] /\ CountCreated
         /\ pc' = [pc EXCEPT ![w] = "entry",
                             ![Main] = IF w = WorkerCount THEN "start_wait" ELSE @]
  BY DEF StartCreates
<1>3. w \in Threads /\ w # Main
  BY <1>1, ThreadKinds
<1> HIDE DEF w
<1>4. pc' = [pc EXCEPT ![w] = "entry",
                       ![Main] = IF w = WorkerCount THEN "start_wait" ELSE @]
      => /\ pc'[Main] = IF w = WorkerCount THEN "start_wait" ELSE "start_create"
         /\ pc'[w] = "entry"
         /\ \A u \in Threads : u # Main /\ u # w => pc'[u] = pc[u]
  BY <1>1, <1>3, ThreadKinds DEF TypeOK
<1>5. Goto(Main, "start_abort")
      => pc'[Main] = "start_abort" /\ \A u \in Threads : u # Main => pc'[u] = pc[u]
  BY ThreadKinds, GotoFacts
<1>6. QED
  BY <1>1, <1>2, <1>4, <1>5 DEF w

(* An iteration of the join loop. *)
LEMMA JoinFacts ==
    ASSUME TypeOK, JoinWorker
    PROVE  /\ pc[Main] \in ReleaseLabels /\ pc' = pc /\ index' = index + 1
           /\ index \in Workers /\ index <= started_worker_count
           /\ UNCHANGED <<queueVars, lifecycleVars, allocated, started_worker_count,
                          created_worker_count, ready_worker_count, active_worker_count,
                          total, contextVars, task, exit, returned, executed, outcome>>
           /\ \/ ~handle[index] /\ UNCHANGED <<handle, joined_worker_count, all_joined>>
              \/ /\ handle[index] /\ "native_join" \in Faults /\ ~all_joined'
                 /\ UNCHANGED <<handle, joined_worker_count>>
              \/ /\ handle[index] /\ pc[index] = "exited"
                 /\ handle' = [handle EXCEPT ![index] = FALSE]
                 /\ joined_worker_count' \in {joined_worker_count, joined_worker_count + 1}
                 /\ UNCHANGED all_joined
<1>1. /\ pc[Main] \in ReleaseLabels /\ pc' = pc /\ index <= started_worker_count
      /\ UNCHANGED <<queueVars, lifecycleVars, allocated, started_worker_count,
                     created_worker_count, ready_worker_count, active_worker_count,
                     total, contextVars, task, exit, returned, executed, outcome>>
  BY DEF JoinWorker, ReleaseLabels
<1>2. index' = index + 1
  BY DEF JoinWorker, Released
<1>3. index \in Workers
  BY <1>1, SchedulerAssumption DEF TypeOK, Workers
<1>4. \/ ~handle[index] /\ UNCHANGED <<handle, joined_worker_count, all_joined>>
      \/ /\ handle[index] /\ "native_join" \in Faults /\ ~all_joined'
         /\ UNCHANGED <<handle, joined_worker_count>>
      \/ /\ handle[index] /\ pc[index] = "exited"
         /\ handle' = [handle EXCEPT ![index] = FALSE]
         /\ joined_worker_count' \in {joined_worker_count, joined_worker_count + 1}
         /\ UNCHANGED all_joined
  BY DEF JoinWorker, Released, JoinFailureKept
<1>5. QED
  BY <1>1, <1>2, <1>3, <1>4

(* Handles, per step. *)
LEMMA HandlesStep ==
    ASSUME BaseInv, [Next]_vars
    PROVE  Handles'
<1> USE ThreadKinds
<1>1. TypeOK /\ TypeOK' /\ Handles
  BY TypeStep DEF BaseInv
<1> DEFINE Gone == {"none", "exited"}
           Starting == {"start_create", "start_wait", "start_asleep",
                        "start_publish", "start_abort"}
<1>2. ASSUME UNCHANGED <<handle, started_worker_count, allocated, all_joined, index>>,
             \A w \in Workers : pc'[w] \notin Gone => pc[w] \notin Gone,
             \/ pc'[Main] = pc[Main]
             \/ pc'[Main] \notin Starting \cup ReleaseLabels
             \/ pc[Main] \in Starting /\ pc'[Main] \notin ReleaseLabels
      PROVE  Handles'
  BY <1>1, <1>2 DEF Handles, ReleaseLabels
<1>3. ASSUME UNCHANGED <<workerVars, joinVars>>, NEW w \in Workers, NEW label, Goto(w, label),
             pc[w] \notin Gone
      PROVE  Handles'
  <2>1. \A u \in Threads : u # w => pc'[u] = pc[u]
    BY <1>1, <1>3, GotoFacts
  <2>2. UNCHANGED <<handle, started_worker_count, allocated, all_joined, index>>
    BY <1>3 DEF workerVars, joinVars
  <2>3. QED
    BY <1>2, <1>3, <2>1, <2>2
<1>4. ASSUME UNCHANGED <<workerVars, joinVars>>, NEW label, Goto(Main, label),
             \/ label \notin Starting \cup ReleaseLabels
             \/ pc[Main] \in Starting /\ label \notin ReleaseLabels
      PROVE  Handles'
  <2>1. pc'[Main] = label /\ \A u \in Threads : u # Main => pc'[u] = pc[u]
    BY <1>1, <1>4, GotoFacts
  <2>2. UNCHANGED <<handle, started_worker_count, allocated, all_joined, index>>
    BY <1>4 DEF workerVars, joinVars
  <2>3. QED
    BY <1>2, <1>4, <2>1, <2>2
<1>5. ASSUME UNCHANGED <<workerVars, joinVars, pc>> PROVE Handles'
  BY <1>2, <1>5 DEF workerVars, joinVars
<1>6. CASE LifecycleCallReturnsAtOnce \/ UNCHANGED vars
  BY <1>5, <1>6 DEF LifecycleCallReturnsAtOnce, Refused, vars
<1>7. CASE scheduler_destroy
  BY <1>2, <1>7 DEF scheduler_destroy, Refused, workerVars, joinVars
<1>8. CASE \/ StartBegins \/ ShutdownBegins \/ StartPublishes \/ StartFails \/ StartWaits
           \/ ShutdownQueue \/ ShutdownWaits \/ JoinPublishes \/ JoinWaitFails
  BY <1>4, <1>8
     DEF StartBegins, ShutdownBegins, StartPublishes, StartFails, StartWaits,
         ShutdownQueue, ShutdownWaits, JoinPublishes, JoinWaitFails, LifecycleReturns,
         ReleaseLabels
<1>9. CASE MainSpuriousWakeup
  BY <1>4, <1>9 DEF MainSpuriousWakeup, LifecycleWake, WorkerWake, ReleaseLabels
<1>10. CASE StartAborts \/ JoinWaits
  <2>1. CASE \E label \in ReleaseLabels : BeginRelease(label)
    <3>1. UNCHANGED workerVars
      BY <1>10 DEF StartAborts, JoinWaits
    <3>2. index' = 1 /\ \A u \in Threads : u # Main => pc'[u] = pc[u]
      BY <1>1, <2>1, GotoFacts DEF BeginRelease
    <3>3. pc'[Main] = "start_release" => pc[Main] = "start_abort"
      BY <1>1, <1>10, GotoFacts DEF StartAborts, JoinWaits, BeginRelease
    <3>4. pc'[Main] \in ReleaseLabels
      BY <1>1, <2>1, GotoFacts DEF BeginRelease
    <3>5. QED
      BY <1>1, <3>1, <3>2, <3>3, <3>4 DEF Handles, workerVars, ReleaseLabels
  <2>2. CASE JoinWaits /\ Goto(Main, "join_asleep") /\ UNCHANGED joinVars
    BY <1>4, <2>2 DEF JoinWaits, ReleaseLabels
  <2>3. QED
    BY <1>10, <2>1, <2>2 DEF StartAborts, JoinWaits, ReleaseLabels
<1>11. CASE StartAllocates
  <2>1. UNCHANGED <<handle, started_worker_count, all_joined, index>>
    BY <1>11 DEF StartAllocates, joinVars
  <2>2. PICK label \in {"idle", "start_create"} :
             Goto(Main, label) /\ (label = "start_create" => allocated')
    BY <1>11 DEF StartAllocates, LifecycleReturns
  <2>3. pc'[Main] = label /\ \A u \in Threads : u # Main => pc'[u] = pc[u]
    BY <1>1, <2>2, GotoFacts
  <2>4. ~allocated' => ~allocated
    BY <1>11 DEF StartAllocates
  <2>5. QED
    BY <1>1, <2>1, <2>2, <2>3, <2>4 DEF Handles, ReleaseLabels
<1>12. CASE StartCreates
  <2>1. UNCHANGED <<allocated, all_joined, index>> /\ allocated
    BY <1>1, <1>12, CreateFacts DEF StartCreates, joinVars, Handles
  <2>2. CASE pc'[Main] = "start_abort"
    <3>1. \A u \in Threads : u # Main => pc'[u] = pc[u]
      BY <1>1, <1>12, <2>2, CreateFacts
    <3>2. UNCHANGED <<handle, started_worker_count>> /\ pc[Main] = "start_create"
      BY <1>1, <1>12, <2>2, CreateFacts
    <3>3. QED
      BY <1>2, <2>1, <2>2, <3>1, <3>2 DEF ReleaseLabels
  <2>3. CASE pc'[Main] # "start_abort"
    <3> DEFINE n == started_worker_count + 1
    <3>1. /\ n \in Workers /\ handle' = [handle EXCEPT ![n] = TRUE]
          /\ started_worker_count' = n
          /\ pc'[Main] \in {"start_wait", "start_create"}
          /\ \A u \in Workers : u # n => pc'[u] = pc[u]
      BY <1>1, <1>12, <2>3, CreateFacts DEF CountCreated
    <3>2. handle \in [Workers -> BOOLEAN] /\ started_worker_count \in Nat
      BY <1>1, TypeParts, SchedulerAssumption DEF WorkerTypes
    <3>3. ASSUME NEW u \in Workers
          PROVE  /\ pc'[u] \notin Gone => handle'[u]
                 /\ handle'[u] => u <= started_worker_count'
      BY <1>1, <3>1, <3>2 DEF Handles
    <3>4. QED
      BY <2>1, <3>1, <3>3 DEF Handles, ReleaseLabels
  <2>4. QED
    BY <2>2, <2>3
<1>13. CASE JoinWorker
  <2>1. /\ pc[Main] \in ReleaseLabels /\ pc' = pc /\ index' = index + 1
        /\ index \in Workers /\ UNCHANGED <<allocated, started_worker_count>>
    BY <1>1, <1>13, JoinFacts
  <2>2. handle \in [Workers -> BOOLEAN]
    BY <1>1 DEF TypeOK
  <2>3. CASE ~handle[index] /\ UNCHANGED <<handle, all_joined>>
    BY <1>1, <2>1, <2>3 DEF Handles
  <2>4. CASE ~all_joined' /\ UNCHANGED handle
    BY <1>1, <2>1, <2>4 DEF Handles
  <2>5. CASE /\ pc[index] = "exited" /\ handle' = [handle EXCEPT ![index] = FALSE]
             /\ UNCHANGED all_joined
    <3>1. \A u \in Workers : handle'[u] = IF u = index THEN FALSE ELSE handle[u]
      BY <2>2, <2>5
    <3>2. \A u \in Workers : u < index + 1 => u = index \/ u < index
      BY <2>1
    <3>3. \A u \in Workers : /\ pc'[u] \notin Gone => handle'[u]
                             /\ handle'[u] => u <= started_worker_count'
      BY <1>1, <2>1, <2>5, <3>1 DEF Handles
    <3>4. all_joined' => \A u \in Workers : u < index' => ~handle'[u]
      BY <1>1, <2>1, <2>5, <3>1, <3>2 DEF Handles
    <3>5. QED
      BY <1>1, <2>1, <3>3, <3>4 DEF Handles
  <2>6. QED
    BY <1>1, <1>13, <2>3, <2>4, <2>5, JoinFacts
<1>14. CASE FinishRelease
  <2>1. /\ UNCHANGED <<handle, all_joined, index>> /\ pc[Main] \in ReleaseLabels
        /\ index > started_worker_count
    BY <1>14 DEF FinishRelease, ReleaseLabels
  <2>2. Goto(Main, AfterRelease)
    BY <1>14 DEF FinishRelease
  <2>3. /\ pc'[Main] \in {"start_fail", "join_publish"}
        /\ \A u \in Threads : u # Main => pc'[u] = pc[u]
    BY <1>1, <2>2, GotoFacts DEF AfterRelease
  <2>4. CASE UNCHANGED <<allocated, started_worker_count>>
    BY <1>2, <2>1, <2>3, <2>4 DEF ReleaseLabels
  <2>5. CASE all_joined /\ FreeArrays
    <3>1. ASSUME NEW u \in Workers PROVE ~handle[u]
      <4>1. u > started_worker_count => ~handle[u]
        BY <1>1 DEF Handles, TypeOK
      <4>2. u <= started_worker_count => ~handle[u]
        BY <1>1, <2>1, <2>5 DEF Handles, TypeOK
      <4>3. QED
        BY <1>1, <4>1, <4>2 DEF TypeOK
    <3>2. QED
      BY <1>1, <2>1, <2>3, <2>5, <3>1 DEF Handles, FreeArrays, ReleaseLabels
  <2>6. QED
    BY <1>14, <2>4, <2>5 DEF FinishRelease
<1>15. ASSUME NEW t \in Workers \cup Submitters,
              UNCHANGED <<workerVars, joinVars>>, NEW label, Goto(t, label),
              t \in Workers => pc[t] \notin Gone
       PROVE  Handles'
  <2>1. \A u \in Threads : u # t => pc'[u] = pc[u]
    BY <1>1, <1>15, GotoFacts
  <2>2. QED
    BY <1>2, <1>15, <2>1 DEF workerVars, joinVars
<1>16. ASSUME NEW t \in Workers \cup Submitters,
              NEW call \in {"submit", "try_submit"}, register_submitter(t, call)
       PROVE  Handles'
  BY <1>5, <1>15, <1>16 DEF register_submitter, Home
<1>17. ASSUME NEW t \in Workers \cup Submitters, SubmitToQueue(t)
       PROVE  Handles'
  BY <1>15, <1>17 DEF SubmitToQueue
<1>18. ASSUME NEW t \in Workers \cup Submitters, deregister_submitter(t)
       PROVE  Handles'
  <2>1. /\ UNCHANGED <<workerVars, joinVars>> /\ pc[t] \in {"submitted", "try_submitted"}
        /\ pc' = [pc EXCEPT ![t] = Home(t),
                            ![Main] = IF active_submitter_count' = 0
                                      THEN LifecycleWake(@) ELSE @]
    BY <1>18 DEF deregister_submitter
  <2>2. /\ pc'[Main] \in {pc[Main], LifecycleWake(pc[Main])}
        /\ \A u \in Threads : u # t /\ u # Main => pc'[u] = pc[u]
    BY <1>1, <2>1 DEF TypeOK
  <2>3. pc'[Main] = pc[Main] \/ pc'[Main] \notin Starting \cup ReleaseLabels
    BY <2>2 DEF LifecycleWake, ReleaseLabels
  <2>4. QED
    BY <1>2, <2>1, <2>2, <2>3 DEF workerVars, joinVars
<1>19. ASSUME NEW t, QueueResumes(t) \/ QueueWaitEnds(t)
       PROVE  Handles'
  BY <1>5, <1>19 DEF QueueResumes, QueueWaitEnds
<1>20. ASSUME NEW w \in Workers, WorkerReady(w)
       PROVE  Handles'
  <2>1. UNCHANGED <<handle, started_worker_count, allocated, all_joined, index>>
    BY <1>20 DEF WorkerReady, joinVars
  <2>2. pc[w] = "entry" /\ pc' = [pc EXCEPT ![w] = "dequeue", ![Main] = WorkerWake(@)]
    BY <1>20 DEF WorkerReady
  <2>3. /\ pc'[Main] = WorkerWake(pc[Main])
        /\ \A u \in Threads : u # w /\ u # Main => pc'[u] = pc[u]
    BY <1>1, <2>2 DEF TypeOK
  <2>4. \/ pc'[Main] = pc[Main]
        \/ pc[Main] = "start_asleep" /\ pc'[Main] = "start_wait"
    BY <2>3 DEF WorkerWake
  <2>5. QED
    BY <1>2, <2>1, <2>2, <2>3, <2>4 DEF ReleaseLabels
<1>21. ASSUME NEW w \in Workers,
              \/ WorkerDequeue(w) \/ WorkerCountsDequeue(w) \/ WorkerCountsStart(w)
              \/ WorkerExecutes(w) \/ CallbackReturns(w) \/ WorkerCountsStop(w)
              \/ WorkerQueueFailure(w)
       PROVE  Handles'
  BY <1>3, <1>21
     DEF WorkerDequeue, WorkerCountsDequeue, WorkerCountsStart, WorkerExecutes,
         CallbackReturns, WorkerCountsStop, WorkerQueueFailure
<1>22. ASSUME NEW w \in Workers, WorkerExits(w)
       PROVE  Handles'
  <2>1. /\ UNCHANGED <<handle, started_worker_count, allocated, all_joined, index>>
        /\ Goto(w, "exited")
    BY <1>22 DEF WorkerExits, record_worker_exit, joinVars
  <2>2. pc'[w] = "exited" /\ \A u \in Threads : u # w => pc'[u] = pc[u]
    BY <1>1, <2>1, GotoFacts
  <2>3. QED
    BY <1>2, <2>1, <2>2
<1>23. QED
  BY <1>6, <1>7, <1>8, <1>9, <1>10, <1>11, <1>12, <1>13, <1>14, <1>16, <1>17, <1>18,
     <1>19, <1>20, <1>21, <1>22, NextCases

-----------------------------------------------------------------------------
(* RunningExact, per step. *)
LEMMA RunningStep ==
    ASSUME BaseInv, [Next]_vars
    PROVE  RunningExact'
<1> USE ThreadKinds
<1>1. TypeOK /\ Handles /\ RunningExact
  BY DEF BaseInv
<1>2. ASSUME UNCHANGED contextVars,
             \A w \in Workers : pc'[w] \in RunningLabels <=> pc[w] \in RunningLabels
      PROVE  RunningExact'
  BY <1>1, <1>2 DEF RunningExact, contextVars
<1>3. ASSUME UNCHANGED contextVars, NEW t \in Threads, NEW label, Goto(t, label),
             t \in Workers => (label \in RunningLabels <=> pc[t] \in RunningLabels)
      PROVE  RunningExact'
  BY <1>1, <1>2, <1>3, GotoFacts
<1>4. CASE MainOnly /\ UNCHANGED contextVars
  BY <1>1, <1>2, <1>4, MainOnlyFrame
<1>5. CASE StartAborts \/ ShutdownQueue
  BY <1>3, <1>5 DEF StartAborts, ShutdownQueue, BeginRelease
<1>6. CASE StartCreates
  <2> DEFINE n == started_worker_count + 1
  <2>1. UNCHANGED contextVars
    BY <1>6 DEF StartCreates
  <2>2. n \in Workers /\ \A u \in Workers : u # n => pc'[u] = pc[u]
    BY <1>1, <1>6, CreateFacts
  <2>3. pc'[n] \in {pc[n], "entry"}
    BY <1>1, <1>6, <2>2, CreateFacts
  <2>4. pc[n] \in {"none", "exited"}
    BY <1>1, <2>2 DEF Handles, TypeOK
  <2>5. QED
    BY <1>2, <2>1, <2>2, <2>3, <2>4 DEF RunningLabels, SubmitLabels
<1>7. CASE FinishRelease
  <2>1. CASE UNCHANGED contextVars
    BY <1>4, <1>7, <2>1 DEF MainOnly
  <2>2. CASE all_joined /\ context' = [w \in Workers |-> ZeroCounters]
    <3>1. \A w \in Workers : pc'[w] = pc[w]
      BY <1>1, <1>7, MainOnlyFrame DEF MainOnly
    <3>2. ASSUME NEW w \in Workers PROVE pc[w] \in {"none", "exited"}
      <4>1. index > started_worker_count /\ pc[Main] \in ReleaseLabels
        BY <1>7 DEF FinishRelease, ReleaseLabels
      <4>2. w > started_worker_count => ~handle[w]
        BY <1>1 DEF Handles, TypeOK
      <4>3. w <= started_worker_count => ~handle[w]
        BY <1>1, <2>2, <4>1 DEF Handles, TypeOK
      <4>4. ~handle[w]
        BY <1>1, <4>2, <4>3 DEF TypeOK
      <4>5. QED
        BY <1>1, <4>4 DEF Handles
    <3>3. \A w \in Workers : context'[w]["running"] = 0
      BY <2>2 DEF ZeroCounters, Counters
    <3>4. QED
      BY <3>1, <3>2, <3>3 DEF RunningExact, RunningLabels, SubmitLabels
  <2>3. QED
    BY <1>7, <2>1, <2>2 DEF FinishRelease
<1>8. ASSUME NEW t \in Workers \cup Submitters,
             NEW call \in {"submit", "try_submit"}, register_submitter(t, call)
      PROVE  RunningExact'
  <2>1. UNCHANGED contextVars /\ pc[t] = Home(t) /\ (pc' = pc \/ Goto(t, call))
    BY <1>8 DEF register_submitter
  <2>2. QED
    BY <1>2, <1>3, <2>1 DEF Home, RunningLabels, SubmitLabels
<1>9. ASSUME NEW t \in Workers \cup Submitters, SubmitToQueue(t)
      PROVE  RunningExact'
  BY <1>3, <1>9 DEF SubmitToQueue, RunningLabels, SubmitLabels
<1>10. ASSUME NEW t \in Workers \cup Submitters, deregister_submitter(t)
       PROVE  RunningExact'
  <2>1. /\ UNCHANGED contextVars /\ pc[t] \in {"submitted", "try_submitted"}
        /\ \E m : pc' = [pc EXCEPT ![t] = Home(t), ![Main] = m]
    BY <1>10 DEF deregister_submitter
  <2>2. pc'[t] = Home(t) /\ \A u \in Workers : u # t => pc'[u] = pc[u]
    BY <1>1, <2>1 DEF TypeOK
  <2>3. QED
    BY <1>2, <2>1, <2>2 DEF Home, RunningLabels, SubmitLabels
<1>11. ASSUME NEW t, QueueResumes(t) \/ QueueWaitEnds(t)
       PROVE  RunningExact'
  BY <1>2, <1>11 DEF QueueResumes, QueueWaitEnds
<1>12. ASSUME NEW w \in Workers, WorkerReady(w)
       PROVE  RunningExact'
  <2>1. /\ UNCHANGED contextVars /\ pc[w] = "entry"
        /\ pc' = [pc EXCEPT ![w] = "dequeue", ![Main] = WorkerWake(@)]
    BY <1>12 DEF WorkerReady
  <2>2. pc'[w] = "dequeue" /\ \A u \in Workers : u # w => pc'[u] = pc[u]
    BY <1>1, <2>1 DEF TypeOK
  <2>3. QED
    BY <1>2, <2>1, <2>2 DEF RunningLabels, SubmitLabels
<1>13. ASSUME NEW w \in Workers,
              WorkerDequeue(w) \/ WorkerExecutes(w) \/ WorkerQueueFailure(w) \/ WorkerExits(w)
       PROVE  RunningExact'
  BY <1>3, <1>13
     DEF WorkerDequeue, WorkerExecutes, WorkerQueueFailure, WorkerExits,
         record_worker_exit, RunningLabels, SubmitLabels
<1>14. ASSUME NEW w \in Workers, NEW c \in Counters \ {"running"}, Count(w, c),
              NEW label, Goto(w, label),
              label \in RunningLabels <=> pc[w] \in RunningLabels
       PROVE  RunningExact'
  <2>1. \A u \in Workers : context'[u]["running"] = context[u]["running"]
    BY <1>1, <1>14, TypeParts DEF Count, ContextTypes, Counters
  <2>2. pc'[w] = label /\ \A u \in Workers : u # w => pc'[u] = pc[u]
    BY <1>1, <1>14, GotoFacts
  <2>3. QED
    BY <1>1, <1>14, <2>1, <2>2 DEF RunningExact
<1>15. ASSUME NEW w \in Workers, WorkerCountsDequeue(w) \/ CallbackReturns(w)
       PROVE  RunningExact'
  BY <1>14, <1>15
     DEF WorkerCountsDequeue, CallbackReturns, Counters, RunningLabels, SubmitLabels
<1>16. ASSUME NEW w \in Workers, WorkerCountsStart(w)
       PROVE  RunningExact'
  <2>1. CASE pc[w] = "count_started" /\ Count(w, "started") /\ Goto(w, "count_running")
    BY <1>14, <2>1 DEF Counters, RunningLabels, SubmitLabels
  <2>2. CASE pc[w] = "count_running" /\ Count(w, "running") /\ Goto(w, "execute")
    <3>1. context[w]["running"] = 0
      BY <1>1, <2>2 DEF RunningExact, RunningLabels, SubmitLabels
    <3>2. context'[w]["running"] = 1
      BY <1>1, <2>2, <3>1, TypeParts, SchedulerAssumption
         DEF Count, Increment, ContextTypes, Counters
    <3>3. \A u \in Workers : u # w => context'[u]["running"] = context[u]["running"]
      BY <1>1, <2>2, TypeParts DEF Count, ContextTypes
    <3>4. pc'[w] = "execute" /\ \A u \in Workers : u # w => pc'[u] = pc[u]
      BY <1>1, <2>2, GotoFacts
    <3>5. QED
      BY <1>1, <3>2, <3>3, <3>4 DEF RunningExact, RunningLabels
  <2>3. QED
    BY <1>16, <2>1, <2>2 DEF WorkerCountsStart
<1>17. ASSUME NEW w \in Workers, WorkerCountsStop(w)
       PROVE  RunningExact'
  <2>1. /\ pc[w] = "count_stopped" /\ Goto(w, "dequeue")
        /\ context' = [context EXCEPT ![w]["running"] = @ - 1]
    BY <1>17 DEF WorkerCountsStop
  <2>2. context[w]["running"] = 1
    BY <1>1, <2>1 DEF RunningExact, RunningLabels
  <2>3. /\ context'[w]["running"] = 0
        /\ \A u \in Workers : u # w => context'[u]["running"] = context[u]["running"]
    BY <1>1, <2>1, <2>2, TypeParts DEF ContextTypes, Counters
  <2>4. pc'[w] = "dequeue" /\ \A u \in Workers : u # w => pc'[u] = pc[u]
    BY <1>1, <2>1, GotoFacts
  <2>5. QED
    BY <1>1, <2>3, <2>4 DEF RunningExact, RunningLabels, SubmitLabels
<1>18. CASE UNCHANGED vars
  BY <1>2, <1>18 DEF vars
<1>19. MainOnly => UNCHANGED contextVars \/ FinishRelease
  BY DEF MainOnly, LifecycleCallReturnsAtOnce, Refused, StartBegins, ShutdownBegins,
         JoinWaits, scheduler_destroy, StartAllocates, StartPublishes, StartFails,
         StartWaits, JoinWorker, ShutdownWaits, JoinPublishes,
         JoinWaitFails, MainSpuriousWakeup
<1>20. QED
  BY <1>4, <1>5, <1>6, <1>7, <1>8, <1>9, <1>10, <1>11, <1>12, <1>13, <1>15, <1>16,
     <1>17, <1>18, <1>19, NextCases
     DEF MainOnly

-----------------------------------------------------------------------------
(* The initial state. *)
LEMMA InitBase == Init => BaseInv
<1> SUFFICES ASSUME Init PROVE BaseInv
  OBVIOUS
<1> USE ThreadKinds, SchedulerAssumption
<1>1. QueueInv
  BY QueueInvInit DEF Init
<1>2. FlagTypes
  BY DEF Init, FlagTypes
<1>3. LifecycleTypes
  BY DEF Init, LifecycleTypes, LifecycleStates
<1>4. WorkerTypes
  BY DEF Init, WorkerTypes, ZeroCounters
<1>5. ContextTypes
  <2>1. ZeroCounters \in [Counters -> 0..CounterMax]
    BY DEF ZeroCounters
  <2>2. QED
    BY <2>1 DEF Init, ContextTypes
<1>6. PcTypes
  <2>1. pc = [t \in Threads |-> IF t \in Workers THEN "none" ELSE "idle"]
    BY DEF Init
  <2>2. "none" \in WorkerLabels /\ "idle" \in MainLabels
    BY DEF WorkerLabels, MainLabels
  <2>3. QED
    BY <2>1, <2>2 DEF PcTypes
<1>7. LocalTypes
  BY DEF Init, LocalTypes
<1>8. HistoryTypes
  BY DEF Init, HistoryTypes, SchedulerCodes
<1>9. TypeOK
  BY <1>2, <1>3, <1>4, <1>5, <1>6, <1>7, <1>8, TypeParts
<1>10. QueueUse
  BY DEF Init, Q!Init, QueueUse, Q!ProducerStates, Q!ConsumerStates, SubmitLabels,
         TaskInHandLabels
<1>11. Handles
  BY DEF Init, Handles, ReleaseLabels
<1>12. RunningExact
  BY DEF Init, RunningExact, RunningLabels, SubmitLabels, ZeroCounters, Counters
<1>13. QED
  BY <1>1, <1>9, <1>10, <1>11, <1>12 DEF BaseInv

(* A step keeps the invariant. *)
LEMMA StepBase ==
    ASSUME BaseInv, [Next]_vars
    PROVE  BaseInv'
<1>1. QueueInv'
  BY QueueStep, QueueInvStep DEF BaseInv
<1>2. QED
  BY <1>1, TypeStep, QueueUseStep, HandlesStep, RunningStep DEF BaseInv

(* The inductive invariant holds in every reachable state. *)
THEOREM BaseInvariant == Spec => []BaseInv
<1>1. BaseInv /\ [Next]_vars => BaseInv'
  BY StepBase
<1>2. QED
  BY InitBase, <1>1, PTL DEF Spec

(* The fields of the scheduler keep their types: in particular no counter  *)
(* of scheduler.c passes its maximum or drops below zero.                  *)
THEOREM TypeCorrect == Spec => []TypeOK
<1>1. BaseInv => TypeOK
  BY DEF BaseInv
<1>2. QED
  BY BaseInvariant, <1>1, PTL

(* The scheduler uses its queue as a ConcurrentTaskQueue may be used: every *)
(* behaviour of the scheduler is one of the queue's specification.          *)
THEOREM UsesQueueCorrectly == Spec => Q!Spec
<1>1. Init => Q!Init
  BY DEF Init
<1>2. BaseInv /\ [Next]_vars => [Q!Next]_(Q!vars)
  BY QueueStep DEF BaseInv
<1>3. QED
  BY <1>1, <1>2, BaseInvariant, PTL DEF Spec, Q!Spec

(* No wakeup is lost inside the scheduler's queue, its waiter counts are   *)
(* exact and it is never overfilled, whatever workers, submitters,         *)
(* callbacks and the lifecycle calls do.                                   *)
THEOREM QueueSafeInScheduler == Spec => []QueueInv
<1>1. BaseInv => QueueInv
  BY DEF BaseInv
<1>2. QED
  BY BaseInvariant, <1>1, PTL
=============================================================================
