----------------------------- MODULE Scheduler -----------------------------
(***************************************************************************)
(* src/src/scheduler.c: one lifetime of a Scheduler, from a successful     *)
(* scheduler_init to scheduler_destroy.  Main makes the lifecycle calls    *)
(* (scheduler.h requires them to be serialized), Submitters call submit    *)
(* and try_submit at any time, and Workers run scheduler_worker_entry and  *)
(* the user's callback, which may submit tasks itself.  The queue between  *)
(* them is ConcurrentTaskQueue.                                            *)
(*                                                                         *)
(* A step is one critical section of the lifecycle, worker or queue mutex, *)
(* or one atomic operation on a worker's counters.                         *)
(***************************************************************************)
EXTENDS Integers, Sequences, FiniteSets

CONSTANTS
    WorkerCount,        \* worker_count of scheduler_init
    Capacity,           \* queue_capacity of scheduler_init
    Submitters,         \* the threads that submit from outside
    Main,               \* the thread that makes the lifecycle calls
    NULL,
    TransitionSignaling,\* build option, see ConcurrentTaskQueue
    CallbackCalls,      \* which submission functions a callback may call
    Faults,             \* which system calls may fail, see FaultPoints
    CounterMax,         \* UINT64_MAX, where the 64-bit counters saturate
    MaxSubmissions,     \* bound: submissions in a lifetime
    MaxJoinFailures     \* bound: failed joins in a lifetime

FaultPoints ==
    {"start",           \* allocating arrays or creating synchronization
     "creation",        \* sched_thread_create, or the injected fault
     "wait",            \* sched_condition_wait
     "native_join",     \* sched_thread_join
     "worker_join"}     \* the fault injected after a join

Workers == 1..WorkerCount
Tasks == 1..MaxSubmissions      \* the k-th submission is of Task k
Threads == Workers \cup Submitters \cup {Main}

ASSUME SchedulerAssumption ==
    /\ WorkerCount \in Nat \ {0}
    /\ Capacity \in Nat \ {0}
    /\ CounterMax \in Nat \ {0}
    /\ MaxSubmissions \in Nat /\ MaxJoinFailures \in Nat
    /\ IsFiniteSet(Submitters)
    /\ Main \notin Workers \cup Submitters
    /\ Workers \cap Submitters = {}
    /\ NULL \notin Nat
    /\ TransitionSignaling \in BOOLEAN
    /\ CallbackCalls \subseteq {"submit", "try_submit"}
    /\ Faults \subseteq FaultPoints

VARIABLES
    \* ConcurrentTaskQueue
    queue, shutdown_requested, waiting_consumers, waiting_producers,
    high_water_mark, qpc, qarg, qret,
    \* SchedulerImplementation, guarded by the lifecycle mutex
    implementation,     \* scheduler->implementation # NULL
    state, active_submitter_count,
    submitted_count, accepted_count, rejected_count,
    lifecycle_accounting_overflow,
    \* SchedulerImplementation, guarded by the worker mutex
    allocated,          \* threads # NULL, and so worker_contexts # NULL
    handle,             \* handle[w]: threads[w].implementation # NULL
    worker_sync_initialized,
    started_worker_count, created_worker_count, ready_worker_count,
    active_worker_count, joined_worker_count,
    total,              \* the aggregated callback counters
    worker_startup_failure_count, worker_runtime_failure_count,
    join_failure_count, worker_accounting_overflow,
    \* WorkerContext: the atomic counters of each worker
    context, accounting_overflow,
    \* threads
    pc, task,           \* control and task in hand of each thread
    exit,               \* exit[w]: the result of scheduler_worker_entry
    index, all_joined, result,  \* locals of release_workers
    returned,           \* <<function, code>> of Main's last lifecycle call
    \* history
    executed,           \* executed[k]: callback invocations for Task k
    outcome,            \* outcome[k]: what submitting Task k returned
    tally               \* what the counters would be if they were unbounded

queueVars == <<queue, shutdown_requested, waiting_consumers, waiting_producers,
               high_water_mark, qpc, qarg, qret>>
submissionVars == <<submitted_count, accepted_count, rejected_count,
                    lifecycle_accounting_overflow>>
lifecycleVars == <<implementation, state, active_submitter_count,
                   submissionVars>>
failureVars == <<worker_startup_failure_count, worker_runtime_failure_count,
                 join_failure_count, worker_accounting_overflow>>
workerVars == <<allocated, handle, worker_sync_initialized, started_worker_count,
                created_worker_count, ready_worker_count, active_worker_count,
                joined_worker_count, total, failureVars>>
contextVars == <<context, accounting_overflow>>
joinVars == <<index, all_joined, result>>
history == <<executed, outcome, tally>>
vars == <<queueVars, lifecycleVars, workerVars, contextVars, pc, task, exit,
          joinVars, returned, history>>

Q == INSTANCE ConcurrentTaskQueue WITH
    pc <- qpc, arg <- qarg, ret <- qret,
    WaitFailures <- "wait" \in Faults,
    Operations <- [t \in Threads |-> {"enqueue", "try_enqueue", "dequeue", "shutdown"}]

Counters == {"dequeued", "started", "succeeded", "failed", "running"}
ZeroCounters == [c \in Counters |-> 0]
Tallied == {"submitted", "succeeded", "failed", "startup_failures",
            "runtime_failures", "join_failures"}

Init ==
    /\ Q!Init
    /\ implementation = TRUE
    /\ state = "INITIALIZED"
    /\ active_submitter_count = 0
    /\ submitted_count = 0 /\ accepted_count = 0 /\ rejected_count = 0
    /\ lifecycle_accounting_overflow = FALSE
    /\ allocated = FALSE
    /\ handle = [w \in Workers |-> FALSE]
    /\ worker_sync_initialized = FALSE
    /\ started_worker_count = 0 /\ created_worker_count = 0
    /\ ready_worker_count = 0 /\ active_worker_count = 0
    /\ joined_worker_count = 0
    /\ total = ZeroCounters
    /\ worker_startup_failure_count = 0 /\ worker_runtime_failure_count = 0
    /\ join_failure_count = 0 /\ worker_accounting_overflow = FALSE
    /\ context = [w \in Workers |-> ZeroCounters]
    /\ accounting_overflow = [w \in Workers |-> FALSE]
    /\ pc = [t \in Threads |-> IF t \in Workers THEN "none" ELSE "idle"]
    /\ task = [t \in Threads |-> NULL]
    /\ exit = [w \in Workers |-> "none"]
    /\ index = 1 /\ all_joined = TRUE /\ result = "OK"
    /\ returned = <<"init", "OK">>
    /\ executed = [k \in Tasks |-> 0]
    /\ outcome = [k \in Tasks |-> "none"]
    /\ tally = [c \in Tallied |-> 0]

(* A mutant: a counter at its maximum wraps. *)
IncrementWraps(n) == IF n = CounterMax THEN 0 ELSE n + 1

(* A counter at its maximum stays there and raises its overflow flag:      *)
(* scheduler_observability_increment_saturating, and add_saturating.       *)
Increment(n) == IF n = CounterMax THEN n ELSE n + 1
Overflows(n) == n = CounterMax
SumOverflows(n, value) == CounterMax - n < value
add_saturating(n, value) == IF SumOverflows(n, value) THEN CounterMax ELSE n + value

Tally(counter) == tally' = [tally EXCEPT ![counter] = @ + 1]

Goto(t, label) == pc' = [pc EXCEPT ![t] = label]

(* A mutant: the last submitter to leave wakes nobody. *)
LifecycleNeverWakes(label) == label

(* The lifecycle condition is awaited by shutdown and join, the worker     *)
(* condition by start; Main is the only thread that can be asleep there.   *)
LifecycleWake(label) == CASE label = "shutdown_asleep" -> "shutdown_wait"
                          [] label = "join_asleep" -> "join_wait"
                          [] OTHER -> label
WorkerWake(label) == IF label = "start_asleep" THEN "start_wait" ELSE label

-----------------------------------------------------------------------------
(* Submission: scheduler_submit and scheduler_try_submit, by a submitter   *)
(* or from within a callback.                                              *)
Home(t) == IF t \in Workers THEN "callback" ELSE "idle"

(* Mutants: a full queue, or a failed wait, reported as acceptance; a      *)
(* submission that was refused never leaves the gate.                      *)
FullMapsToOK(code) == IF code = "FULL" THEN "OK" ELSE code
FailureMapsToOK(code) == IF code = "SHUTDOWN" THEN "SHUTDOWN" ELSE "OK"
RefusedStays(code) ==
    IF active_submitter_count = 0 \/ code # "OK" THEN active_submitter_count
    ELSE active_submitter_count - 1

map_try_enqueue_result(code) ==
    CASE code = "OK" -> "OK"
      [] code = "FULL" -> "QUEUE_FULL"
      [] code = "SHUTDOWN" -> "SHUTDOWN"
      [] OTHER -> "SYSTEM"

map_blocking_enqueue_result(code) ==
    CASE code = "OK" -> "OK"
      [] code = "SHUTDOWN" -> "SHUTDOWN"
      [] OTHER -> "SYSTEM"

(* A mutant: the gate stays open until the scheduler has stopped. *)
GateOpenUntilStopped == state \in {"RUNNING", "SHUTTING_DOWN"}

(* The submission gate: only a RUNNING scheduler registers the caller. *)
GateOpen == state = "RUNNING"

register_submitter(t, call) ==
    LET k == tally["submitted"] + 1 IN
    /\ pc[t] = Home(t)
    /\ implementation
    /\ tally["submitted"] < MaxSubmissions
    /\ Tally("submitted")
    /\ submitted_count' = Increment(submitted_count)
    /\ lifecycle_accounting_overflow' =
           \/ lifecycle_accounting_overflow \/ Overflows(submitted_count)
           \/ ~GateOpen /\ Overflows(rejected_count)
    /\ \/ /\ GateOpen
          /\ active_submitter_count' = active_submitter_count + 1
          /\ Goto(t, call)
          /\ task' = [task EXCEPT ![t] = k]
          /\ UNCHANGED <<rejected_count, outcome>>
       \/ /\ ~GateOpen
          /\ rejected_count' = Increment(rejected_count)
          /\ outcome' = [outcome EXCEPT ![k] =
                IF state \in {"SHUTTING_DOWN", "STOPPED"} THEN "SHUTDOWN"
                ELSE "INVALID_STATE"]
          /\ UNCHANGED <<active_submitter_count, pc, task>>
    /\ UNCHANGED <<queueVars, implementation, state, accepted_count,
                   workerVars, contextVars, exit, joinVars, returned,
                   executed>>

(* The queue operation, entered with no scheduler mutex held. *)
SubmitToQueue(t) ==
    /\ \/ /\ pc[t] = "submit"
          /\ Q!concurrent_task_queue_enqueue(t, task[t])
          /\ Goto(t, "submitted")
       \/ /\ pc[t] = "try_submit"
          /\ Q!concurrent_task_queue_try_enqueue(t, task[t])
          /\ Goto(t, "try_submitted")
    /\ UNCHANGED <<lifecycleVars, workerVars, contextVars, task, exit,
                   joinVars, returned, history>>

(* active_submitter_count after a deregistration, for any result. *)
Leaves(code) ==
    IF active_submitter_count = 0 THEN 0 ELSE active_submitter_count - 1

deregister_submitter(t) ==
    LET code == IF pc[t] = "submitted" THEN map_blocking_enqueue_result(qret[t][1])
                                       ELSE map_try_enqueue_result(qret[t][1])
        remaining == Leaves(code)
    IN
    /\ pc[t] \in {"submitted", "try_submitted"}
    /\ qpc[t] = "idle"
    /\ \/ /\ code = "OK"
          /\ accepted_count' = Increment(accepted_count)
          /\ UNCHANGED rejected_count
       \/ /\ code # "OK"
          /\ rejected_count' = Increment(rejected_count)
          /\ UNCHANGED accepted_count
    /\ lifecycle_accounting_overflow' =
           \/ lifecycle_accounting_overflow
           \/ Overflows(IF code = "OK" THEN accepted_count ELSE rejected_count)
    /\ active_submitter_count' = remaining
    /\ pc' = [pc EXCEPT ![t] = Home(t),
                        ![Main] = IF remaining = 0 THEN LifecycleWake(@) ELSE @]
    /\ outcome' = [outcome EXCEPT ![task[t]] =
                       IF active_submitter_count = 0 THEN "SYSTEM" ELSE code]
    /\ task' = [task EXCEPT ![t] = NULL]
    /\ UNCHANGED <<queueVars, implementation, state, submitted_count,
                   workerVars, contextVars, exit, joinVars, returned,
                   executed, tally>>

Submit(t) ==
    \/ \E call \in (IF t \in Workers THEN CallbackCalls ELSE {"submit", "try_submit"}) :
           register_submitter(t, call)
    \/ SubmitToQueue(t)
    \/ deregister_submitter(t)

-----------------------------------------------------------------------------
(* scheduler_worker_entry. *)
(* scheduler_observability_increment_single_writer_atomic: a capture sees  *)
(* the counter before the store or after it.                               *)
Count(w, counter) ==
    /\ context' = [context EXCEPT ![w][counter] = Increment(@)]
    /\ accounting_overflow' =
           [accounting_overflow EXCEPT ![w] = @ \/ Overflows(context[w][counter])]

WorkerReady(w) ==
    /\ pc[w] = "entry"
    /\ active_worker_count' = active_worker_count + 1
    /\ ready_worker_count' = ready_worker_count + 1
    /\ pc' = [pc EXCEPT ![w] = "dequeue", ![Main] = WorkerWake(@)]
    /\ UNCHANGED <<queueVars, lifecycleVars, allocated, handle,
                   worker_sync_initialized, started_worker_count,
                   created_worker_count, joined_worker_count, total,
                   failureVars, contextVars, task, exit, joinVars, returned,
                   history>>

WorkerDequeue(w) ==
    /\ pc[w] = "dequeue"
    /\ Q!concurrent_task_queue_dequeue(w)
    /\ Goto(w, "dequeued")
    /\ UNCHANGED <<lifecycleVars, workerVars, contextVars, task, exit,
                   joinVars, returned, history>>

(* A dequeue that returned a task: three counters, one atomic step each,   *)
(* then the callback.                                                      *)
WorkerCountsDequeue(w) ==
    /\ pc[w] = "dequeued" /\ qpc[w] = "idle" /\ qret[w][1] = "OK"
    /\ Count(w, "dequeued")
    /\ task' = [task EXCEPT ![w] = qret[w][2]]
    /\ Goto(w, "count_started")
    /\ UNCHANGED <<queueVars, lifecycleVars, workerVars, exit, joinVars,
                   returned, history>>

(* A mutant: the callback is not counted as running. *)
RunningNotCounted(w) ==
    /\ pc[w] = "count_started" /\ Count(w, "started") /\ Goto(w, "execute")
    /\ UNCHANGED <<queueVars, lifecycleVars, workerVars, task, exit, joinVars,
                   returned, history>>

WorkerCountsStart(w) ==
    /\ \/ pc[w] = "count_started" /\ Count(w, "started") /\ Goto(w, "count_running")
       \/ pc[w] = "count_running" /\ Count(w, "running") /\ Goto(w, "execute")
    /\ UNCHANGED <<queueVars, lifecycleVars, workerVars, task, exit, joinVars,
                   returned, history>>

WorkerExecutes(w) ==
    /\ pc[w] = "execute"
    /\ executed' = [executed EXCEPT ![task[w]] = @ + 1]
    /\ task' = [task EXCEPT ![w] = NULL]
    /\ Goto(w, "callback")
    /\ UNCHANGED <<queueVars, lifecycleVars, workerVars, contextVars, exit,
                   joinVars, returned, outcome, tally>>

(* The callback returns zero or not, which only selects the counter. *)
CallbackReturns(w) ==
    /\ pc[w] = "callback"
    /\ \E counter \in {"succeeded", "failed"} : Count(w, counter) /\ Tally(counter)
    /\ Goto(w, "count_stopped")
    /\ UNCHANGED <<queueVars, lifecycleVars, workerVars, task, exit, joinVars,
                   returned, executed, outcome>>

(* A worker runs one callback at a time, so the count it raised was zero   *)
(* and running_accounted holds.                                            *)
WorkerCountsStop(w) ==
    /\ pc[w] = "count_stopped"
    /\ context' = [context EXCEPT ![w]["running"] = @ - 1]
    /\ Goto(w, "dequeue")
    /\ UNCHANGED <<accounting_overflow, queueVars, lifecycleVars, workerVars,
                   task, exit, joinVars, returned, history>>

(* A dequeue that failed shuts the queue down before the worker gives up. *)
WorkerQueueFailure(w) ==
    /\ pc[w] = "dequeued" /\ qpc[w] = "idle"
    /\ qret[w][1] \notin {"OK", "SHUTDOWN"}
    /\ Q!concurrent_task_queue_shutdown(w)
    /\ Goto(w, "abandon")
    /\ UNCHANGED <<lifecycleVars, workerVars, contextVars, task, exit,
                   joinVars, returned, history>>

(* A worker that finds no active worker to uncount is a failure of its own, *)
(* counted before the failure of its result.                                *)
record_worker_exit(w, code) ==
    LET uncounted == active_worker_count = 0
        final == IF uncounted THEN "SYNCHRONIZATION" ELSE code
        failures == (IF uncounted THEN 1 ELSE 0) + (IF final = "OK" THEN 0 ELSE 1)
    IN
    /\ active_worker_count' = IF uncounted THEN 0 ELSE active_worker_count - 1
    /\ worker_runtime_failure_count' =
           add_saturating(worker_runtime_failure_count, failures)
    /\ worker_accounting_overflow' =
           \/ worker_accounting_overflow
           \/ SumOverflows(worker_runtime_failure_count, failures)
    /\ tally' = [tally EXCEPT !["runtime_failures"] = @ + failures]
    /\ exit' = [exit EXCEPT ![w] = final]
    /\ Goto(w, "exited")
    /\ UNCHANGED <<queueVars, lifecycleVars, allocated, handle,
                   worker_sync_initialized, started_worker_count,
                   created_worker_count, ready_worker_count,
                   joined_worker_count, total, worker_startup_failure_count,
                   join_failure_count, contextVars, task, joinVars, returned,
                   executed, outcome>>

WorkerExits(w) ==
    \/ /\ pc[w] = "dequeued" /\ qpc[w] = "idle" /\ qret[w][1] = "SHUTDOWN"
       /\ record_worker_exit(w, "OK")
    \/ pc[w] = "abandon" /\ record_worker_exit(w, "QUEUE")

scheduler_worker_entry(w) ==
    \/ WorkerReady(w) \/ WorkerDequeue(w) \/ WorkerCountsDequeue(w)
    \/ WorkerCountsStart(w) \/ WorkerExecutes(w) \/ CallbackReturns(w)
    \/ WorkerCountsStop(w) \/ WorkerQueueFailure(w) \/ WorkerExits(w)

-----------------------------------------------------------------------------
(* Lifecycle calls, by Main. *)
LifecycleReturns(call, code) ==
    /\ returned' = <<call, code>>
    /\ Goto(Main, "idle")

(* A call that returns at once: without an implementation, or from a state *)
(* that does not admit it.                                                 *)
Refused(call, code) ==
    /\ returned' = <<call, code>>
    /\ UNCHANGED <<queueVars, lifecycleVars, workerVars, contextVars, pc,
                   task, exit, joinVars, history>>

LifecycleCallReturnsAtOnce ==
    /\ pc[Main] = "idle"
    /\ \/ /\ ~implementation
          /\ \/ \E call \in {"start", "shutdown", "join"} : Refused(call, "INVALID_STATE")
             \/ Refused("destroy", "OK")
       \/ /\ implementation /\ state = "STOPPED"
          /\ \E call \in {"shutdown", "join"} : Refused(call, "OK")
       \/ /\ implementation
          /\ \/ state # "INITIALIZED" /\ Refused("start", "INVALID_STATE")
             \/ /\ state \notin {"RUNNING", "SHUTTING_DOWN", "STOPPED"}
                /\ Refused("shutdown", "INVALID_STATE")
             \/ /\ state \notin {"SHUTTING_DOWN", "FAILED", "STOPPED"}
                /\ Refused("join", "INVALID_STATE")

(* scheduler_start *)
StartBegins ==
    /\ pc[Main] = "idle" /\ implementation /\ state = "INITIALIZED"
    /\ state' = "STARTING"
    /\ Goto(Main, "start_allocate")
    /\ UNCHANGED <<queueVars, implementation, active_submitter_count,
                   submissionVars, workerVars, contextVars, task, exit,
                   joinVars, returned, history>>

(* The arrays and the worker mutex and condition; if one cannot be made    *)
(* the others are released and start can be tried again.                   *)
StartAllocates ==
    /\ pc[Main] = "start_allocate"
    /\ \/ /\ allocated' = TRUE
          /\ worker_sync_initialized' = TRUE
          /\ Goto(Main, "start_create")
          /\ UNCHANGED <<state, returned>>
       \/ /\ "start" \in Faults
          /\ state' = "INITIALIZED"
          /\ \E code \in {"ALLOCATION", "SYSTEM"} : LifecycleReturns("start", code)
          /\ UNCHANGED <<allocated, worker_sync_initialized>>
    /\ UNCHANGED <<queueVars, implementation, active_submitter_count,
                   submissionVars, handle, started_worker_count,
                   created_worker_count, ready_worker_count,
                   active_worker_count, joined_worker_count, total,
                   failureVars, contextVars, task, exit, joinVars, history>>

(* A mutant: only started_worker_count, which join resets, is maintained. *)
CreatedNotCounted ==
    /\ started_worker_count' = started_worker_count + 1
    /\ UNCHANGED created_worker_count

CountCreated ==
    /\ started_worker_count' = started_worker_count + 1
    /\ created_worker_count' = created_worker_count + 1

StartCreates ==
    LET w == started_worker_count + 1 IN
    /\ pc[Main] = "start_create" /\ started_worker_count < WorkerCount
    /\ \/ /\ handle' = [handle EXCEPT ![w] = TRUE]
          /\ CountCreated
          /\ pc' = [pc EXCEPT ![w] = "entry",
                              ![Main] = IF w = WorkerCount THEN "start_wait" ELSE @]
          /\ UNCHANGED <<worker_startup_failure_count,
                         worker_accounting_overflow, tally>>
       \/ /\ "creation" \in Faults
          /\ worker_startup_failure_count' = Increment(worker_startup_failure_count)
          /\ worker_accounting_overflow' =
                 (worker_accounting_overflow \/ Overflows(worker_startup_failure_count))
          /\ Tally("startup_failures")
          /\ Goto(Main, "start_abort")
          /\ UNCHANGED <<handle, started_worker_count, created_worker_count>>
    /\ UNCHANGED <<queueVars, lifecycleVars, allocated,
                   worker_sync_initialized, ready_worker_count,
                   active_worker_count, joined_worker_count, total,
                   worker_runtime_failure_count, join_failure_count,
                   contextVars, task, exit, joinVars, returned, executed,
                   outcome>>

(* The readiness handshake, under the worker mutex. *)
StartWaits ==
    /\ \/ /\ pc[Main] = "start_wait" /\ ready_worker_count < WorkerCount
          /\ Goto(Main, "start_asleep")
       \/ /\ pc[Main] = "start_wait" /\ ready_worker_count >= WorkerCount
          /\ Goto(Main, "start_publish")
       \/ /\ pc[Main] = "start_asleep" /\ "wait" \in Faults
          /\ Goto(Main, "start_abort")
    /\ UNCHANGED <<queueVars, lifecycleVars, workerVars, contextVars, task,
                   exit, joinVars, returned, history>>

StartPublishes ==
    /\ pc[Main] = "start_publish"
    /\ state' = "RUNNING"
    /\ LifecycleReturns("start", "OK")
    /\ UNCHANGED <<queueVars, implementation, active_submitter_count,
                   submissionVars, workerVars, contextVars, task, exit,
                   joinVars, history>>

BeginRelease(label) ==
    /\ index' = 1 /\ all_joined' = TRUE /\ result' = "OK"
    /\ Goto(Main, label)

(* A mutant: the workers that were created are left waiting for a task. *)
StartAbortsQueueOpen ==
    /\ pc[Main] = "start_abort"
    /\ BeginRelease("start_release")
    /\ UNCHANGED <<queueVars, lifecycleVars, workerVars, contextVars, task, exit,
                   returned, history>>

(* A failed start shuts the queue down so that the workers it did create   *)
(* come out, and joins them.                                               *)
StartAborts ==
    /\ pc[Main] = "start_abort"
    /\ Q!concurrent_task_queue_shutdown(Main)
    /\ BeginRelease("start_release")
    /\ UNCHANGED <<lifecycleVars, workerVars, contextVars, task, exit,
                   returned, history>>

StartFails ==
    /\ pc[Main] = "start_fail"
    /\ state' = "FAILED"
    /\ LifecycleReturns("start", "SYSTEM")
    /\ UNCHANGED <<queueVars, implementation, active_submitter_count,
                   submissionVars, workerVars, contextVars, task, exit,
                   joinVars, history>>

(* A mutant: a failed join is not remembered. *)
JoinFailureForgotten == UNCHANGED all_joined

JoinFailureKept == all_joined' = FALSE

Released(w) ==
    /\ handle' = [handle EXCEPT ![w] = FALSE]
    /\ index' = index + 1

CountJoinFailure ==
    /\ tally["join_failures"] < MaxJoinFailures
    /\ Tally("join_failures")
    /\ join_failure_count' = Increment(join_failure_count)
    /\ worker_accounting_overflow' =
           (worker_accounting_overflow \/ Overflows(join_failure_count))

NoJoinFailure ==
    UNCHANGED <<join_failure_count, worker_accounting_overflow, tally>>

(* release_workers: one iteration of the join loop.  A join returns only   *)
(* when the worker has exited; a native join that fails keeps the handle,  *)
(* so that a later call tries again.                                       *)
JoinWorker ==
    /\ pc[Main] \in {"start_release", "join_release"}
    /\ index <= started_worker_count
    /\ \/ /\ ~handle[index]
          /\ index' = index + 1
          /\ NoJoinFailure
          /\ UNCHANGED <<handle, joined_worker_count, all_joined, result>>
       \/ /\ handle[index] /\ "native_join" \in Faults
          /\ CountJoinFailure
          /\ result' = "SYSTEM" /\ JoinFailureKept
          /\ index' = index + 1
          /\ UNCHANGED <<handle, joined_worker_count>>
       \/ /\ handle[index] /\ pc[index] = "exited" /\ "worker_join" \in Faults
          /\ CountJoinFailure
          /\ result' = "SYSTEM"
          /\ Released(index)
          /\ UNCHANGED <<joined_worker_count, all_joined>>
       \/ /\ handle[index] /\ pc[index] = "exited" /\ exit[index] # "OK"
          /\ result' = "SYSTEM"
          /\ Released(index)
          /\ NoJoinFailure
          /\ UNCHANGED <<joined_worker_count, all_joined>>
       \/ /\ handle[index] /\ pc[index] = "exited" /\ exit[index] = "OK"
          /\ joined_worker_count' = joined_worker_count + 1
          /\ Released(index)
          /\ NoJoinFailure
          /\ UNCHANGED <<all_joined, result>>
    /\ UNCHANGED <<queueVars, lifecycleVars, allocated,
                   worker_sync_initialized, started_worker_count,
                   created_worker_count, ready_worker_count,
                   active_worker_count, total, worker_startup_failure_count,
                   worker_runtime_failure_count, contextVars, pc, task, exit,
                   returned, executed, outcome>>

AfterRelease == IF pc[Main] = "start_release" THEN "start_fail" ELSE "join_publish"

(* Mutants: a sum that stops one worker short, one that starts from the    *)
(* first worker and then adds it again, arrays freed but not NULL.         *)
AggregateOneShort(counter) ==
    [w \in 0..WorkerCount |->
        IF w \in {0, 1} THEN total[counter]
        ELSE add_saturating(total[counter], context[w - 1][counter])]

AggregateFirstTwice(counter) ==
    LET sum[w \in 0..WorkerCount] ==
            IF w = 0 THEN add_saturating(total[counter], context[1][counter])
            ELSE add_saturating(sum[w - 1], context[w][counter])
    IN sum

ArraysNotCleared ==
    /\ UNCHANGED allocated
    /\ started_worker_count' = 0 /\ ready_worker_count' = 0

(* The aggregate of a counter after the first w workers have been added. *)
Aggregate(counter) ==
    LET sum[w \in 0..WorkerCount] ==
            IF w = 0 THEN total[counter]
            ELSE add_saturating(sum[w - 1], context[w][counter])
    IN sum

Aggregated == Counters \ {"running"}

AggregateOverflows ==
    \/ worker_accounting_overflow
    \/ \E w \in Workers :
           \/ accounting_overflow[w]
           \/ \E c \in Aggregated : SumOverflows(Aggregate(c)[w - 1], context[w][c])

FreeArrays ==
    /\ allocated' = FALSE
    /\ started_worker_count' = 0 /\ ready_worker_count' = 0

(* The end of release_workers: the counters of the workers are added up    *)
(* and the arrays freed, unless some worker could not be joined.           *)
FinishRelease ==
    /\ pc[Main] \in {"start_release", "join_release"}
    /\ index > started_worker_count
    /\ Goto(Main, AfterRelease)
    /\ \/ /\ ~all_joined
          /\ result' = "SYSTEM"
          /\ UNCHANGED <<allocated, started_worker_count, ready_worker_count,
                         total, worker_accounting_overflow, contextVars>>
       \/ /\ all_joined
          /\ result' = IF worker_runtime_failure_count > 0 THEN "SYSTEM" ELSE result
          /\ total' = [c \in Counters |->
                IF c \in Aggregated THEN Aggregate(c)[WorkerCount] ELSE total[c]]
          /\ worker_accounting_overflow' = AggregateOverflows
          /\ context' = [w \in Workers |-> ZeroCounters]
          /\ accounting_overflow' = [w \in Workers |-> FALSE]
          /\ FreeArrays
    /\ UNCHANGED <<queueVars, lifecycleVars, handle, worker_sync_initialized,
                   created_worker_count, active_worker_count,
                   joined_worker_count, worker_startup_failure_count,
                   worker_runtime_failure_count, join_failure_count, task,
                   exit, index, all_joined, returned, history>>

(* scheduler_shutdown *)
ShutdownBegins ==
    /\ pc[Main] = "idle" /\ implementation
    /\ state \in {"RUNNING", "SHUTTING_DOWN"}
    /\ state' = "SHUTTING_DOWN"
    /\ Goto(Main, "shutdown_queue")
    /\ UNCHANGED <<queueVars, implementation, active_submitter_count,
                   submissionVars, workerVars, contextVars, task, exit,
                   joinVars, returned, history>>

ShutdownQueue ==
    /\ pc[Main] = "shutdown_queue"
    /\ Q!concurrent_task_queue_shutdown(Main)
    /\ Goto(Main, "shutdown_wait")
    /\ UNCHANGED <<lifecycleVars, workerVars, contextVars, task, exit,
                   joinVars, returned, history>>

(* A mutant: shutdown and join do not wait for the submitters. *)
NobodyRemains == FALSE

(* Wait until every registered submitter has deregistered. *)
SubmittersRemain == active_submitter_count # 0

ShutdownWaits ==
    /\ \/ /\ pc[Main] = "shutdown_wait" /\ SubmittersRemain
          /\ Goto(Main, "shutdown_asleep")
          /\ UNCHANGED returned
       \/ /\ pc[Main] = "shutdown_wait" /\ ~SubmittersRemain
          /\ LifecycleReturns("shutdown", "OK")
       \/ /\ pc[Main] = "shutdown_asleep" /\ "wait" \in Faults
          /\ LifecycleReturns("shutdown", "SYSTEM")
    /\ UNCHANGED <<queueVars, lifecycleVars, workerVars, contextVars, task,
                   exit, joinVars, history>>

(* scheduler_join *)
JoinWaits ==
    /\ \/ /\ pc[Main] = "idle" /\ implementation
          /\ state \in {"SHUTTING_DOWN", "FAILED"}
       \/ pc[Main] = "join_wait"
    /\ \/ /\ SubmittersRemain
          /\ Goto(Main, "join_asleep")
          /\ UNCHANGED joinVars
       \/ ~SubmittersRemain /\ BeginRelease("join_release")
    /\ UNCHANGED <<queueVars, lifecycleVars, workerVars, contextVars, task,
                   exit, returned, history>>

JoinWaitFails ==
    /\ pc[Main] = "join_asleep" /\ "wait" \in Faults
    /\ LifecycleReturns("join", "SYSTEM")
    /\ UNCHANGED <<queueVars, lifecycleVars, workerVars, contextVars, task,
                   exit, joinVars, history>>

JoinPublishes ==
    /\ pc[Main] = "join_publish"
    /\ \/ /\ allocated
          /\ state' = "FAILED"
          /\ LifecycleReturns("join", "SYSTEM")
       \/ /\ ~allocated
          /\ state' = "STOPPED"
          /\ LifecycleReturns("join", result)
    /\ UNCHANGED <<queueVars, implementation, active_submitter_count,
                   submissionVars, workerVars, contextVars, task, exit,
                   joinVars, history>>

(* scheduler_destroy.  The caller keeps it from racing with submissions.   *)
Destructible ==
    /\ state \in {"INITIALIZED", "STOPPED", "FAILED"}
    /\ active_submitter_count = 0
    /\ ~allocated

scheduler_destroy ==
    /\ pc[Main] = "idle" /\ implementation
    /\ \A t \in Submitters : pc[t] = "idle"
    /\ \/ ~Destructible /\ Refused("destroy", "INVALID_STATE")
       \/ /\ Destructible
          /\ implementation' = FALSE
          /\ worker_sync_initialized' = FALSE
          /\ returned' = <<"destroy", "OK">>
          /\ UNCHANGED <<queueVars, state, active_submitter_count,
                         submissionVars, allocated, handle,
                         started_worker_count, created_worker_count,
                         ready_worker_count, active_worker_count,
                         joined_worker_count, total, failureVars, contextVars,
                         pc, task, exit, joinVars, history>>

MainSpuriousWakeup ==
    /\ pc[Main] \in {"start_asleep", "shutdown_asleep", "join_asleep"}
    /\ Goto(Main, WorkerWake(LifecycleWake(pc[Main])))
    /\ UNCHANGED <<queueVars, lifecycleVars, workerVars, contextVars, task,
                   exit, joinVars, returned, history>>

(* What Main does within a call without having to be woken. *)
LifecycleStep ==
    \/ StartAllocates \/ StartCreates \/ StartPublishes
    \/ StartAborts \/ StartFails
    \/ (pc[Main] = "start_wait" /\ StartWaits)
    \/ JoinWorker \/ FinishRelease
    \/ ShutdownQueue
    \/ (pc[Main] = "shutdown_wait" /\ ShutdownWaits)
    \/ (pc[Main] = "join_wait" /\ JoinWaits)
    \/ JoinPublishes

LifecycleCall ==
    \/ LifecycleCallReturnsAtOnce \/ StartBegins \/ ShutdownBegins
    \/ (pc[Main] = "idle" /\ JoinWaits)
    \/ scheduler_destroy

LifecycleWaitFails ==
    /\ pc[Main] \in {"start_asleep", "shutdown_asleep", "join_asleep"}
    /\ StartWaits \/ ShutdownWaits \/ JoinWaitFails

(* A thread blocked inside the queue. *)
QueueResumes(t) ==
    /\ Q!Resume(t)
    /\ UNCHANGED <<lifecycleVars, workerVars, contextVars, pc, task, exit,
                   joinVars, returned, history>>

QueueWaitEnds(t) ==
    /\ Q!SpuriousWakeup(t) \/ Q!WaitFails(t)
    /\ UNCHANGED <<lifecycleVars, workerVars, contextVars, pc, task, exit,
                   joinVars, returned, history>>

Next ==
    \/ LifecycleCall \/ LifecycleStep \/ LifecycleWaitFails \/ MainSpuriousWakeup
    \/ \E t \in Workers \cup Submitters :
           Submit(t) \/ QueueResumes(t) \/ QueueWaitEnds(t)
    \/ \E w \in Workers : scheduler_worker_entry(w)

Spec == Init /\ [][Next]_vars

(* Every thread that can go on with what it has begun does: Main within a  *)
(* lifecycle call, a worker (callbacks return), a registered submitter, a  *)
(* thread that was woken inside the queue.  No call is ever assumed to be  *)
(* made, no sleeper to wake without a signal.                              *)
Fairness ==
    /\ WF_vars(LifecycleStep)
    /\ \A w \in Workers : WF_vars(scheduler_worker_entry(w))
    /\ \A t \in Workers \cup Submitters :
           /\ WF_vars(QueueResumes(t))
           /\ WF_vars(SubmitToQueue(t) \/ deregister_submitter(t))

LiveSpec == Spec /\ Fairness

-----------------------------------------------------------------------------
SubmitLabels == {"submit", "try_submit", "submitted", "try_submitted"}
TaskInHandLabels == {"count_started", "count_running", "execute"}
WorkerLabels == {"none", "entry", "dequeue", "dequeued", "callback",
                 "count_stopped", "abandon", "exited"}
                    \cup TaskInHandLabels \cup SubmitLabels
MainLabels == {"idle", "start_allocate", "start_create", "start_wait",
               "start_asleep", "start_publish", "start_abort", "start_release",
               "start_fail", "shutdown_queue", "shutdown_wait",
               "shutdown_asleep", "join_wait", "join_asleep", "join_release",
               "join_publish"}
LifecycleStates == {"INITIALIZED", "STARTING", "RUNNING", "SHUTTING_DOWN",
                    "STOPPED", "FAILED"}
SchedulerCodes == {"none", "OK", "INVALID_STATE", "ALLOCATION", "QUEUE_FULL",
                   "SHUTDOWN", "SYSTEM"}

(* The types of the scheduler's fields; the queue has its own. *)
TypeOK ==
    /\ implementation \in BOOLEAN /\ state \in LifecycleStates
    /\ active_submitter_count \in Nat
    /\ {submitted_count, accepted_count, rejected_count} \subseteq 0..CounterMax
    /\ lifecycle_accounting_overflow \in BOOLEAN
    /\ allocated \in BOOLEAN /\ worker_sync_initialized \in BOOLEAN
    /\ handle \in [Workers -> BOOLEAN]
    /\ started_worker_count \in 0..WorkerCount
    /\ created_worker_count \in Nat /\ ready_worker_count \in Nat
    /\ active_worker_count \in Nat /\ joined_worker_count \in Nat
    /\ total \in [Counters -> 0..CounterMax]
    /\ {worker_startup_failure_count, worker_runtime_failure_count,
         join_failure_count} \subseteq 0..CounterMax
    /\ worker_accounting_overflow \in BOOLEAN
    /\ context \in [Workers -> [Counters -> 0..CounterMax]]
    /\ accounting_overflow \in [Workers -> BOOLEAN]
    /\ pc \in [Threads -> WorkerLabels \cup MainLabels]
    /\ \A w \in Workers : pc[w] \in WorkerLabels
    /\ \A t \in Submitters : pc[t] \in {"idle"} \cup SubmitLabels
    /\ pc[Main] \in MainLabels
    /\ task \in [Threads -> Tasks \cup {NULL}]
    /\ exit \in [Workers -> {"none", "OK", "QUEUE", "SYNCHRONIZATION"}]
    /\ index \in Nat \ {0} /\ all_joined \in BOOLEAN
    /\ result \in {"OK", "SYSTEM"}
    /\ executed \in [Tasks -> Nat]
    /\ outcome \in [Tasks -> SchedulerCodes]
    /\ tally \in [Tallied -> Nat]

Registered == {t \in Threads : pc[t] \in SubmitLabels}

(* What a saturating counter shows of n events. *)
Saturated(n) == IF n > CounterMax THEN CounterMax ELSE n

(* The submissions whose result is one of codes. *)
Answered(codes) == Cardinality({k \in Tasks : outcome[k] \in codes})
Refusals == SchedulerCodes \ {"none", "OK"}

(* The submission gate counts exactly the threads between registration and *)
(* deregistration, and every submission counted is accepted, rejected or   *)
(* still under way, whatever the queue answered.  Shutdown and join wait   *)
(* on this count, and destroy relies on it.  The counters are those true   *)
(* numbers until they saturate, and the flag says whether one has.         *)
SubmissionsAccounted ==
    /\ active_submitter_count = Cardinality(Registered)
    /\ tally["submitted"] = Answered({"OK"} \cup Refusals) + active_submitter_count
    /\ submitted_count = Saturated(tally["submitted"])
    /\ accepted_count = Saturated(Answered({"OK"}))
    /\ rejected_count = Saturated(Answered(Refusals))
    /\ lifecycle_accounting_overflow <=> tally["submitted"] > CounterMax

(* After scheduler_shutdown has returned OK no submission is under way,    *)
(* none can begin, and the queue is closed: what is queued then is all     *)
(* that the workers will ever run.                                         *)
ShutdownClosesGate ==
    returned = <<"shutdown", "OK">> /\ pc[Main] = "idle" =>
        /\ Registered = {}
        /\ ~GateOpen
        /\ shutdown_requested

(* The workers that hold Task k between dequeue and the callback. *)
Holders(k) ==
    {w \in Workers :
        \/ pc[w] = "dequeued" /\ qpc[w] = "idle" /\ qret[w] = <<"OK", k>>
        \/ pc[w] \in TaskInHandLabels /\ task[w] = k}

Queued(k) == {i \in 1..Len(queue) : queue[i] = k}

(* Has the queue taken Task k?  The submitter may not know it yet. *)
Accepted(k) ==
    \/ outcome[k] = "OK"
    \/ \E t \in Registered :
           /\ task[t] = k /\ pc[t] \in {"submitted", "try_submitted"}
           /\ qpc[t] = "idle" /\ qret[t][1] = "OK"

(* An accepted task is in exactly one place: in the queue, in the hands of *)
(* one worker, or handed to the callback once.  A task whose submission    *)
(* was refused is in none, now or later.                                   *)
EachTaskInOnePlace ==
    \A k \in Tasks :
        Cardinality(Queued(k)) + Cardinality(Holders(k)) + executed[k]
            = IF Accepted(k) THEN 1 ELSE 0

(* Once join has published STOPPED, or destroy has freed the scheduler, no *)
(* worker exists that could run a callback or touch the queue, even after  *)
(* a failed start, failed joins and retries.                               *)
NoWorkerOutlivesJoin ==
    state = "STOPPED" \/ ~implementation =>
        /\ \A w \in Workers : pc[w] \in {"none", "exited"} /\ ~handle[w]
        /\ \A t \in Threads : qpc[t] = "idle"

(* At STOPPED what was accepted has run to its end once or is still in the *)
(* queue, no worker is counted as active, and the aggregated counters show *)
(* these numbers (validate_quiescent of scheduler_validation.c).  Added up *)
(* from per-worker counters that may saturate themselves, they saturate as *)
(* one counter would, and worker_accounting_overflow is raised exactly     *)
(* when a number no longer fits: nothing else lets a reader tell.          *)
AccountsBalanceWhenStopped ==
    LET ran == Cardinality({k \in Tasks : executed[k] = 1}) IN
    state = "STOPPED" =>
        /\ Answered({"OK"}) = ran + Len(queue)
        /\ ran = tally["succeeded"] + tally["failed"]
        /\ total["dequeued"] = Saturated(ran) /\ total["started"] = Saturated(ran)
        /\ total["succeeded"] = Saturated(tally["succeeded"])
        /\ total["failed"] = Saturated(tally["failed"])
        /\ worker_accounting_overflow <=>
               \/ ran > CounterMax
               \/ \E c \in {"startup_failures", "runtime_failures", "join_failures"} :
                      tally[c] > CounterMax
        /\ active_worker_count = 0

(* The bounds that validate_structural checks on every snapshot hold at    *)
(* every instant: no worker is ready, active or joined before it is        *)
(* counted as created, and a callback runs only in an active worker.       *)
WorkerCountsBounded ==
    /\ created_worker_count <= WorkerCount
    /\ ready_worker_count <= created_worker_count
    /\ active_worker_count <= created_worker_count
    /\ joined_worker_count <= created_worker_count
    /\ Cardinality({w \in Workers : context[w]["running"] > 0})
           <= active_worker_count

(* A start that fails leaves a scheduler that destroy accepts. *)
FailedStartDestructible ==
    /\ pc[Main] = "idle" /\ implementation
    /\ returned[1] = "start" /\ returned[2] \in {"ALLOCATION", "SYSTEM"}
    => Destructible

(* The shutdown and join sequence drains the queue: when the scheduler is  *)
(* destroyed no accepted task is left without its callback.                *)
DrainedBeforeDestroy == ~implementation => queue = <<>>

(* The pool that a caller sees: where each task is, what its submitter has *)
(* been told, and how many callbacks are running.                          *)
InCallback == {w \in Workers : pc[w] \in {"callback"} \cup SubmitLabels}

PoolPhase ==
    IF ~implementation THEN "gone"
    ELSE CASE state \in {"INITIALIZED", "STARTING"} -> "new"
           [] state = "RUNNING" -> "open"
           [] state \in {"SHUTTING_DOWN", "FAILED"} -> "closed"
           [] state = "STOPPED" -> "stopped"

PoolStatus ==
    [k \in Tasks |-> IF executed[k] > 0 THEN "called"
                     ELSE IF Holders(k) # {} THEN "taken"
                     ELSE IF Queued(k) # {} THEN "pending"
                     ELSE IF outcome[k] # "none" THEN "refused"
                     ELSE IF \E t \in Registered : task[t] = k THEN "offered"
                     ELSE "new"]

PoolAnswer ==
    [k \in Tasks |-> IF outcome[k] \in {"none", "OK"} THEN outcome[k] ELSE "refused"]

PoolRunning == Cardinality(InCallback)

Pool == INSTANCE TaskPool WITH
    Lossy <- "wait" \in Faults, phase <- PoolPhase, pending <- queue,
    status <- PoolStatus, answer <- PoolAnswer, running <- PoolRunning

(* The scheduler implements the task pool: FIFO hand-over, one callback per *)
(* accepted task, no more callbacks at a time than workers, nothing taken  *)
(* in after the gate closed and nothing running after STOPPED, whatever    *)
(* the interleaving of submitters, workers and lifecycle calls.  A failed  *)
(* condition wait may leave accepted tasks behind, nothing else may.       *)
ImplementsTaskPool == Pool!Spec

(* Every lifecycle call returns: start, although workers become ready in   *)
(* any order or not at all; shutdown, although submitters are blocked on a *)
(* full queue; join, although callbacks submit to the queue they drain.    *)
LifecycleCallsReturn == pc[Main] # "idle" ~> pc[Main] = "idle"

(* A task whose submission returned OK is handed to the callback, with or  *)
(* without a shutdown.                                                     *)
AcceptedTasksRun == \A k \in Tasks : outcome[k] = "OK" ~> executed[k] = 1
=============================================================================
