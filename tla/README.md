# Verification of the concurrent task scheduling engine

TLA+ specifications of the C library under `src/src/`: a bounded task queue, the
blocking queue built on it, and a fixed pool of workers that drains it. TLC checks
small instances of the modules; TLAPS proves the central results for every value
of the constants. Line numbers refer to `src/src/` unless a directory is given.

## The system

| Component | State | Operations | Hard behaviour |
|---|---|---|---|
| `TaskQueue` (`task_queue.c`) | ring of pointers: items, capacity, size, head, tail | init, destroy, enqueue, dequeue, peek, is_full, is_empty | index wrap, full against empty, re-creation |
| `ConcurrentTaskQueue` (`concurrent_task_queue.c`) | a `TaskQueue`, one mutex, `not_empty` and `not_full`, a shutdown flag, two waiter counts, a high-water mark | blocking and non-blocking enqueue and dequeue, peek, shutdown, queries | lost wakeups (above all with transition signaling), spurious and failed waits, shutdown with threads asleep |
| `Scheduler` (`scheduler.c`) | lifecycle state, submission counts (lifecycle mutex); thread handles and worker counts (worker mutex); per-worker atomic counters | init, start, submit, try_submit, shutdown, join, destroy; the worker loop | submissions racing with shutdown, acquisitions that fail half way, partial start, failed and retried joins, callbacks that submit, saturating counters |
| Snapshot and validation (`scheduler.c` 1104-1282, `scheduler_validation.c`) | none of its own | capture, validate (live, quiescent), derive health | a capture made of three critical sections and atomic loads |
| Synchronization backend (`platform/windows/sync_windows.c`) | native handles | mutex, condition variable, thread | the only backend; its waits, creations and joins can fail |
| Fault injection (`scheduler_fault_injection.c`) | one plan per scheduler: point, trigger, occurrence counter | configure, reset, should_trigger | must strike exactly once across failed starts and retried joins |
| `Task` (`task.c`) | state, remaining work | transition, consume work | sequential; neither queue nor scheduler touches it |
| Profiling, names, demo, benchmarks | diagnostic counters, strings | | influence nothing above |

The scheduler owns one concurrent queue. Submitters register under the lifecycle
mutex, release it, call the queue, and deregister; workers take tasks from the
queue and call the user's callback with no mutex held; `shutdown` closes the gate,
then the queue, then waits for the registered submitters; `join` waits for them
too, joins the workers and adds up their counters. No two mutexes are ever nested.

What makes each part correct: the ring is a bounded FIFO. The concurrent queue
makes every call atomic, never strands a sleeper, drains after shutdown. The
scheduler runs each accepted task once and no refused one, `shutdown` returns only
when no submission is under way, no worker outlives `join`, every lifecycle call
returns, the accounts balance or say that they have saturated, and nothing is leaked
or freed while a worker uses it, whatever fails. A snapshot satisfies the bounds that
validation applies to it, and one of a scheduler at rest is exact.

## The modules

| Module | Role |
|---|---|
| `BoundedFifo` | what `task_queue.h` promises |
| `TaskQueue` | the ring buffer, one action per function; implements `BoundedFifo` |
| `ClosableQueue` | what `concurrent_task_queue.h` promises: atomic calls that may be pending |
| `ConcurrentTaskQueue` | mutex, conditions and waiter counts; implements `ClosableQueue` |
| `Scheduler` | one lifetime of a scheduler, composed with `ConcurrentTaskQueue` by INSTANCE; implements `TaskPool` |
| `TaskPool` | what `scheduler.h` promises: accepted tasks run once, in order, and are drained |
| `SchedulerResources` | memory, system objects and the fault plan across lifetimes; every acquisition may fail |
| `SchedulerSnapshot` | extends `Scheduler` with a diagnostic thread, and models the validation |
| `MC*` | the instances that TLC checks |
| `*_proofs` | theorems |

### Grain of atomicity

A mutex is not a variable of the models. Everything a mutex guards is accessed
only with it held, so a step is one critical section: from acquiring the mutex, at
the beginning of a call or on the return from a wait, to releasing it, at the end
of the call or on entering a wait. Code between critical sections touches only
locals. Each update of a worker's atomic counters is a step of its own, because a
capture reads them concurrently. The snapshot holds the worker mutex over many
such loads; `HoldsWorkerMutex` and `UsesWorkerMutex` state that exclusion. The thread
handles are cleared by join without a lock, and are not part of it.

### TaskQueue

Variables are the fields of the struct. A NULL `items` is the empty function and
goes with capacity 0. `result` is what the last call returned. The refinement
mapping to `BoundedFifo` reads the tasks off the ring from `head` (`Contents`).

### ConcurrentTaskQueue

`queue` is the inner `TaskQueue` as a sequence, which is what `TaskQueue` is proved
to implement. `pc[t]` says whether thread t is outside, asleep on a condition
(`x_wait`), woken but without the mutex (`x_wake`), or leaving a failed wait
(`x_fail`). `concurrent_task_queue_enqueue(t, task)` is both the first critical
section of a call and, through `Resume`, the one after each wait: the `while` loop
re-tests the same predicate. `TransitionSignaling` selects the build option of
`CMakeLists.txt:23` (default OFF); `WaitFailures` lets `sched_condition_wait` return an error.
Left out: failures of lock, unlock, signal and broadcast. The code tests for them
but the Windows backend returns an error there only for a NULL object.

### Scheduler

`Main` makes the lifecycle calls (`scheduler.h` requires that they be serialized).
`Submitters` are outside threads, `Workers` run `scheduler_worker_entry` and may
submit from the callback (`CallbackCalls`). `pc[t]` names the next critical section.
The k-th submission is of task k. `Faults` lists the system calls that may fail:

| Fault | Code |
|---|---|
| `start` | array allocation, worker mutex or condition creation in `scheduler_start` (610-678) |
| `creation` | `sched_thread_create`, or the injected creation fault (715-740) |
| `wait` | any `sched_condition_wait`, in the queue, start, shutdown or join |
| `native_join` | `sched_thread_join` (342-357) |
| `worker_join` | the fault injected after a successful join (358-373) |

`scheduler_destroy` is kept from racing with submitters, as `scheduler.h` demands.
Defensive branches that other code makes unreachable (an active count of zero in
`record_worker_exit` or `deregister_submitter`) are modelled. `executed`,
`outcome` and `tally` are history variables used only by properties.
`LifecycleCallReturnsAtOnce` collects the early returns of all lifecycle calls.

The 64-bit counters stop at `CounterMax` (for `UINT64_MAX`) and set the overflow flag
of the owner: the lifecycle, the worker accounts, or one worker (`scheduler.c` 90-103,
`internal/scheduler_observability.h` 141-180). `tally` keeps the true
numbers, so the accounting properties say two things: a counter that has not
saturated is exact, and one that cannot be exact is marked. The sum over the workers
saturates too and sets the flag of the worker accounts.

`Pool` is the refinement mapping to `TaskPool`. The task queue of the scheduler is the
pool's list of pending tasks; `status[k]` follows the k-th submission from its
registration through the queue and the worker that holds it to the callback;
`answer[k]` is what its submitter has been told, which may come after the callback.
RUNNING is open, every later state before STOPPED is closed. `Lossy` holds exactly if
`"wait"` is among the faults (divergence 2 below). The cases of the mapping exclude each
other, so that it is a function of the state.

### SchedulerSnapshot

The diagnostic thread repeats `scheduler_capture_snapshot`: lifecycle fields, then
worker fields and one step per atomic load, then the queue fields. A finished
snapshot is validated at once and dropped; validation is a pure function of it.
A worker's counters are five atomic loads and its overflow flag a sixth. Both sets of
validators are modelled: `scheduler_snapshot_validate` in its live and quiescent modes,
which drops the accounting checks of a snapshot that overflowed and calls the result
incomplete, and the older yes-or-no ones of `scheduler.c`, which ignore overflow.
Lifecycle calls that are refused at once change nothing a capture reads and are left out
of `SchedulerStep`. `before` is a history variable: the callbacks that had returned when
the capture began, which the snapshot must not fall short of.

### SchedulerResources

`Scheduler` treats a failed start as one choice; here the calls are split at each
acquisition. An object (a block of memory, a mutex, a thread handle) consists of parts
acquired one after the other, e.g. a mutex is its storage and its native object, and
has a holder, the object with the pointer to it. `heap.live` is what is
allocated, `heap.owned` the pointers that are not NULL, and `heap.misuse` records a
double free or a free through freed memory. Each acquisition of `scheduler_init`
(including `concurrent_task_queue_init`) and `scheduler_start` may fail, at each of its
parts, and unwinds in the order of the code: `Unwinding` stands for its hand-written
branches, each of which releases what was acquired before, latest first, and
`FailedConstructor` for those of the constructors in `sync_windows.c`. A worker may exit whenever the queue lets
it, which includes a failed wait, so exits are unconstrained. A native join may
fail at any time. The calls can be repeated without end: a destroyed scheduler may be
initialised again. The fault plan strikes at its one-based occurrence of an armed
point; `OccurrenceMax` stands for `UINT64_MAX`, and the history variable `visits` is
capped just above it. Submissions acquire nothing and are left to `Scheduler`.

## What TLC checks

| Run | Instance | Shows | States |
|---|---|---|---|
| `task_queue` | 3 tasks, capacities 0..3 | types, ring consistency, implements `BoundedFifo` | 659 |
| `concurrent_queue` | 3 threads that make any call, capacity 2, 2 tasks, transition signaling, failing waits | exact waiter counts, no lost wakeup, high-water mark, implements `ClosableQueue` | 165,524 |
| `queue_live` | 2 producers (one may shut down), 2 consumers, capacity 1 | blocked calls return (the fairness of `ClosableQueue`) | 27,460 |
| `scheduler` | 2 workers, capacity 1, 1 submitter, submitting callbacks, 3 submissions, faults in start, creation and injected joins | accounting up to and beyond saturation, gate, each task in one place, drain, destructible after a failed start | 1,019,898 |
| `faults` | 2 workers, all faults, 2 submissions, 2 failed joins | each task in one place, no worker outlives join, accounts balance or are marked, worker counts bounded, implements `TaskPool` (lossy) | 685,951 |
| `live` | 1 worker, callbacks that block in submit, 3 submissions, faults in creation, waits and native joins | lifecycle calls return although the only worker is blocked on the queue it drains | 216,553 |
| `run_tasks` | 2 workers, `try_submit` callbacks, 2 submissions, faults in start, creation and injected joins | accepted tasks run; implements `TaskPool` (not lossy); lifecycle calls return: workers ready in any order, a creation that fails beside a worker already waiting | 91,302 |
| `snapshot` | 2 workers, 1 submission, faults in start, creation and injected joins | structural validation is sound, snapshots at rest are exact, no callback lost or counted twice | 821,091 |
| `resources` | 3 workers, any acquisition and join failing, any fault plan with occurrence up to 4 | nothing leaked or freed twice, nothing freed in use, the state tells what is owned, a fault strikes once | 5,590 |
| `undrained`, `failed_start`, `live_validation` | smallest instance of each | the three divergences below | |

**Bounds.** Capacity 1 makes full and empty the usual case, so every submission
that overlaps another blocks, and capacity 2 adds partly filled queues. Three
threads are the smallest number with a sleeper, a woken thread and one that
overtakes it; the fourth in `queue_live` gives each condition two sleepers. Two
workers let one fail while the other runs, one join fail while another succeeds,
and start stop halfway. Three submissions fill one worker and the slot and leave
one blocked. `MaxSubmissions` and `MaxJoinFailures` only cut off repetition: a
submission over the bound does not occur, a join over it does not fail.
`CounterMax` is 2 or 1 in `scheduler`, `faults` and `snapshot`, so that submissions or
failed joins pass the limit, and out of reach in the other runs. In `snapshot` only the
counter of join failures overflows (two tasks on two workers are too many states there);
`faults` has the saturation of the task counters and of their sums, and the theorems on
snapshots have both. With a limit of 1 a task counted twice saturates to the right number
there, but it also raises the overflow flag although every count fits, and
`NoCallbackLostOrCountedTwice` forbids that too, so a double count shows. Three workers in `resources`
let the middle handle be kept or lost alone, and `OccurrenceMax` 4 is more than the
visits of one successful start and join, so that plans also strike in a retry or a
later one, or never. Where the
theorems below apply the bounds do not matter.

**Deadlock** is checked in every run: in the queue some thread can always call, and
in the scheduler a lifecycle call can always be repeated, even after destroy.

**Fairness.** `LiveSpec` of the queue assumes only that a woken thread eventually
gets the mutex and goes on; `LiveSpec` of the scheduler that a thread in the middle
of a call or a worker iteration goes on, and that callbacks return. The operating
system's scheduler gives this. Nothing is assumed about calls being made, about
spurious wakeups, or about faults. The documents promise no fairness among
waiters, and `ClosableQueue!Fairness` asks only that *some* pending call proceeds
until shutdown, after which all do.

`AcceptedTasksRun` is checked for callbacks that use `scheduler_try_submit`. With
blocking `scheduler_submit` in the callbacks it does not hold, by design: when all
workers block on a full queue nothing moves until somebody calls `shutdown`.
`LifecycleCallsReturn` shows that this call then does return and resolves it.

## Where documents and code disagree

1. **Live validation** (`live_validation`). `src/docs/reliability-report.md:37-44`
   lists bounds that "remain valid across a hybrid capture window". Two do not. A
   submission is counted as accepted when it deregisters (498), after a worker may
   have dequeued the task; and the capture copies `accepted` first, and the starts
   before the outcomes. A healthy scheduler can be reported FAILED.
2. **Drain** (`undrained`). `src/docs/threading-architecture.md:206-208` says that
   shutdown and join drain accepted tasks before destruction. A worker whose wait
   fails closes the queue and exits (279-285); if it was the last one, join returns
   an error but publishes STOPPED, and destroy discards what is queued. Without a
   failing wait the property holds (`scheduler`).
3. **Failed start** (`failed_start`). `scheduler.h:82` says that a failed start
   leaves the scheduler safely destructible. If the join of a worker that was
   created fails as well, the arrays are kept (355) and destroy answers
   INVALID_STATE until `scheduler_join` has been retried successfully.
   Without a native join failure it holds (`scheduler`).

Three more, with no run that exhibits them:

- `src/docs/threading-architecture.md:260-262` says that join "destroys worker
  synchronization, and publishes `STOPPED`". The code keeps the worker mutex and condition
  until destroy (980-984), as `src/docs/robustness-and-static-analysis.md:202` has it, and
  a capture of a STOPPED scheduler still locks that mutex (1152). `OwnedInState` states
  what the code does: in STOPPED both are still owned, and the run `resources` passes
  for that reason.
- `src/docs/architecture.md:79` says that a successful dequeue moves the Task to running;
  the code leaves the Task's state to the callback.
- `src/docs/threading-architecture.md:240-242` says that a worker locks the worker mutex to
  count the outcome of a callback; the code uses atomics of its context (287-330), which is
  why a capture sees them move.

## What TLAPS proves

For every number of threads, workers, submissions and tasks, every capacity, every
limit of the counters and every set of faults, from the assumptions named in the
modules (capacity and worker count positive, finitely many threads, NULL not a task):

**The queues**

- `TaskQueue_proofs`: `TypeCorrect`, `RingIsConsistent`, `RingImplementsFifo`. The
  inductive invariant is `TypeOK /\ RingConsistent`: consistency alone needs the
  indices in range, and the refinement needs both, since it reads the occupied
  slots only. `Slot` is written with a comparison, as the code wraps, which keeps
  the arithmetic linear.
- `ConcurrentTaskQueue_proofs`: `Invariance` of
  `IInv == TypeOK /\ WaiterCountsExact /\ NoLostWakeup /\ HighWaterBoundsOccupancy`,
  and from it `TypeCorrect`, `CountsAreExact`, `WakeupsAreNotLost` and
  `OccupancyIsBounded`. The parts depend on each other. `NoLostWakeup` bounds the
  tasks in the queue by the woken consumers; an insertion preserves it because it
  signals whenever a consumer sleeps, which with transition signaling is so because
  `waiting_consumers` counts at least the sleepers (`WaiterCountsExact`). A woken consumer
  that takes a task lowers both sides by one; one that overtakes it lowers only the
  queue. The counts stay natural numbers for the same reason.
- In the same module `QueueImplementsClosableQueue`. A pending call maps to its kind,
  whether asleep, woken or failing; going to sleep again is a stutter, and `IInv`
  supplies that the queue is never overfull. `RInv` adds that a thread can be leaving
  a failed wait only if waits may fail.

**The scheduler**, in modules that build on each other:

- `Scheduler_proofs`: `UsesQueueCorrectly` shows that every step of the scheduler is a
  step of its queue or leaves it alone, so that the queue's theorems hold inside the
  scheduler (`QueueSafeInScheduler`); and `TypeCorrect`. The invariant is
  `BaseInv == TypeOK /\ QueueInv /\ QueueUse /\ Handles /\ RunningExact`. The types alone
  are not inductive: the running count of a worker goes down, and stays natural because
  it is exact; what a worker takes out is a task because only tasks are put in. That
  the recursive sum `Aggregate` stays within the counter is induction over the workers,
  done with the least-number principle (`LeastNumber`), because the induction theorems
  of the library cannot be instantiated by the installed provers.
- `SchedulerLifecycle_proofs`: `GateClosedByShutdown`, `JoinLeavesNoWorker`,
  `WorkerCountsInBounds` and `FailedStartIsDestructible`, from `LifeInv`, which adds to
  `BaseInv` what each lifecycle state says of the gate, the arrays, the queue and the
  workers: the arrays are there while a handle is, a scheduler past SHUTTING_DOWN has no
  registered submitter, every exit is counted. `FailedStartIsDestructible` assumes
  `"native_join" \notin Faults`; `failed_start` shows the assumption is needed.
- `SchedulerTasks_proofs`: `SubmissionCountsExact`, `EveryTaskInOnePlace` and
  `DestroyedIsDrained`. `TaskStep` first sorts the steps of the scheduler by what they
  do to tasks (one thread offers, puts, answers, takes or runs one, or none is moved);
  `TasksInv` then says where each of the submitted tasks is at each stage
  (`Place`), that two threads never hold the same one, and that a STOPPED queue
  has been drained unless a wait failed. `DestroyedIsDrained` assumes
  `"wait" \notin Faults`; `undrained` shows the assumption is needed.
- In the same module `SchedulerIsTaskPool`, the refinement of `TaskPool`. The
  stage of a submission determines its status (`StatusIs`), each task in hand occupies a
  worker of its own (`WorkersBusy`, an injection, which bounds the running tasks by the
  number of workers), nothing is under way in a STOPPED pool (`StoppedAtRest`); with
  these each class of `TaskStep` is a step of the pool or a stutter.
- `SchedulerAccounts_proofs`: `AccountsBalance`, that a STOPPED scheduler satisfies
  `AccountsBalanceWhenStopped` whatever failed, and the invariant behind it,
  `AccountsInvariant`. The counters of the workers, the totals and the history are related
  at every step by sums over the workers (`Sum`, a recursive function, with its facts
  proved by the least-number principle): what a total would show if the remaining counters
  were added now (`Shown`) is the saturated number of what happened. It holds through
  `release_workers` because saturating addition commutes with that sum, and because join
  adds and clears the counters in one critical section. That the overflow flag is raised
  *exactly* when a number does not fit needs the flags of the workers in the invariant
  as well: a counter that saturated on its own raises the flag of its worker only.

**The snapshot**

- `SchedulerSnapshot_proofs`: the three invariants of `SchedulerSnapshot`, over every
  interleaving of a capture with the scheduler. `SnapshotInv` adds to `AccountsInv` what
  the fields copied so far have to do with the present state. `EverySnapshotSound` rests
  on the parts of it that bound the copies: each bound compares fields of one
  critical section, except running against active, where the workers counted as active
  under the worker mutex cannot leave while it is held, and the `running` of a worker is
  loaded after it (`RunningSound`). `EverySnapshotCounts` rests on `OutcomesSound`: what
  the loads still to come may add (`Pending`) makes up for what the capture has not seen.
  Its other half, that the overflow flag of a snapshot is real, rests on `LoadsSound` and
  `FlagReal`: what has been loaded is never more than the totals and the counters it
  was loaded from hold, where a worker that shows a running callback has counted its
  start (`BegunCounted`); those are backed by tasks that ran or are in hand, of which
  there are no more than submissions (`TakenSubmitted`), so a sum
  that passes the limit means that some true count does.
  `RestingSnapshotsExact` rests on `RestExact`: a scheduler that was at rest when its
  lifecycle fields were copied still is, so the later copies are exact too. It assumes
  `"wait" \notin Faults` and `"native_join" \notin Faults`, as the run `snapshot` does.
  Both are needed, and TLC finds a counterexample without either: a worker that exits
  because its wait failed is not counted as joined (375), although no join failed, and a
  native join that failed and was made good by a retry stays counted as a failure.

**The resources**

- `SchedulerResources_proofs`: `NothingLeaked`, `NothingFreedUnderWorker`,
  `StateTellsOwnership` and `ArmedFaultStrikesOnce`. `Owns(h, O)` says that exactly the
  parts of the objects in O are allocated and nothing was misused. `ReleaseAllOwns`, by
  induction over the objects, shows that releasing them in an order in which each comes
  before the one that holds its pointer is clean; the unwinding orders of init, start,
  join and destroy are then instances. `ResourceInv` says what is owned at every step of
  every call: in particular that the arrays are kept exactly as long as a join has
  failed and left a handle. `PlanInv` says that the occurrence counter counts
  the visits until the fault strikes, and so reaches its trigger before its limit.

**Only model-checked.** Liveness under fairness is out of the prover's reach
(`BlockedCallsReturn`, `LifecycleCallsReturn`, `AcceptedTasksRun`); every invariant and every
refinement that a passing run checks is proved. The three divergences are
counterexamples and stay with TLC.

## Not modelled

- Profiling counters and timings (an optional build): they influence no decision.
- The `Task` type: sequential, used by neither queue nor scheduler, and its seven
  transitions and four guards are within reach of unit tests.
- Failing lock, unlock, signal and broadcast, which the backend does not produce;
  argument checks (NULL, zero sizes) and the refusal of a submission to a destroyed
  scheduler (451), which `scheduler.h` forbids the caller to make; the `SIZE_MAX` check of `scheduler_start`.
- Capturing a fault plan, which reads six atomics one by one and changes nothing; the
  plan is configured and reset between lifecycle calls
  (`src/docs/reliability-report.md:83`).
- The capacity of the issue list, which affects no verdict; formatting, result and
  issue names, version, demo program, benchmarks and analysis scripts.

## Plan

Done: `TaskQueue`, `ConcurrentTaskQueue`, `Scheduler`, `SchedulerSnapshot` and
`SchedulerResources` with their runs, the abstract specifications `BoundedFifo`,
`ClosableQueue` and `TaskPool`, and the proofs above. When the code changes, the order is
the same: first the action that models the changed critical section, then the run that
fires it, then the lemma named after that action in the `_proofs` modules. Worth adding if
the library grows a second backend: failures of lock, unlock, signal and broadcast, which
the code tests for and the Windows backend cannot produce.
