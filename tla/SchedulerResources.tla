------------------------- MODULE SchedulerResources -------------------------
(***************************************************************************)
(* The memory and system objects of a scheduler across its lifetimes:      *)
(* scheduler_init, start, shutdown, join and destroy of src/src/scheduler.c*)
(* with concurrent_task_queue_init and destroy and the constructors of     *)
(* src/src/platform/windows/sync_windows.c, every one of which may fail,   *)
(* and the fault plan of src/src/scheduler_fault_injection.c, which makes  *)
(* some of them fail in test builds.  The calls are serialized, as         *)
(* scheduler.h requires; the worker threads use what the calls acquire.    *)
(* Submissions own nothing and are left to Scheduler.                      *)
(***************************************************************************)
EXTENDS Integers, Sequences, FiniteSets, SequencesExt

CONSTANTS
    WorkerCount,    \* worker_count of scheduler_init
    OccurrenceMax   \* UINT64_MAX, for the occurrences of a fault point

ASSUME ResourcesAssumption ==
    WorkerCount \in Nat \ {0} /\ OccurrenceMax \in Nat \ {0}

Workers == 1..WorkerCount

VARIABLES
    heap,           \* what is allocated, see below
    implementation, \* scheduler->implementation # NULL
    state, worker_sync_initialized, started_worker_count,
    thread,         \* thread[w]: the operating system's view of Worker w
    call, step,     \* the call under way and how far it has come
    all_joined,     \* local of release_workers
    plan,           \* SchedulerFaultPlan
    visits, fired   \* history: visits to the armed fault point since it was
                    \* configured (capped), and how often the fault struck

vars == <<heap, implementation, state, worker_sync_initialized,
          started_worker_count, thread, call, step, all_joined, plan, visits,
          fired>>

-----------------------------------------------------------------------------
(* Objects, in the order in which init acquires them, and start: a name,   *)
(* and an index that tells the threads of the workers apart.  An object    *)
(* consists of parts that are acquired one after the other.                *)
The(name) == <<name, 0>>
Thread(w) == <<"thread", w>>
All(names) == [i \in DOMAIN names |-> The(names[i])]
ThreadObjects == {Thread(w) : w \in Workers}

InitOrder == All(<<"scheduler", "items", "queue", "mutex", "not_empty", "not_full",
                   "lifecycle_mutex", "lifecycle_condition">>)
StartOrder == All(<<"threads", "worker_contexts", "worker_mutex", "worker_condition">>)
Arrays == {The("threads"), The("worker_contexts")}

PartOrder(o) ==
    CASE o[1] \in {"mutex", "lifecycle_mutex", "worker_mutex"} -> <<"storage", "native">>
      [] o[1] = "thread" -> <<"storage", "start", "handle">>
      [] OTHER -> <<"storage">>
Parts(o) == {o} \X Range(PartOrder(o))

(* The object that holds the pointer to o; only the caller holds the       *)
(* pointer to the scheduler.                                               *)
Holder(o) == CASE o[1] = "scheduler" -> The("caller")
               [] o[1] \in {"mutex", "not_empty", "not_full"} -> The("queue")
               [] o[1] = "thread" -> The("threads")
               [] OTHER -> The("scheduler")

(* heap.live: the parts that are allocated; heap.owned: the objects whose  *)
(* pointer is not NULL; heap.misuse: has something been freed twice, or    *)
(* through a pointer that was itself in freed memory?                      *)
Acquired(h, o) ==
    [live |-> h.live \cup Parts(o), owned |-> h.owned \cup {o},
     misuse |-> h.misuse \/ o \in h.owned]

(* Freeing NULL does nothing; freeing an object loses the pointers in it. *)
Release(h, o) ==
    IF o \notin h.owned THEN h
    ELSE [live |-> h.live \ Parts(o),
          owned |-> h.owned \ ({o} \cup {x \in h.owned : Holder(x) = o}),
          misuse |-> \/ h.misuse \/ ~(Parts(o) \subseteq h.live)
                     \/ Holder(o) \notin h.owned \cup {The("caller")}]

(* Objects released one after the other. *)
ReleaseAll(h, objects) ==
    LET after[i \in 0..Len(objects)] ==
            IF i = 0 THEN h ELSE Release(after[i - 1], objects[i])
    IN  after[Len(objects)]

(* The parts of o that a constructor has when it fails to acquire the i-th. *)
Obtained(o, i) == {o} \X Range(SubSeq(PartOrder(o), 1, i - 1))

(* Mutants: a constructor that keeps what it had when a later part fails,  *)
(* arrays freed although a join failed, a synchronization that a failed    *)
(* start keeps, a fault that strikes at every later occurrence too.        *)
ConstructorLeaks(h, o) ==
    {[h EXCEPT !.live = @ \cup Obtained(o, i)] : i \in 1..Len(PartOrder(o))}

FreesAlways == TRUE

KeepsMutex == <<"worker_contexts", "threads">>

FiresFromThenOn(p, point) ==
    IF p.enabled /\ p.point = point /\ p.observed < OccurrenceMax
    THEN [p EXCEPT !.observed = @ + 1, !.triggered = p.observed + 1 >= p.trigger]
    ELSE p

(* What a constructor that fails leaves: each part acquired before the one *)
(* that failed is freed again.                                             *)
FailedConstructor(h, o) ==
    {[h EXCEPT !.live = (@ \cup Obtained(o, i)) \ Obtained(o, i)] :
        i \in 1..Len(PartOrder(o))}

-----------------------------------------------------------------------------
(* The fault plan. *)
FaultPoints == {"NONE", "ALLOCATION", "WORKER_CREATION", "WORKER_STARTUP", "WORKER_JOIN"}
scheduler_fault_point_supported(point) ==
    point \in {"ALLOCATION", "WORKER_CREATION", "WORKER_JOIN"}

NoPlan == [point |-> "NONE", trigger |-> 0, observed |-> 0, enabled |-> FALSE,
           triggered |-> FALSE, occurrence_overflow |-> FALSE]

scheduler_fault_plan_configure(point, occurrence) ==
    [NoPlan EXCEPT !.point = point, !.trigger = occurrence, !.enabled = TRUE]
scheduler_fault_plan_reset == NoPlan

Armed(p, point) == p.enabled /\ p.point = point

(* The plan after a visit to point. *)
scheduler_fault_should_trigger(p, point) ==
    IF ~Armed(p, point) \/ p.triggered THEN p
    ELSE IF p.observed = OccurrenceMax THEN [p EXCEPT !.occurrence_overflow = TRUE]
    ELSE [p EXCEPT !.observed = @ + 1, !.triggered = p.observed + 1 = p.trigger]

(* Does the visit make the call fail? *)
Strikes(point) ==
    /\ scheduler_fault_should_trigger(plan, point).triggered
    /\ scheduler_fault_should_trigger(plan, point) # plan

Visit(point) ==
    /\ plan' = scheduler_fault_should_trigger(plan, point)
    /\ visits' = IF Armed(plan, point) /\ visits <= OccurrenceMax
                 THEN visits + 1 ELSE visits
    /\ fired' = IF Strikes(point) THEN fired + 1 ELSE fired

NoVisit == UNCHANGED <<plan, visits, fired>>

Quiet == call = "none"

(* Accepted only before start; an unsupported point or occurrence zero is  *)
(* refused and leaves the plan alone.                                      *)
scheduler_fault_configure(point, occurrence) ==
    /\ Quiet /\ implementation /\ state = "INITIALIZED"
    /\ scheduler_fault_point_supported(point) /\ occurrence # 0
    /\ plan' = scheduler_fault_plan_configure(point, occurrence)
    /\ visits' = 0 /\ fired' = 0
    /\ UNCHANGED <<heap, implementation, state, worker_sync_initialized,
                   started_worker_count, thread, call, step, all_joined>>

scheduler_fault_reset ==
    /\ Quiet /\ implementation
    /\ plan' = scheduler_fault_plan_reset /\ visits' = 0 /\ fired' = 0
    /\ UNCHANGED <<heap, implementation, state, worker_sync_initialized,
                   started_worker_count, thread, call, step, all_joined>>

-----------------------------------------------------------------------------
Init ==
    /\ heap = [live |-> {}, owned |-> {}, misuse |-> FALSE]
    /\ implementation = FALSE /\ state = "INITIALIZED"
    /\ worker_sync_initialized = FALSE /\ started_worker_count = 0
    /\ thread = [w \in Workers |-> "none"]
    /\ call = "none" /\ step = 1 /\ all_joined = TRUE
    /\ plan = NoPlan /\ visits = 0 /\ fired = 0

Enter(c) == Quiet /\ call' = c /\ step' = 1
Return == call' = "none" /\ step' = 1
Continue == UNCHANGED call /\ step' = step + 1

(* scheduler_init, which calls concurrent_task_queue_init: on a failure    *)
(* the n - 1 objects acquired before are released, latest first.           *)
InitBegins ==
    /\ ~implementation /\ Enter("init")
    /\ NoVisit
    /\ UNCHANGED <<heap, implementation, state, worker_sync_initialized,
                   started_worker_count, thread, all_joined>>

Unwinding(n) == Reverse(SubSeq(InitOrder, 1, n - 1))

InitAcquires ==
    /\ call = "init" /\ step <= Len(InitOrder)
    /\ \/ /\ heap' = Acquired(heap, InitOrder[step])
          /\ Continue
       \/ /\ \E h \in FailedConstructor(heap, InitOrder[step]) :
                 heap' = ReleaseAll(h, Unwinding(step))
          /\ Return
    /\ NoVisit
    /\ UNCHANGED <<implementation, state, worker_sync_initialized,
                   started_worker_count, thread, all_joined>>

InitPublishes ==
    /\ call = "init" /\ step > Len(InitOrder)
    /\ implementation' = TRUE /\ state' = "INITIALIZED"
    /\ worker_sync_initialized' = FALSE /\ started_worker_count' = 0
    /\ thread' = [w \in Workers |-> "none"]
    /\ plan' = NoPlan /\ visits' = 0 /\ fired' = 0
    /\ Return
    /\ UNCHANGED <<heap, all_joined>>

(* scheduler_start.  Both arrays are tried before either is looked at. *)
StartBegins ==
    /\ implementation /\ state = "INITIALIZED" /\ Enter("start")
    /\ state' = "STARTING"
    /\ NoVisit
    /\ UNCHANGED <<heap, implementation, worker_sync_initialized,
                   started_worker_count, thread, all_joined>>

StartAllocates ==
    /\ call = "start" /\ step \in {1, 2}
    /\ Visit("ALLOCATION")
    /\ \/ ~Strikes("ALLOCATION") /\ heap' = Acquired(heap, StartOrder[step])
       \/ UNCHANGED heap
    /\ Continue
    /\ UNCHANGED <<implementation, state, worker_sync_initialized,
                   started_worker_count, thread, all_joined>>

(* What start releases when the condition of the workers cannot be made. *)
StartUnwinding == <<"worker_mutex", "worker_contexts", "threads">>

StartGivesUp(h, names) ==
    /\ heap' = ReleaseAll(h, All(names))
    /\ state' = "INITIALIZED"
    /\ Return
    /\ UNCHANGED worker_sync_initialized

StartSynchronizes ==
    /\ call = "start"
    /\ \/ /\ step = 3 /\ ~(Arrays \subseteq heap.owned)
          /\ StartGivesUp(heap, <<"worker_contexts", "threads">>)
       \/ /\ step = 3 /\ Arrays \subseteq heap.owned
          /\ \/ /\ heap' = Acquired(heap, StartOrder[step])
                /\ Continue
                /\ UNCHANGED <<state, worker_sync_initialized>>
             \/ \E h \in FailedConstructor(heap, StartOrder[step]) :
                    StartGivesUp(h, <<"worker_contexts", "threads">>)
       \/ /\ step = 4
          /\ \/ /\ heap' = Acquired(heap, StartOrder[step])
                /\ worker_sync_initialized' = TRUE
                /\ Continue
                /\ UNCHANGED state
             \/ \E h \in FailedConstructor(heap, StartOrder[step]) :
                    StartGivesUp(h, StartUnwinding)
    /\ NoVisit
    /\ UNCHANGED <<implementation, started_worker_count, thread, all_joined>>

(* release_workers begins: in place of the rest of start, or in join. *)
BeginRelease(c) == call' = c /\ step' = 1 /\ all_joined' = TRUE

StartCreates ==
    LET w == started_worker_count + 1 IN
    /\ call = "start" /\ step > Len(StartOrder) /\ w <= WorkerCount
    /\ Visit("WORKER_CREATION")
    /\ \/ /\ ~Strikes("WORKER_CREATION")
          /\ heap' = Acquired(heap, Thread(w))
          /\ thread' = [thread EXCEPT ![w] = "running"]
          /\ started_worker_count' = w
          /\ UNCHANGED <<call, step, all_joined>>
       \/ /\ heap' \in FailedConstructor(heap, Thread(w))
          /\ BeginRelease("start_release")
          /\ UNCHANGED <<thread, started_worker_count>>
    /\ UNCHANGED <<implementation, state, worker_sync_initialized>>

(* The wait for the workers may fail. *)
StartFinishes ==
    /\ call = "start" /\ started_worker_count = WorkerCount
    /\ \/ state' = "RUNNING" /\ Return /\ UNCHANGED all_joined
       \/ BeginRelease("start_release") /\ UNCHANGED state
    /\ NoVisit
    /\ UNCHANGED <<heap, implementation, worker_sync_initialized,
                   started_worker_count, thread>>

(* A worker leaves when it finds the queue shut down, or when its wait for *)
(* a task fails.                                                           *)
WorkerExits(w) ==
    /\ thread[w] = "running"
    /\ thread' = [thread EXCEPT ![w] = "exited"]
    /\ UNCHANGED <<heap, implementation, state, worker_sync_initialized,
                   started_worker_count, call, step, all_joined, plan, visits,
                   fired>>

scheduler_shutdown ==
    /\ Quiet /\ implementation /\ state = "RUNNING"
    /\ state' = "SHUTTING_DOWN"
    /\ UNCHANGED <<heap, implementation, worker_sync_initialized,
                   started_worker_count, thread, call, step, all_joined, plan,
                   visits, fired>>

JoinBegins ==
    /\ Quiet /\ implementation /\ state \in {"SHUTTING_DOWN", "FAILED"}
    /\ BeginRelease("join_release")
    /\ NoVisit
    /\ UNCHANGED <<heap, implementation, state, worker_sync_initialized,
                   started_worker_count, thread>>

(* sched_thread_join: the wait for the thread may fail at any time, and    *)
(* succeeds only when the thread has exited.                               *)
JoinSucceeds(w) == thread[w] = "exited"

(* release_workers, one worker: a handle is kept if and only if its join   *)
(* failed, so that a later call tries again.                               *)
ReleaseWorker ==
    /\ call \in {"start_release", "join_release"} /\ step <= started_worker_count
    /\ \/ /\ Thread(step) \notin heap.owned
          /\ NoVisit /\ UNCHANGED <<heap, all_joined>>
       \/ /\ Thread(step) \in heap.owned
          /\ all_joined' = FALSE
          /\ NoVisit /\ UNCHANGED heap
       \/ /\ Thread(step) \in heap.owned /\ JoinSucceeds(step)
          /\ Visit("WORKER_JOIN")
          /\ heap' = Release(heap, Thread(step))
          /\ UNCHANGED all_joined
    /\ Continue
    /\ UNCHANGED <<implementation, state, worker_sync_initialized,
                   started_worker_count, thread>>

MayFree == all_joined

FreeArrays ==
    \/ /\ MayFree
       /\ heap' = ReleaseAll(heap, All(<<"worker_contexts", "threads">>))
       /\ started_worker_count' = 0
    \/ /\ ~MayFree
       /\ UNCHANGED <<heap, started_worker_count>>

ReleaseFinishes ==
    /\ call \in {"start_release", "join_release"} /\ step > started_worker_count
    /\ FreeArrays
    /\ state' = IF call = "join_release" /\ The("threads") \notin heap'.owned
                THEN "STOPPED" ELSE "FAILED"
    /\ Return
    /\ NoVisit
    /\ UNCHANGED <<implementation, worker_sync_initialized, thread, all_joined>>

(* scheduler_destroy refuses while arrays are left. *)
WorkerSyncReleased ==
    IF worker_sync_initialized
    THEN ReleaseAll(heap, All(<<"worker_condition", "worker_mutex">>)) ELSE heap

DestroyOrder == <<"lifecycle_condition", "lifecycle_mutex", "not_full", "not_empty",
                  "mutex", "queue", "items", "scheduler">>

scheduler_destroy ==
    /\ Quiet /\ implementation
    /\ state \in {"INITIALIZED", "STOPPED", "FAILED"}
    /\ Arrays \cap heap.owned = {}
    /\ heap' = ReleaseAll(WorkerSyncReleased, All(DestroyOrder))
    /\ implementation' = FALSE /\ worker_sync_initialized' = FALSE
    /\ plan' = NoPlan /\ visits' = 0 /\ fired' = 0
    /\ UNCHANGED <<state, started_worker_count, thread, call, step, all_joined>>

Next ==
    \/ InitBegins \/ InitAcquires \/ InitPublishes
    \/ StartBegins \/ StartAllocates \/ StartSynchronizes \/ StartCreates
    \/ StartFinishes
    \/ scheduler_shutdown \/ JoinBegins \/ ReleaseWorker \/ ReleaseFinishes
    \/ scheduler_destroy
    \/ \E point \in FaultPoints, occurrence \in 0..OccurrenceMax :
           scheduler_fault_configure(point, occurrence)
    \/ scheduler_fault_reset
    \/ \E w \in Workers : WorkerExits(w)

Spec == Init /\ [][Next]_vars

-----------------------------------------------------------------------------
(* Nothing is leaked and nothing freed twice: at every step of every call, *)
(* along every path of failures and retries, what is allocated is what     *)
(* some pointer still reaches.                                             *)
OwnershipExact ==
    /\ ~heap.misuse
    /\ heap.live = UNION {Parts(o) : o \in heap.owned}

(* A running worker uses its start block and context, the queue and its    *)
(* synchronization, the worker mutex and condition.  None of it is freed   *)
(* while it runs, even if it could not be joined.                          *)
UsedBy(w) ==
    {Thread(w)} \cup
    {The(name) : name \in {"worker_contexts", "worker_mutex", "worker_condition",
                           "scheduler", "items", "queue", "mutex", "not_empty",
                           "not_full"}}
NothingFreedInUse ==
    \A w \in Workers : thread[w] = "running" => UsedBy(w) \subseteq heap.owned

(* Between calls the state tells what the scheduler owns: a start that     *)
(* fails for want of memory leaves what init left, so that it can be       *)
(* repeated; FAILED keeps the handles that could not be joined, and the    *)
(* arrays for their sake; after STOPPED only what destroy frees is left,   *)
(* the worker mutex and condition included (a capture still locks that     *)
(* mutex), and after destroy, or a failed init, nothing.                   *)
OwnedInState ==
    LET handles == ThreadObjects \cap heap.owned
        core == Range(InitOrder)
        sync == {The("worker_mutex"), The("worker_condition")}
    IN  Quiet => heap.owned =
            IF ~implementation THEN {}
            ELSE CASE state = "INITIALIZED" -> core
                   [] state \in {"RUNNING", "SHUTTING_DOWN"} ->
                          core \cup sync \cup Arrays \cup ThreadObjects
                   [] state = "FAILED" ->
                          core \cup sync \cup handles
                               \cup (IF handles = {} THEN {} ELSE Arrays)
                   [] state = "STOPPED" -> core \cup sync

(* An armed fault strikes exactly once, at its one-based occurrence,       *)
(* however many calls, failed starts and retried joins that takes, and its *)
(* occurrence counter never overflows.                                     *)
FaultStrikesOnce ==
    plan.enabled =>
        /\ fired = IF visits >= plan.trigger THEN 1 ELSE 0
        /\ plan.triggered <=> fired = 1
        /\ ~plan.occurrence_overflow
=============================================================================
