------------------------- MODULE SchedulerSnapshot -------------------------
(***************************************************************************)
(* scheduler_capture_snapshot of src/src/scheduler.c, run by a diagnostic  *)
(* thread beside the scheduler, and the validation of what it captured by  *)
(* src/src/scheduler_validation.c.  The capture copies the lifecycle       *)
(* fields under the lifecycle mutex, then the worker fields and, one       *)
(* atomic load at a time, the counters of each worker under the worker     *)
(* mutex, then the queue fields under the queue mutex.  Workers update     *)
(* their counters without taking the worker mutex.                         *)
(***************************************************************************)
EXTENDS Scheduler

VARIABLES
    opc,        \* where the diagnostic thread stands in the capture
    scan,       \* the worker whose counters are being loaded
    snapshot,   \* what has been captured so far, by field
    before      \* history: the callbacks that had returned when it began

snapshotVars == <<opc, scan, snapshot, before>>

(* The order in which capture loads the atomics of one worker. *)
LoadOrder == <<"dequeued", "started", "succeeded", "failed", "running",
               "accounting_overflow">>
Blank == [f \in {} |-> 0]

Outcomes == {"succeeded", "failed"}

ObserverInit ==
    /\ opc = "idle" /\ scan = 1 /\ snapshot = Blank
    /\ before = [c \in Outcomes |-> 0]

Capture(fields) ==
    snapshot' = [f \in DOMAIN snapshot \cup DOMAIN fields |->
                    IF f \in DOMAIN fields THEN fields[f] ELSE snapshot[f]]

snapshot_state_from_internal ==
    IF state \in {"INITIALIZED", "STARTING", "RUNNING", "SHUTTING_DOWN", "STOPPED"}
    THEN state ELSE "FAILED"

CaptureLifecycle ==
    /\ opc = "idle" /\ implementation
    /\ Capture([state |-> snapshot_state_from_internal,
                submissions_open |-> state = "RUNNING",
                shutdown_started |-> state \in {"SHUTTING_DOWN", "STOPPED"},
                submitted |-> submitted_count,
                accepted |-> accepted_count,
                rejected |-> rejected_count,
                overflow_detected |-> lifecycle_accounting_overflow])
    /\ before' = [c \in Outcomes |-> tally[c]]
    /\ opc' = IF worker_sync_initialized THEN "worker" ELSE "no_worker"
    /\ UNCHANGED scan

WorkerFields ==
    [created |-> created_worker_count, ready |-> ready_worker_count,
     active |-> active_worker_count, joined |-> joined_worker_count,
     startup_failures |-> worker_startup_failure_count,
     runtime_failures |-> worker_runtime_failure_count,
     join_failures |-> join_failure_count,
     overflow_detected |-> snapshot.overflow_detected \/ worker_accounting_overflow]

(* From here to the last load the worker mutex is held. *)
CaptureWorker ==
    /\ opc = "worker"
    /\ Capture([f \in DOMAIN WorkerFields \cup Counters |->
                   IF f \in Counters THEN total[f] ELSE WorkerFields[f]])
    /\ scan' = 1
    /\ opc' = IF started_worker_count = 0 THEN "queue" ELSE LoadOrder[1]
    /\ UNCHANGED before

(* What one load adds to the snapshot. *)
Loaded(c) ==
    IF c \in Counters
    THEN [f \in {c, "overflow_detected"} |->
             IF f = c THEN add_saturating(snapshot[c], context[scan][c])
             ELSE \/ snapshot.overflow_detected
                  \/ SumOverflows(snapshot[c], context[scan][c])]
    ELSE [overflow_detected |-> snapshot.overflow_detected \/ accounting_overflow[scan]]

LoadCounter ==
    \E i \in 1..Len(LoadOrder) :
        /\ opc = LoadOrder[i]
        /\ Capture(Loaded(opc))
        /\ \/ i < Len(LoadOrder) /\ opc' = LoadOrder[i + 1] /\ UNCHANGED scan
           \/ /\ i = Len(LoadOrder) /\ scan < started_worker_count
              /\ opc' = LoadOrder[1] /\ scan' = scan + 1
           \/ /\ i = Len(LoadOrder) /\ scan = started_worker_count
              /\ opc' = "queue" /\ scan' = 1
        /\ UNCHANGED before

(* Without worker synchronization the worker fields stay zero. *)
SkipWorker ==
    /\ opc = "no_worker"
    /\ Capture([f \in (DOMAIN WorkerFields \cup Counters) \ {"overflow_detected"} |-> 0])
    /\ opc' = "queue"
    /\ UNCHANGED <<scan, before>>

CaptureQueue ==
    /\ opc = "queue"
    /\ Capture([size |-> Len(queue), high_water |-> high_water_mark])
    /\ opc' = "captured"
    /\ UNCHANGED <<scan, before>>

Discard ==
    /\ opc = "captured"
    /\ opc' = "idle" /\ snapshot' = Blank
    /\ before' = [c \in Outcomes |-> 0]
    /\ UNCHANGED scan

scheduler_capture_snapshot ==
    /\ \/ CaptureLifecycle \/ CaptureWorker \/ LoadCounter \/ SkipWorker
       \/ CaptureQueue \/ Discard
    /\ UNCHANGED vars

(* A mutant: the counters are loaded after the worker mutex is released. *)
WorkerMutexReleasedEarly == FALSE

(* While the diagnostic thread holds the worker mutex no other thread has  *)
(* a critical section of that mutex; while it is capturing, destroy (which *)
(* may not race with it) does not run.  Validating a captured snapshot     *)
(* reads nothing shared, so no other step need come before it is over.     *)
HoldsWorkerMutex == \E i \in 1..Len(LoadOrder) : opc = LoadOrder[i]

(* What the worker mutex guards.  The handles are not among it: the thread *)
(* that joins clears them without a lock.                                  *)
guardedVars == <<allocated, worker_sync_initialized, started_worker_count,
                 created_worker_count, ready_worker_count, active_worker_count,
                 joined_worker_count, total, failureVars>>

(* A failure is counted under the mutex even if its counter is at the limit. *)
UsesWorkerMutex ==
    \/ guardedVars' # guardedVars
    \/ \E c \in {"startup_failures", "runtime_failures", "join_failures"} :
           tally'[c] # tally[c]
    \/ pc[Main] = "start_wait" /\ pc' # pc

(* A lifecycle call that is refused changes nothing a capture can see. *)
RefusedCall == implementation /\ returned' # returned /\ UNCHANGED <<pc, implementation>>

SchedulerStep ==
    /\ opc # "captured"
    /\ Next
    /\ ~RefusedCall
    /\ ~(HoldsWorkerMutex /\ UsesWorkerMutex)
    /\ opc # "idle" => UNCHANGED implementation
    /\ UNCHANGED snapshotVars

ObservedNext == SchedulerStep \/ scheduler_capture_snapshot
ObservedSpec ==
    /\ Init /\ ObserverInit
    /\ [][ObservedNext]_<<vars, snapshotVars>>

-----------------------------------------------------------------------------
(* scheduler_validation.c: the issues that a snapshot raises. *)
Raised(checks) == {issue \in DOMAIN checks : checks[issue]}

lifecycle_flags_valid(s) ==
    CASE s.state \in {"INITIALIZED", "STARTING", "FAILED"} ->
             ~s.submissions_open /\ ~s.shutdown_started
      [] s.state = "RUNNING" -> s.submissions_open /\ ~s.shutdown_started
      [] s.state \in {"SHUTTING_DOWN", "STOPPED"} ->
             ~s.submissions_open /\ s.shutdown_started

validate_structural(s) == Raised(
    [QUEUE_SIZE_EXCEEDS_CAPACITY |-> s.size > Capacity,
     QUEUE_HIGH_WATER_EXCEEDS_CAPACITY |-> s.high_water > Capacity,
     QUEUE_SIZE_EXCEEDS_HIGH_WATER |-> s.size > s.high_water,
     CREATED_EXCEEDS_CONFIGURED |-> s.created > WorkerCount,
     READY_EXCEEDS_CREATED |-> s.ready > s.created,
     ACTIVE_EXCEEDS_CREATED |-> s.active > s.created,
     JOINED_EXCEEDS_CREATED |-> s.joined > s.created,
     ACTIVE_JOINED_EXCEED_CREATED |->
         s.active > s.created - (IF s.joined > s.created THEN s.created ELSE s.joined),
     RUNNING_EXCEEDS_ACTIVE |-> s.running > s.active,
     STARTUP_FAILURES_EXCEED_CONFIGURED |-> s.startup_failures > WorkerCount,
     LIFECYCLE_FLAGS_INVALID |-> ~lifecycle_flags_valid(s)])

validate_accounting_bounds(s) == Raised(
    [CALLBACK_OUTCOMES_EXCEED_STARTS |-> s.succeeded + s.failed > s.started,
     ACCEPTED_EXCEEDS_SUBMITTED |-> s.accepted > s.submitted,
     REJECTED_EXCEEDS_SUBMITTED |-> s.rejected > s.submitted,
     DEQUEUED_EXCEEDS_ACCEPTED |-> s.dequeued > s.accepted,
     CALLBACK_STARTS_EXCEED_DEQUEUED |-> s.started > s.dequeued])

quiescent_mode_applicable(s) ==
    \/ s.state \in {"INITIALIZED", "STOPPED"}
    \/ /\ s.state = "FAILED" /\ ~s.submissions_open
       /\ s.running = 0 /\ s.active = 0 /\ s.size = 0

validate_quiescent(s) == Raised(
    [SUBMISSION_BALANCE_MISMATCH |-> s.submitted # s.accepted + s.rejected,
     ACCEPTED_DEQUEUED_MISMATCH |-> s.accepted # s.dequeued,
     DEQUEUED_CALLBACK_MISMATCH |-> s.dequeued # s.started,
     CALLBACK_BALANCE_MISMATCH |-> s.started # s.succeeded + s.failed,
     QUIESCENT_QUEUE_NOT_EMPTY |-> s.size # 0,
     QUIESCENT_CALLBACK_RUNNING |-> s.running # 0,
     QUIESCENT_WORKER_ACTIVE |-> s.active # 0,
     STOPPED_WORKERS_NOT_JOINED |-> s.state = "STOPPED" /\ s.joined # s.created])

(* A mutant: balances are held against counters that overflowed. *)
ValidatesDespiteOverflow(s, mode) ==
    [violations |-> validate_structural(s) \cup validate_accounting_bounds(s)
        \cup (IF mode = "QUIESCENT" THEN validate_quiescent(s) ELSE {}),
     incomplete |-> s.overflow_detected]

(* scheduler_snapshot_validate.  A snapshot whose counters overflowed is   *)
(* not accused of what saturation alone explains, and one that may not be  *)
(* quiescent is not held to the quiescent balances: the validation is then *)
(* incomplete.                                                             *)
scheduler_snapshot_validate(s, mode) ==
    LET applicable == quiescent_mode_applicable(s) IN
    [violations |-> validate_structural(s)
        \cup (IF s.overflow_detected THEN {} ELSE validate_accounting_bounds(s))
        \cup (IF mode = "QUIESCENT" /\ applicable /\ ~s.overflow_detected
              THEN validate_quiescent(s) ELSE {}),
     incomplete |-> s.overflow_detected \/ (mode = "QUIESCENT" /\ ~applicable)]

scheduler_snapshot_derive_health(s, validation) ==
    IF s.state = "FAILED" \/ validation.violations # {} THEN "FAILED"
    ELSE CASE s.state = "SHUTTING_DOWN" -> "STOPPING"
           [] s.state = "STOPPED" -> "STOPPED"
           [] OTHER ->
                  IF \/ validation.incomplete \/ s.failed # 0
                     \/ s.startup_failures # 0 \/ s.runtime_failures # 0
                     \/ s.join_failures # 0
                  THEN "DEGRADED" ELSE "HEALTHY"

(* The older yes-or-no validators of scheduler.c, which do not look at     *)
(* overflow_detected.                                                      *)
scheduler_snapshot_validate_basic(s) ==
    /\ s.size <= Capacity /\ s.high_water <= Capacity /\ s.size <= s.high_water
    /\ s.created <= WorkerCount
    /\ s.ready <= s.created /\ s.active <= s.created /\ s.joined <= s.created
    /\ s.running <= s.active
    /\ s.accepted <= s.submitted /\ s.rejected <= s.submitted
    /\ s.started <= s.dequeued
    /\ s.succeeded <= s.started /\ s.failed <= s.started - s.succeeded

scheduler_snapshot_validate_quiescent(s) ==
    /\ scheduler_snapshot_validate_basic(s)
    /\ s.submitted - s.accepted = s.rejected
    /\ s.accepted = s.dequeued /\ s.dequeued = s.started
    /\ s.started - s.succeeded = s.failed
    /\ s.running = 0 /\ s.size = 0 /\ s.active = 0
    /\ s.state = "STOPPED" => s.joined = s.created

-----------------------------------------------------------------------------
(* The structural bounds hold of every snapshot, although its parts were   *)
(* copied at different times and workers come, run and go in between: the  *)
(* fields each bound compares were copied in one critical section.         *)
SnapshotStructureSound == opc = "captured" => validate_structural(snapshot) = {}

(* Has some counter more to show than it can? *)
SomeCountTooLarge ==
    \/ \E c \in Tallied : tally[c] > CounterMax
    \/ Cardinality({k \in Tasks : executed[k] > 0}) > CounterMax

(* A snapshot of a scheduler at rest, STOPPED, FAILED by its start, or not *)
(* yet started, balances exactly: nothing it copies later still moves.     *)
(* The one complaint is of a STOPPED scheduler one of whose joins was      *)
(* rejected.  A snapshot that overflowed is reported as incomplete rather  *)
(* than as corrupt (docs/reliability-report.md), and only a count that     *)
(* really does not fit makes one: what is reported complete can be         *)
(* trusted to be exact.  Both sets of validators agree on it.              *)
RestingSnapshotExact ==
    LET validation == scheduler_snapshot_validate(snapshot, "QUIESCENT")
        health == scheduler_snapshot_derive_health(snapshot, validation)
        unjoined == snapshot.state = "STOPPED" /\ tally["join_failures"] > 0
    IN
    /\ opc = "captured"
    /\ \/ snapshot.state \in {"STOPPED", "FAILED"}
       \/ snapshot.state = "INITIALIZED" /\ state = "INITIALIZED"
    =>
        /\ validation.incomplete = snapshot.overflow_detected
        /\ snapshot.overflow_detected =>
               /\ SomeCountTooLarge /\ validation.violations = {}
               /\ snapshot.state = "INITIALIZED" => health = "DEGRADED"
        /\ ~snapshot.overflow_detected =>
               /\ validation.violations =
                      IF unjoined THEN {"STOPPED_WORKERS_NOT_JOINED"} ELSE {}
               /\ scheduler_snapshot_validate_quiescent(snapshot) <=> ~unjoined
               /\ health = CASE snapshot.state = "INITIALIZED" -> "HEALTHY"
                            [] snapshot.state = "FAILED" \/ unjoined -> "FAILED"
                            [] OTHER -> "STOPPED"

(* A snapshot neither loses nor counts twice a callback that returned: its *)
(* counts lie between the true ones when the capture began and when it     *)
(* ended, although join moves the counters of the workers into the totals  *)
(* and clears them while captures come and go.  Nor does a second count    *)
(* hide behind the limit of the counters: a snapshot is marked as          *)
(* overflowed only if some count really has become too large.              *)
NoCallbackLostOrCountedTwice ==
    opc = "captured" =>
        /\ \A c \in Outcomes : /\ Saturated(before[c]) <= snapshot[c]
                               /\ snapshot[c] <= Saturated(tally[c])
        /\ snapshot.overflow_detected => SomeCountTooLarge

(* The accounting bounds hold of every snapshot, as the comment on live    *)
(* validation in docs/reliability-report.md says.                          *)
LiveAccountingSound == opc = "captured" =>
    scheduler_snapshot_validate(snapshot, "LIVE").violations = {}
=============================================================================
