---------------------- MODULE SchedulerSnapshot_proofs ----------------------
(***************************************************************************)
(* Proofs about scheduler_capture_snapshot (src/src/scheduler.c), which    *)
(* runs beside the scheduler, and the validation of what it captured       *)
(* (src/src/scheduler_validation.c).                                       *)
(*                                                                         *)
(* The invariant SnapshotInv says at each point of a capture what the      *)
(* fields copied so far have to do with the present state, which has moved *)
(* on: bounds that were true under the mutex stay true of the copies, and  *)
(* what a counter may still add makes up for what the capture missed.      *)
(***************************************************************************)
EXTENDS SchedulerSnapshot, SchedulerAccounts_proofs

(* The labels of the loads; the fields that each critical section copies. *)
LoadLabels == Counters \cup {"accounting_overflow"}
LifecycleNames == {"state", "submissions_open", "shutdown_started", "submitted",
                   "accepted", "rejected", "overflow_detected"}
WorkerNames == {"created", "ready", "active", "joined", "startup_failures",
                "runtime_failures", "join_failures", "overflow_detected"} \cup Counters
Copied == opc \in {"queue", "captured"}

(* Where the capture stands, and which fields it has filled by then. *)
Standing ==
    /\ opc \in {"idle", "worker", "no_worker", "queue", "captured"} \cup LoadLabels
    /\ opc # "idle" => /\ implementation
                       /\ LifecycleNames \subseteq DOMAIN snapshot
                       /\ snapshot.overflow_detected \in BOOLEAN
    /\ opc \in LoadLabels \/ Copied =>
           /\ WorkerNames \subseteq DOMAIN snapshot
           /\ \A c \in Counters : snapshot[c] \in 0..CounterMax
    /\ opc \in LoadLabels => scan \in 1..started_worker_count
    /\ opc = "captured" => {"size", "high_water"} \subseteq DOMAIN snapshot

(* The bounds on what each critical section copied. *)
FlagsSound == opc # "idle" => lifecycle_flags_valid(snapshot) /\ snapshot.state \in LifecycleStates
WorkersSound ==
    opc \in LoadLabels \/ Copied =>
        /\ {snapshot.created, snapshot.ready, snapshot.active, snapshot.joined} \subseteq Nat
        /\ snapshot.created <= WorkerCount /\ snapshot.ready <= snapshot.created
        /\ snapshot.active + snapshot.joined <= snapshot.created
        /\ snapshot.startup_failures \in Nat /\ snapshot.startup_failures <= WorkerCount
QueueSound ==
    opc = "captured" => /\ snapshot.size \in Nat /\ snapshot.high_water \in Nat
                        /\ snapshot.size <= snapshot.high_water
                        /\ snapshot.high_water <= Capacity

(* How many workers' counters c have been loaded. *)
Passed(c) ==
    CASE c = "dequeued" -> LoadLabels \ {"dequeued"}
      [] c = "started" -> LoadLabels \ {"dequeued", "started"}
      [] c = "succeeded" -> {"failed", "running", "accounting_overflow"}
      [] c = "failed" -> {"running", "accounting_overflow"}
      [] OTHER -> {"accounting_overflow"}
Through(c) == IF opc \in Passed(c) THEN scan ELSE scan - 1

RunningSound ==
    /\ opc \in LoadLabels =>
           /\ snapshot.active = active_worker_count
           /\ snapshot.running <= Cardinality({w \in Active : w <= Through("running")})
    /\ Copied => snapshot.running <= snapshot.active

(* What the counters that are still to be loaded can add makes up for what *)
(* the capture has not seen, and what it has seen was there to see.        *)
Pending(c) == Sum(CountsOf(c))[WorkerCount] - Sum(CountsOf(c))[Through(c)]
OutcomeSound(c) ==
    /\ opc # "idle" => before[c] \in Nat /\ before[c] <= tally[c]
    /\ opc = "no_worker" => before[c] = 0
    /\ opc \in LoadLabels =>
           /\ Saturated(before[c]) <= Saturated(snapshot[c] + Pending(c))
           /\ snapshot[c] <= Saturated(total[c] + Sum(CountsOf(c))[Through(c)])
    /\ Copied => Saturated(before[c]) <= snapshot[c] /\ snapshot[c] <= Saturated(tally[c])
OutcomesSound == \A c \in Outcomes : OutcomeSound(c)

(* A scheduler that has not got beyond the start of scheduler_start. *)
Unstarted == state = "INITIALIZED" \/ pc[Main] = "start_allocate"
AtRest == snapshot.state \in {"STOPPED", "FAILED"} \/ (snapshot.state = "INITIALIZED" /\ Unstarted)
SubmissionsExact ==
    /\ snapshot.overflow_detected => SomeCountTooLarge
    /\ ~snapshot.overflow_detected =>
           /\ snapshot.submitted = snapshot.accepted + snapshot.rejected
           /\ snapshot.accepted = Cardinality(Ran) /\ snapshot.rejected \in Nat
CallbacksExact ==
    /\ snapshot.running = 0 /\ snapshot.active = 0
    /\ snapshot.created = created_worker_count
    /\ snapshot.created = snapshot.joined + tally["join_failures"]
    /\ ~snapshot.overflow_detected =>
           /\ snapshot.dequeued = Cardinality(Ran) /\ snapshot.started = Cardinality(Ran)
           /\ snapshot.started = snapshot.succeeded + snapshot.failed
    /\ snapshot.state = "INITIALIZED" =>
           /\ snapshot.failed = 0 /\ snapshot.startup_failures = 0
           /\ snapshot.runtime_failures = 0 /\ snapshot.join_failures = 0
RestExact ==
    /\ opc # "idle" /\ snapshot.state \in {"STOPPED", "FAILED"} => state \in {"STOPPED", "FAILED"}
    /\ opc # "idle" /\ AtRest => SubmissionsExact
    /\ opc = "no_worker" /\ AtRest => created_worker_count = 0
    /\ Copied /\ AtRest => CallbacksExact
    /\ opc = "captured" /\ AtRest => snapshot.size = 0

(* The fields that a capture adds, and those it leaves. *)
LEMMA CaptureFacts ==
    ASSUME NEW fields, Capture(fields)
    PROVE  /\ DOMAIN snapshot' = DOMAIN snapshot \cup DOMAIN fields
           /\ \A f \in DOMAIN fields : snapshot'[f] = fields[f]
           /\ \A f \in DOMAIN snapshot : f \notin DOMAIN fields => snapshot'[f] = snapshot[f]
BY DEF Capture

(* The lifecycle section. *)
LEMMA LifecycleCaptured ==
    ASSUME CaptureLifecycle, state \in LifecycleStates
    PROVE  /\ opc = "idle" /\ implementation /\ LifecycleNames \subseteq DOMAIN snapshot'
           /\ snapshot'.state = state
           /\ snapshot'.submissions_open = (state = "RUNNING")
           /\ snapshot'.shutdown_started = (state \in {"SHUTTING_DOWN", "STOPPED"})
           /\ snapshot'.submitted = submitted_count /\ snapshot'.accepted = accepted_count
           /\ snapshot'.rejected = rejected_count
           /\ snapshot'.overflow_detected = lifecycle_accounting_overflow
           /\ \A c \in Outcomes : before'[c] = tally[c]
           /\ opc' = IF worker_sync_initialized THEN "worker" ELSE "no_worker"
<1> DEFINE fields == [state |-> snapshot_state_from_internal,
                submissions_open |-> state = "RUNNING",
                shutdown_started |-> state \in {"SHUTTING_DOWN", "STOPPED"},
                submitted |-> submitted_count,
                accepted |-> accepted_count,
                rejected |-> rejected_count,
                overflow_detected |-> lifecycle_accounting_overflow]
<1>1. Capture(fields)
  BY DEF CaptureLifecycle
<1>2. DOMAIN fields = LifecycleNames
  BY DEF LifecycleNames
<1>3. /\ fields.state = snapshot_state_from_internal
      /\ fields.submissions_open = (state = "RUNNING")
      /\ fields.shutdown_started = (state \in {"SHUTTING_DOWN", "STOPPED"})
      /\ fields.submitted = submitted_count /\ fields.accepted = accepted_count
      /\ fields.rejected = rejected_count
      /\ fields.overflow_detected = lifecycle_accounting_overflow
  OBVIOUS
<1> HIDE DEF fields
<1>4. /\ DOMAIN snapshot' = DOMAIN snapshot \cup LifecycleNames
      /\ \A f \in LifecycleNames : snapshot'[f] = fields[f]
  BY <1>1, <1>2, CaptureFacts
<1>5. snapshot_state_from_internal = state
  BY DEF snapshot_state_from_internal, LifecycleStates
<1>6. /\ snapshot'.state = fields.state
      /\ snapshot'.submissions_open = fields.submissions_open
      /\ snapshot'.shutdown_started = fields.shutdown_started
      /\ snapshot'.submitted = fields.submitted /\ snapshot'.accepted = fields.accepted
      /\ snapshot'.rejected = fields.rejected
      /\ snapshot'.overflow_detected = fields.overflow_detected
  BY <1>4 DEF LifecycleNames
<1>7. /\ opc = "idle" /\ implementation
      /\ \A c \in Outcomes : before'[c] = tally[c]
      /\ opc' = IF worker_sync_initialized THEN "worker" ELSE "no_worker"
  BY DEF CaptureLifecycle
<1>8. QED
  BY <1>3, <1>4, <1>5, <1>6, <1>7

(* The worker section, before the loads. *)
LEMMA WorkerCaptured ==
    ASSUME CaptureWorker
    PROVE  /\ opc = "worker" /\ DOMAIN snapshot \cup WorkerNames \subseteq DOMAIN snapshot'
           /\ \A c \in Counters : snapshot'[c] = total[c]
           /\ snapshot'.created = created_worker_count /\ snapshot'.ready = ready_worker_count
           /\ snapshot'.active = active_worker_count /\ snapshot'.joined = joined_worker_count
           /\ snapshot'.startup_failures = worker_startup_failure_count
           /\ snapshot'.runtime_failures = worker_runtime_failure_count
           /\ snapshot'.join_failures = join_failure_count
           /\ snapshot'.overflow_detected =
                  (snapshot.overflow_detected \/ worker_accounting_overflow)
           /\ \A f \in DOMAIN snapshot : f \notin WorkerNames => snapshot'[f] = snapshot[f]
           /\ scan' = 1 /\ before' = before
           /\ opc' = IF started_worker_count = 0 THEN "queue" ELSE "dequeued"
<1> DEFINE wf == WorkerFields
           fields == [f \in DOMAIN wf \cup Counters |-> IF f \in Counters THEN total[f] ELSE wf[f]]
<1>1. Capture(fields)
  BY DEF CaptureWorker
<1>2. DOMAIN wf = {"created", "ready", "active", "joined", "startup_failures",
                   "runtime_failures", "join_failures", "overflow_detected"}
  BY DEF WorkerFields
<1>3. /\ wf.created = created_worker_count /\ wf.ready = ready_worker_count
      /\ wf.active = active_worker_count /\ wf.joined = joined_worker_count
      /\ wf.startup_failures = worker_startup_failure_count
      /\ wf.runtime_failures = worker_runtime_failure_count
      /\ wf.join_failures = join_failure_count
      /\ wf.overflow_detected = (snapshot.overflow_detected \/ worker_accounting_overflow)
  BY DEF WorkerFields
<1> HIDE DEF wf
<1>4. /\ DOMAIN fields = WorkerNames
      /\ \A c \in Counters : fields[c] = total[c]
      /\ \A f \in DOMAIN wf : f \notin Counters => fields[f] = wf[f]
  BY <1>2 DEF WorkerNames
<1> HIDE DEF fields
<1>5. /\ DOMAIN snapshot' = DOMAIN snapshot \cup WorkerNames
      /\ \A f \in WorkerNames : snapshot'[f] = fields[f]
      /\ \A f \in DOMAIN snapshot : f \notin WorkerNames => snapshot'[f] = snapshot[f]
  BY <1>1, <1>4, CaptureFacts
<1>6. /\ snapshot'.created = wf.created /\ snapshot'.ready = wf.ready
      /\ snapshot'.active = wf.active /\ snapshot'.joined = wf.joined
      /\ snapshot'.startup_failures = wf.startup_failures
      /\ snapshot'.runtime_failures = wf.runtime_failures
      /\ snapshot'.join_failures = wf.join_failures
      /\ snapshot'.overflow_detected = wf.overflow_detected
  BY <1>2, <1>4, <1>5 DEF WorkerNames, Counters
<1>7. \A c \in Counters : snapshot'[c] = total[c]
  BY <1>4, <1>5 DEF WorkerNames
<1>8. /\ opc = "worker" /\ scan' = 1 /\ before' = before
      /\ opc' = IF started_worker_count = 0 THEN "queue" ELSE "dequeued"
  BY DEF CaptureWorker, LoadOrder
<1>9. QED
  BY <1>3, <1>5, <1>6, <1>7, <1>8

(* One load.  The order is that of LoadOrder. *)
LEMMA CounterLoaded ==
    ASSUME LoadCounter
    PROVE  /\ opc \in LoadLabels /\ before' = before /\ DOMAIN snapshot \subseteq DOMAIN snapshot'
           /\ \A f \in DOMAIN snapshot : f # opc /\ f # "overflow_detected" => snapshot'[f] = snapshot[f]
           /\ \/ /\ opc \in Counters /\ scan' = scan
                 /\ snapshot'[opc] = add_saturating(snapshot[opc], context[scan][opc])
                 /\ snapshot'.overflow_detected =
                        (snapshot.overflow_detected \/ SumOverflows(snapshot[opc], context[scan][opc]))
                 /\ <<opc, opc'>> \in {<<"dequeued", "started">>, <<"started", "succeeded">>,
                        <<"succeeded", "failed">>, <<"failed", "running">>,
                        <<"running", "accounting_overflow">>}
              \/ /\ opc = "accounting_overflow"
                 /\ snapshot'.overflow_detected =
                        (snapshot.overflow_detected \/ accounting_overflow[scan])
                 /\ \/ scan < started_worker_count /\ opc' = "dequeued" /\ scan' = scan + 1
                    \/ scan = started_worker_count /\ opc' = "queue" /\ scan' = 1
<1>1. Len(LoadOrder) = 6 /\ before' = before
  BY DEF LoadOrder, LoadCounter
<1>2. /\ LoadOrder[1] = "dequeued" /\ LoadOrder[2] = "started" /\ LoadOrder[3] = "succeeded"
      /\ LoadOrder[4] = "failed" /\ LoadOrder[5] = "running"
      /\ LoadOrder[6] = "accounting_overflow"
  BY DEF LoadOrder
<1>3. Capture(Loaded(opc))
  BY DEF LoadCounter
<1>4. PICK i \in 1..6 :
        /\ opc = LoadOrder[i]
        /\ \/ i < 6 /\ opc' = LoadOrder[i + 1] /\ scan' = scan
           \/ i = 6 /\ scan < started_worker_count /\ opc' = LoadOrder[1] /\ scan' = scan + 1
           \/ i = 6 /\ scan = started_worker_count /\ opc' = "queue" /\ scan' = 1
  BY <1>1 DEF LoadCounter
<1>5. i = 1 \/ i = 2 \/ i = 3 \/ i = 4 \/ i = 5 \/ i = 6
  OBVIOUS
<1>6. \/ /\ opc \in Counters /\ scan' = scan
         /\ <<opc, opc'>> \in {<<"dequeued", "started">>, <<"started", "succeeded">>,
                <<"succeeded", "failed">>, <<"failed", "running">>,
                <<"running", "accounting_overflow">>}
      \/ /\ opc = "accounting_overflow"
         /\ \/ scan < started_worker_count /\ opc' = "dequeued" /\ scan' = scan + 1
            \/ scan = started_worker_count /\ opc' = "queue" /\ scan' = 1
  BY <1>2, <1>4, <1>5 DEF Counters
<1>7. opc \in LoadLabels
  BY <1>6 DEF LoadLabels
<1> DEFINE fields == Loaded(opc)
<1>8. CASE opc \in Counters
  <2>1. /\ DOMAIN fields = {opc, "overflow_detected"} /\ opc # "overflow_detected"
        /\ fields[opc] = add_saturating(snapshot[opc], context[scan][opc])
        /\ fields["overflow_detected"] =
              (snapshot.overflow_detected \/ SumOverflows(snapshot[opc], context[scan][opc]))
    BY <1>8 DEF Loaded, Counters
  <2> HIDE DEF fields
  <2>2. /\ DOMAIN snapshot \subseteq DOMAIN snapshot'
        /\ \A f \in DOMAIN snapshot : f # opc /\ f # "overflow_detected" => snapshot'[f] = snapshot[f]
        /\ snapshot'[opc] = fields[opc]
        /\ snapshot'["overflow_detected"] = fields["overflow_detected"]
    BY <1>3, <2>1, CaptureFacts DEF fields
  <2>3. opc # "accounting_overflow"
    BY <1>8 DEF Counters
  <2>4. QED
    BY <1>1, <1>6, <1>7, <2>1, <2>2, <2>3
<1>9. CASE opc = "accounting_overflow"
  <2>1. /\ DOMAIN fields = {"overflow_detected"}
        /\ fields["overflow_detected"] = (snapshot.overflow_detected \/ accounting_overflow[scan])
    BY <1>9 DEF Loaded, Counters
  <2> HIDE DEF fields
  <2>2. /\ DOMAIN snapshot \subseteq DOMAIN snapshot'
        /\ \A f \in DOMAIN snapshot : f # opc /\ f # "overflow_detected" => snapshot'[f] = snapshot[f]
        /\ snapshot'["overflow_detected"] = fields["overflow_detected"]
    BY <1>3, <2>1, CaptureFacts DEF fields
  <2>3. opc \notin Counters
    BY <1>9 DEF Counters
  <2>4. QED
    BY <1>1, <1>6, <1>7, <1>9, <2>1, <2>2, <2>3
<1>10. QED
  BY <1>6, <1>8, <1>9

(* The worker section of a scheduler that has no worker mutex yet. *)
LEMMA WorkerSkipped ==
    ASSUME SkipWorker
    PROVE  /\ opc = "no_worker" /\ opc' = "queue" /\ scan' = scan /\ before' = before
           /\ DOMAIN snapshot \cup (WorkerNames \ {"overflow_detected"}) \subseteq DOMAIN snapshot'
           /\ \A f \in WorkerNames : f # "overflow_detected" => snapshot'[f] = 0
           /\ \A f \in DOMAIN snapshot :
                  f \notin WorkerNames \/ f = "overflow_detected" => snapshot'[f] = snapshot[f]
<1> DEFINE D == (DOMAIN WorkerFields \cup Counters) \ {"overflow_detected"}
           fields == [f \in D |-> 0]
<1>1. Capture(fields)
  BY DEF SkipWorker
<1>2. D = WorkerNames \ {"overflow_detected"}
  BY DEF WorkerFields, WorkerNames, Counters
<1> HIDE DEF D
<1>3. DOMAIN fields = D /\ \A f \in D : fields[f] = 0
  OBVIOUS
<1> HIDE DEF fields
<1>4. QED
  BY <1>1, <1>2, <1>3, CaptureFacts DEF SkipWorker

(* The queue section. *)
LEMMA QueueCaptured ==
    ASSUME CaptureQueue
    PROVE  /\ opc = "queue" /\ opc' = "captured" /\ scan' = scan /\ before' = before
           /\ DOMAIN snapshot \cup {"size", "high_water"} \subseteq DOMAIN snapshot'
           /\ snapshot'.size = Len(queue) /\ snapshot'.high_water = high_water_mark
           /\ \A f \in DOMAIN snapshot : f \notin {"size", "high_water"} => snapshot'[f] = snapshot[f]
<1> DEFINE fields == [size |-> Len(queue), high_water |-> high_water_mark]
<1>1. Capture(fields)
  BY DEF CaptureQueue
<1>2. DOMAIN fields = {"size", "high_water"}
      /\ fields["size"] = Len(queue) /\ fields["high_water"] = high_water_mark
  OBVIOUS
<1> HIDE DEF fields
<1>3. QED
  BY <1>1, <1>2, CaptureFacts DEF CaptureQueue

-----------------------------------------------------------------------------
(* A step of the scheduler beside a capture: it leaves the capture alone,  *)
(* and the worker fields too while the capture holds the worker mutex.     *)
Beside ==
    /\ UNCHANGED snapshotVars
    /\ opc \in LoadLabels => UNCHANGED guardedVars
    /\ opc # "idle" => UNCHANGED implementation

(* The labels at which the worker mutex is held. *)
LEMMA MutexLabels == HoldsWorkerMutex <=> opc \in LoadLabels
<1>1. Len(LoadOrder) = 6
  BY DEF LoadOrder
<1>2. /\ LoadOrder[1] = "dequeued" /\ LoadOrder[2] = "started" /\ LoadOrder[3] = "succeeded"
      /\ LoadOrder[4] = "failed" /\ LoadOrder[5] = "running"
      /\ LoadOrder[6] = "accounting_overflow"
  BY DEF LoadOrder
<1>3. 1..6 = {1, 2, 3, 4, 5, 6}
  OBVIOUS
<1>4. HoldsWorkerMutex <=> \E i \in {1, 2, 3, 4, 5, 6} : opc = LoadOrder[i]
  BY <1>1, <1>3 DEF HoldsWorkerMutex
<1>5. QED
  BY <1>2, <1>4 DEF LoadLabels, Counters

(* A step is the scheduler's, or one of the capture's, which changes       *)
(* nothing of the scheduler.                                               *)
LEMMA ObserverCases ==
    ASSUME [ObservedNext]_<<vars, snapshotVars>>
    PROVE  /\ [Next]_vars
           /\ \/ Beside
              \/ UNCHANGED vars /\ CaptureLifecycle
              \/ UNCHANGED vars /\ CaptureWorker
              \/ UNCHANGED vars /\ LoadCounter
              \/ UNCHANGED vars /\ SkipWorker
              \/ UNCHANGED vars /\ CaptureQueue
              \/ UNCHANGED vars /\ opc' = "idle"
<1>1. CASE SchedulerStep
  <2>1. Next /\ UNCHANGED snapshotVars /\ (opc # "idle" => UNCHANGED implementation)
    BY <1>1 DEF SchedulerStep
  <2>2. opc \in LoadLabels => UNCHANGED guardedVars
    BY <1>1, MutexLabels DEF SchedulerStep, UsesWorkerMutex
  <2>3. QED
    BY <2>1, <2>2 DEF Beside
<1>2. CASE scheduler_capture_snapshot
  BY <1>2 DEF scheduler_capture_snapshot, Discard
<1>3. CASE UNCHANGED <<vars, snapshotVars>>
  <2>1. UNCHANGED vars /\ UNCHANGED snapshotVars
    BY <1>3
  <2>2. UNCHANGED <<guardedVars, implementation>>
    BY <2>1 DEF vars, lifecycleVars, workerVars, guardedVars
  <2>3. QED
    BY <2>1, <2>2 DEF Beside
<1>4. QED
  BY <1>1, <1>2, <1>3 DEF ObservedNext

(* The accounts are kept whoever watches. *)
LEMMA ObservedAccounts ==
    ASSUME AccountsInv, [ObservedNext]_<<vars, snapshotVars>>
    PROVE  AccountsInv'
BY ObserverCases, StepAccounts

(* Worker threads and counters that stay the same while nothing else does. *)
LEMMA VarsKept ==
    ASSUME UNCHANGED vars
    PROVE  /\ UNCHANGED <<implementation, state, started_worker_count, active_worker_count,
                          created_worker_count, total, context, pc, tally, executed, allocated>>
BY DEF vars, lifecycleVars, workerVars, contextVars, history

(* The capture goes on as the order of its sections and loads says. *)
LEMMA StandingKept ==
    ASSUME AccountsInv, Standing, [ObservedNext]_<<vars, snapshotVars>>
    PROVE  Standing'
<1>1. TypeOK /\ TypeOK'
  <2>1. AccountsInv'
    BY ObservedAccounts
  <2>2. QED
    BY <2>1 DEF AccountsInv, TasksInv, LifeInv, BaseInv
<1>2. CASE Beside
  <2>1. /\ UNCHANGED <<opc, scan, snapshot>>
        /\ opc # "idle" => UNCHANGED implementation
        /\ opc \in LoadLabels => UNCHANGED started_worker_count
    BY <1>2 DEF Beside, snapshotVars, guardedVars
  <2>2. QED
    BY <2>1 DEF Standing, Copied
<1>3. CASE UNCHANGED vars /\ CaptureLifecycle
  <2>1. state \in LifecycleStates /\ lifecycle_accounting_overflow \in BOOLEAN
    BY <1>1 DEF TypeOK
  <2>2. /\ implementation /\ LifecycleNames \subseteq DOMAIN snapshot'
        /\ snapshot'.overflow_detected = lifecycle_accounting_overflow
        /\ opc' \in {"worker", "no_worker"}
    BY <1>3, <2>1, LifecycleCaptured
  <2>3. implementation'
    BY <1>3, <2>2, VarsKept
  <2>4. opc' \notin LoadLabels /\ opc' \notin {"queue", "captured"}
    BY <2>2 DEF LoadLabels, Counters
  <2>5. QED
    BY <2>1, <2>2, <2>3, <2>4 DEF Standing, Copied
<1>4. CASE UNCHANGED vars /\ CaptureWorker
  <2>1. /\ opc = "worker" /\ DOMAIN snapshot \cup WorkerNames \subseteq DOMAIN snapshot'
        /\ \A c \in Counters : snapshot'[c] = total[c]
        /\ snapshot'.overflow_detected = (snapshot.overflow_detected \/ worker_accounting_overflow)
        /\ scan' = 1
        /\ opc' = IF started_worker_count = 0 THEN "queue" ELSE "dequeued"
    BY <1>4, WorkerCaptured
  <2>2. implementation' /\ started_worker_count' = started_worker_count
    BY <1>4, <2>1, VarsKept DEF Standing
  <2>3. LifecycleNames \subseteq DOMAIN snapshot' /\ snapshot'.overflow_detected \in BOOLEAN
    BY <1>1, <2>1 DEF Standing, TypeOK
  <2>4. \A c \in Counters : snapshot'[c] \in 0..CounterMax
    BY <1>1, <2>1 DEF TypeOK
  <2>5. opc' \in LoadLabels => scan' \in 1..started_worker_count'
    BY <1>1, <2>1, <2>2 DEF TypeOK, LoadLabels, Counters
  <2>6. opc' \in {"queue", "dequeued"} /\ "dequeued" \in LoadLabels
    BY <2>1 DEF LoadLabels, Counters
  <2>7. QED
    BY <2>1, <2>2, <2>3, <2>4, <2>5, <2>6 DEF Standing, Copied
<1>5. CASE UNCHANGED vars /\ LoadCounter
  <2>1. /\ opc \in LoadLabels /\ DOMAIN snapshot \subseteq DOMAIN snapshot'
        /\ \A f \in DOMAIN snapshot : f # opc /\ f # "overflow_detected" => snapshot'[f] = snapshot[f]
    BY <1>5, CounterLoaded
  <2>2. /\ opc # "idle" /\ implementation /\ LifecycleNames \cup WorkerNames \subseteq DOMAIN snapshot
        /\ snapshot.overflow_detected \in BOOLEAN
        /\ \A c \in Counters : snapshot[c] \in 0..CounterMax
        /\ scan \in 1..started_worker_count
    BY <2>1 DEF Standing, LoadLabels, Counters
  <2>3. scan \in Workers
    BY <1>1, <2>2, SchedulerAssumption DEF TypeOK, Workers
  <2>4. \A c \in Counters : snapshot'[c] \in 0..CounterMax
    <3>1. ASSUME NEW c \in Counters, c # opc PROVE snapshot'[c] = snapshot[c]
      BY <2>1, <2>2, <3>1 DEF WorkerNames, Counters
    <3>2. CASE opc \in Counters
      <4>1. snapshot'[opc] = add_saturating(snapshot[opc], context[scan][opc])
        BY <1>5, <3>2, CounterLoaded DEF Counters
      <4>2. context[scan][opc] \in Nat
        BY <1>1, <2>3, <3>2, CountsType
      <4>3. snapshot'[opc] \in 0..CounterMax
        BY <2>2, <3>2, <4>1, <4>2, SumType
      <4>4. QED
        BY <2>2, <3>1, <4>3
    <3>3. QED
      BY <2>2, <3>1, <3>2
  <2>5. snapshot'.overflow_detected \in BOOLEAN
    BY <1>5, CounterLoaded
  <2>6. implementation' /\ started_worker_count' = started_worker_count
    BY <1>5, <2>2, VarsKept
  <2>7. opc' \in LoadLabels \cup {"queue"} /\ (opc' \in LoadLabels => scan' \in 1..started_worker_count)
    <3>1. started_worker_count \in Nat
      BY <1>1 DEF TypeOK
    <3>2. \/ opc' \in LoadLabels /\ scan' = scan
          \/ scan < started_worker_count /\ opc' \in LoadLabels /\ scan' = scan + 1
          \/ opc' = "queue"
      BY <1>5, CounterLoaded DEF LoadLabels, Counters
    <3>3. "queue" \notin LoadLabels
      BY DEF LoadLabels, Counters
    <3>4. QED
      BY <2>2, <3>1, <3>2, <3>3
  <2>8. opc' # "captured"
    BY <2>7 DEF LoadLabels, Counters
  <2>9. QED
    BY <2>1, <2>2, <2>4, <2>5, <2>6, <2>7, <2>8 DEF Standing, Copied
<1>6. CASE UNCHANGED vars /\ SkipWorker
  <2>1. /\ opc = "no_worker" /\ opc' = "queue"
        /\ DOMAIN snapshot \cup (WorkerNames \ {"overflow_detected"}) \subseteq DOMAIN snapshot'
        /\ \A f \in WorkerNames : f # "overflow_detected" => snapshot'[f] = 0
        /\ \A f \in DOMAIN snapshot :
                  f \notin WorkerNames \/ f = "overflow_detected" => snapshot'[f] = snapshot[f]
    BY <1>6, WorkerSkipped
  <2>2. /\ implementation /\ LifecycleNames \subseteq DOMAIN snapshot
        /\ snapshot.overflow_detected \in BOOLEAN
    BY <2>1 DEF Standing
  <2>3. implementation'
    BY <1>6, <2>2, VarsKept
  <2>4. LifecycleNames \subseteq DOMAIN snapshot' /\ WorkerNames \subseteq DOMAIN snapshot'
    BY <2>1, <2>2 DEF LifecycleNames
  <2>5. snapshot'.overflow_detected \in BOOLEAN
    BY <2>1, <2>2 DEF LifecycleNames
  <2>6. \A c \in Counters : snapshot'[c] \in 0..CounterMax
    BY <2>1, SchedulerAssumption DEF WorkerNames, Counters
  <2>7. "queue" \notin LoadLabels
    BY DEF LoadLabels, Counters
  <2>8. QED
    BY <2>1, <2>3, <2>4, <2>5, <2>6, <2>7 DEF Standing, Copied
<1>7. CASE UNCHANGED vars /\ CaptureQueue
  <2>1. /\ opc = "queue" /\ opc' = "captured"
        /\ DOMAIN snapshot \cup {"size", "high_water"} \subseteq DOMAIN snapshot'
        /\ \A f \in DOMAIN snapshot : f \notin {"size", "high_water"} => snapshot'[f] = snapshot[f]
    BY <1>7, QueueCaptured
  <2>2. /\ implementation /\ LifecycleNames \cup WorkerNames \subseteq DOMAIN snapshot
        /\ snapshot.overflow_detected \in BOOLEAN
        /\ \A c \in Counters : snapshot[c] \in 0..CounterMax
    BY <2>1 DEF Standing, Copied
  <2>3. implementation'
    BY <1>7, <2>2, VarsKept
  <2>4. /\ snapshot'.overflow_detected = snapshot.overflow_detected
        /\ \A c \in Counters : snapshot'[c] = snapshot[c]
    BY <2>1, <2>2 DEF WorkerNames, Counters
  <2>5. "captured" \notin LoadLabels
    BY DEF LoadLabels, Counters
  <2>6. QED
    BY <2>1, <2>2, <2>3, <2>4, <2>5 DEF Standing, Copied
<1>8. CASE opc' = "idle"
  BY <1>8 DEF Standing, Copied, LoadLabels, Counters
<1>9. QED
  BY <1>2, <1>3, <1>4, <1>5, <1>6, <1>7, <1>8, ObserverCases

-----------------------------------------------------------------------------
(* The fields that no later section of a capture touches. *)
Report == LifecycleNames \ {"overflow_detected"}
WorkerReport == WorkerNames \ ({"overflow_detected"} \cup Counters)
Reading == opc \in LoadLabels \/ Copied

(* Each section fills its fields once. *)
LEMMA FieldsKept ==
    ASSUME AccountsInv, Standing, [ObservedNext]_<<vars, snapshotVars>>
    PROVE  /\ \/ opc' = "idle"
              \/ UNCHANGED vars /\ CaptureLifecycle
              \/ opc # "idle" /\ \A f \in Report : snapshot'[f] = snapshot[f]
           /\ Reading' => \/ UNCHANGED vars /\ CaptureWorker
                          \/ UNCHANGED vars /\ SkipWorker
                          \/ Reading /\ \A f \in WorkerReport : snapshot'[f] = snapshot[f]
           /\ opc' = "captured" => \/ UNCHANGED vars /\ CaptureQueue
                                   \/ opc = "captured" /\ snapshot' = snapshot
<1>1. /\ Report \cap WorkerNames = {} /\ Report \subseteq LifecycleNames
      /\ Report \cap {"size", "high_water"} = {} /\ WorkerReport \cap {"size", "high_water"} = {}
      /\ WorkerReport \subseteq WorkerNames /\ "overflow_detected" \notin Report \cup WorkerReport
      /\ Report \cap LoadLabels = {} /\ WorkerReport \cap LoadLabels = {}
  BY DEF Report, WorkerReport, LifecycleNames, WorkerNames, LoadLabels, Counters
<1>2. CASE Beside
  BY <1>2 DEF Beside, snapshotVars, Reading, Copied
<1>3. CASE UNCHANGED vars /\ CaptureLifecycle
  <2>1. opc' \in {"worker", "no_worker"}
    BY <1>3 DEF CaptureLifecycle
  <2>2. ~Reading' /\ opc' # "captured"
    BY <2>1 DEF Reading, Copied, LoadLabels, Counters
  <2>3. QED
    BY <1>3, <2>2
<1>4. CASE UNCHANGED vars /\ CaptureWorker
  <2>1. /\ opc = "worker" /\ opc' \in {"queue", "dequeued"}
        /\ \A f \in DOMAIN snapshot : f \notin WorkerNames => snapshot'[f] = snapshot[f]
    BY <1>4, WorkerCaptured
  <2>2. \A f \in Report : snapshot'[f] = snapshot[f]
    BY <1>1, <2>1 DEF Standing
  <2>3. QED
    BY <1>4, <2>1, <2>2
<1>5. CASE UNCHANGED vars /\ LoadCounter
  <2>1. /\ opc \in LoadLabels /\ opc' # "captured"
        /\ \A f \in DOMAIN snapshot : f # opc /\ f # "overflow_detected" => snapshot'[f] = snapshot[f]
    BY <1>5, CounterLoaded
  <2>2. opc # "idle"
    BY <2>1 DEF LoadLabels, Counters
  <2>3. /\ \A f \in Report : snapshot'[f] = snapshot[f]
        /\ \A f \in WorkerReport : snapshot'[f] = snapshot[f]
    BY <1>1, <2>1, <2>2 DEF Standing
  <2>4. QED
    BY <2>1, <2>2, <2>3 DEF Reading
<1>6. CASE UNCHANGED vars /\ SkipWorker
  <2>1. /\ opc = "no_worker" /\ opc' = "queue"
        /\ \A f \in DOMAIN snapshot : f \notin WorkerNames => snapshot'[f] = snapshot[f]
    BY <1>6, WorkerSkipped
  <2>2. \A f \in Report : snapshot'[f] = snapshot[f]
    BY <1>1, <2>1 DEF Standing
  <2>3. QED
    BY <1>6, <2>1, <2>2
<1>7. CASE UNCHANGED vars /\ CaptureQueue
  <2>1. /\ opc = "queue" /\ opc' = "captured"
        /\ \A f \in DOMAIN snapshot : f \notin {"size", "high_water"} => snapshot'[f] = snapshot[f]
    BY <1>7, QueueCaptured
  <2>2. /\ \A f \in Report : snapshot'[f] = snapshot[f]
        /\ \A f \in WorkerReport : snapshot'[f] = snapshot[f]
    BY <1>1, <2>1 DEF Standing, Copied
  <2>3. QED
    BY <1>7, <2>1, <2>2 DEF Reading, Copied
<1>8. CASE opc' = "idle"
  BY <1>8 DEF Reading, Copied, LoadLabels, Counters
<1>9. QED
  BY <1>2, <1>3, <1>4, <1>5, <1>6, <1>7, <1>8, ObserverCases

(* What the lifecycle section copies is consistent. *)
LEMMA FlagsKept ==
    ASSUME AccountsInv, Standing, FlagsSound, [ObservedNext]_<<vars, snapshotVars>>
    PROVE  FlagsSound'
<1> SUFFICES ASSUME opc' # "idle"
             PROVE  lifecycle_flags_valid(snapshot') /\ snapshot'.state \in LifecycleStates
  BY DEF FlagsSound
<1>1. CASE UNCHANGED vars /\ CaptureLifecycle
  <2>1. state \in LifecycleStates
    BY DEF AccountsInv, TasksInv, LifeInv, BaseInv, TypeOK
  <2>2. /\ snapshot'.state = state
        /\ snapshot'.submissions_open = (state = "RUNNING")
        /\ snapshot'.shutdown_started = (state \in {"SHUTTING_DOWN", "STOPPED"})
    BY <1>1, <2>1, LifecycleCaptured
  <2>3. QED
    BY <2>1, <2>2 DEF lifecycle_flags_valid, LifecycleStates
<1>2. CASE opc # "idle" /\ \A f \in Report : snapshot'[f] = snapshot[f]
  <2>1. /\ snapshot'.state = snapshot.state
        /\ snapshot'.submissions_open = snapshot.submissions_open
        /\ snapshot'.shutdown_started = snapshot.shutdown_started
    BY <1>2 DEF Report, LifecycleNames
  <2>2. QED
    BY <1>2, <2>1 DEF FlagsSound, lifecycle_flags_valid
<1>3. QED
  BY <1>1, <1>2, FieldsKept

(* The bounds on the worker fields, at every instant. *)
LEMMA WorkerBounds ==
    ASSUME AccountsInv
    PROVE  /\ created_worker_count \in Nat /\ ready_worker_count \in Nat
           /\ active_worker_count \in Nat /\ joined_worker_count \in Nat
           /\ created_worker_count <= WorkerCount
           /\ ready_worker_count <= created_worker_count
           /\ active_worker_count + joined_worker_count <= created_worker_count
           /\ worker_startup_failure_count \in Nat
           /\ worker_startup_failure_count <= WorkerCount
<1>1. LifeInv /\ TypeOK /\ Handles /\ Arrays /\ Counts
  BY DEF AccountsInv, TasksInv, LifeInv, BaseInv
<1>2. /\ created_worker_count \in Nat /\ ready_worker_count \in Nat
      /\ active_worker_count \in Nat /\ joined_worker_count \in Nat
      /\ worker_startup_failure_count \in Nat /\ tally["startup_failures"] \in Nat
      /\ WorkerCount \in Nat \ {0} /\ CounterMax \in Nat
  BY <1>1, SchedulerAssumption DEF TypeOK, Tallied
<1>3. created_worker_count <= WorkerCount
  BY <1>1 DEF Arrays
<1>4. ready_worker_count <= created_worker_count
  <2>1. Ready \subseteq 1..created_worker_count
    BY <1>1, <1>2, <1>3 DEF Ready, Arrays, Workers
  <2>2. IsFiniteSet(1..created_worker_count)
        /\ Cardinality(1..created_worker_count) = created_worker_count
    BY <1>2, FS_Interval
  <2>3. Cardinality(Ready) <= created_worker_count
    BY <2>1, <2>2, FS_Subset
  <2>4. QED
    BY <1>1, <1>2, <2>3 DEF Counts
<1>5. active_worker_count + joined_worker_count <= created_worker_count
  <2>1. Active \subseteq WithHandle
    BY <1>1 DEF Active, WithHandle, Handles
  <2>2. IsFiniteSet(WithHandle) /\ Cardinality(WithHandle) \in Nat
    BY WorkersFinite DEF WithHandle
  <2>3. Cardinality(Active) <= Cardinality(WithHandle)
    BY <2>1, <2>2, FS_Subset
  <2>4. active_worker_count <= Cardinality(WithHandle)
    BY <1>1, <2>3 DEF Counts
  <2>5. joined_worker_count + Cardinality(WithHandle) <= created_worker_count
    BY <1>1 DEF Counts
  <2>6. QED
    BY <1>2, <2>2, <2>4, <2>5
<1>6. worker_startup_failure_count <= WorkerCount
  <2>1. worker_startup_failure_count = Saturated(tally["startup_failures"])
    BY DEF AccountsInv, FailuresExact, FailureCount, Failures
  <2>2. tally["startup_failures"] <= 1
    BY DEF AccountsInv, NothingYet
  <2>3. QED
    BY <1>2, <2>1, <2>2 DEF Saturated
<1>7. QED
  BY <1>2, <1>3, <1>4, <1>5, <1>6

(* What the worker section copies is within them. *)
LEMMA WorkersKept ==
    ASSUME AccountsInv, Standing, WorkersSound, [ObservedNext]_<<vars, snapshotVars>>
    PROVE  WorkersSound'
<1> SUFFICES ASSUME Reading' PROVE WorkersSound'
  BY DEF WorkersSound, Reading
<1>1. CASE CaptureWorker
  <2>1. /\ snapshot'.created = created_worker_count /\ snapshot'.ready = ready_worker_count
        /\ snapshot'.active = active_worker_count /\ snapshot'.joined = joined_worker_count
        /\ snapshot'.startup_failures = worker_startup_failure_count
    BY <1>1, WorkerCaptured
  <2>2. QED
    BY <2>1, WorkerBounds DEF WorkersSound
<1>2. CASE SkipWorker
  <2>1. \A f \in WorkerNames : f # "overflow_detected" => snapshot'[f] = 0
    BY <1>2, WorkerSkipped
  <2>2. /\ snapshot'.created = 0 /\ snapshot'.ready = 0 /\ snapshot'.active = 0
        /\ snapshot'.joined = 0 /\ snapshot'.startup_failures = 0
    BY <2>1 DEF WorkerNames
  <2>3. QED
    BY <2>2, SchedulerAssumption DEF WorkersSound
<1>3. CASE Reading /\ \A f \in WorkerReport : snapshot'[f] = snapshot[f]
  <2>1. /\ snapshot'.created = snapshot.created /\ snapshot'.ready = snapshot.ready
        /\ snapshot'.active = snapshot.active /\ snapshot'.joined = snapshot.joined
        /\ snapshot'.startup_failures = snapshot.startup_failures
    BY <1>3 DEF WorkerReport, WorkerNames, Counters
  <2>2. QED
    BY <1>3, <2>1 DEF WorkersSound, Reading
<1>4. QED
  BY <1>1, <1>2, <1>3, FieldsKept

(* The queue section copies a length and the bound on it together. *)
LEMMA QueueKept ==
    ASSUME AccountsInv, Standing, QueueSound, [ObservedNext]_<<vars, snapshotVars>>
    PROVE  QueueSound'
<1> SUFFICES ASSUME opc' = "captured" PROVE QueueSound'
  BY DEF QueueSound
<1>1. CASE CaptureQueue
  <2>1. snapshot'.size = Len(queue) /\ snapshot'.high_water = high_water_mark
    BY <1>1, QueueCaptured
  <2>2. QueueInv
    BY DEF AccountsInv, TasksInv, LifeInv, BaseInv
  <2>3. Len(queue) \in Nat /\ high_water_mark \in Nat
    BY <2>2 DEF QueueInv, Q!TypeOK
  <2>4. Len(queue) <= high_water_mark /\ high_water_mark <= Capacity
    BY <2>2 DEF QueueInv, Q!HighWaterBoundsOccupancy
  <2>5. QED
    BY <2>1, <2>3, <2>4 DEF QueueSound
<1>2. CASE opc = "captured" /\ snapshot' = snapshot
  BY <1>2 DEF QueueSound
<1>3. QED
  BY <1>1, <1>2, FieldsKept

-----------------------------------------------------------------------------
(* Who is active changes only with the worker fields. *)
LEMMA ActiveKept ==
    ASSUME LifeInv, [Next]_vars, UNCHANGED guardedVars
    PROVE  Active' = Active
<1> USE ThreadKinds
<1>1. BaseInv /\ TypeOK
  BY DEF LifeInv, BaseInv
<1>2. UNCHANGED <<active_worker_count, started_worker_count>>
  BY DEF guardedVars
<1>3. active_worker_count \in Nat /\ started_worker_count \in Nat
  BY <1>1 DEF TypeOK
<1> DEFINE Idle == {"none", "entry", "exited"}
<1>4. ASSUME NEW w \in Workers PROVE pc'[w] \in Idle <=> pc[w] \in Idle
  <2>1. CASE MainOnly \/ UNCHANGED vars
    BY <1>1, <2>1, MainOnlyFrame DEF vars
  <2>2. CASE StartAborts \/ ShutdownQueue
    BY <1>1, <2>2, GotoFacts DEF StartAborts, ShutdownQueue, BeginRelease
  <2>3. CASE StartCreates
    <3>1. ~CountCreated
      BY <1>2, <1>3 DEF CountCreated
    <3>2. QED
      BY <1>1, <2>3, <3>1, CreateFacts
  <2>4. ASSUME NEW t \in Workers \cup Submitters, OtherStep(t)
        PROVE  pc'[w] \in Idle <=> pc[w] \in Idle
    <3>1. w # t => pc'[w] = pc[w]
      BY <1>1, <2>4, OtherFrame
    <3>2. CASE w = t
      <4>1. ASSUME NEW label, Goto(w, label) PROVE pc'[w] = label
        BY <1>1, <4>1, GotoFacts
      <4>2. ASSUME NEW call \in {"submit", "try_submit"}, register_submitter(w, call)
            PROVE  pc'[w] \in Idle <=> pc[w] \in Idle
        BY <4>1, <4>2 DEF register_submitter, Home
      <4>3. CASE deregister_submitter(w)
        BY <1>1, <4>3, DeregisterFacts DEF Home
      <4>4. CASE SubmitToQueue(w) \/ QueueResumes(w) \/ QueueWaitEnds(w)
        BY <4>1, <4>4 DEF SubmitToQueue, QueueResumes, QueueWaitEnds
      <4>5. ~WorkerReady(w)
        BY <1>2, <1>3 DEF WorkerReady
      <4>6. ~WorkerExits(w)
        <5>1. SUFFICES ASSUME WorkerExits(w) PROVE FALSE
          OBVIOUS
        <5>2. active_worker_count # 0
          BY <5>1, ExitCounted
        <5>3. active_worker_count' = active_worker_count - 1
          BY <1>3, <5>1, <5>2, ExitFacts
        <5>4. QED
          BY <1>2, <1>3, <5>3
      <4>7. CASE \/ WorkerDequeue(w) \/ WorkerCountsDequeue(w) \/ WorkerCountsStart(w)
                 \/ WorkerExecutes(w) \/ CallbackReturns(w) \/ WorkerCountsStop(w)
                 \/ WorkerQueueFailure(w)
        BY <4>1, <4>7
           DEF WorkerDequeue, WorkerCountsDequeue, WorkerCountsStart, WorkerExecutes,
               CallbackReturns, WorkerCountsStop, WorkerQueueFailure
      <4>8. QED
        BY <2>4, <3>2, <4>2, <4>3, <4>4, <4>5, <4>6, <4>7 DEF OtherStep, scheduler_worker_entry
    <3>3. QED
      BY <3>1, <3>2
  <2>5. QED
    BY <2>1, <2>2, <2>3, <2>4, NextSplit
<1>5. QED
  BY <1>4 DEF Active

(* How far the loads of a counter have come. *)
LEMMA ThroughStep ==
    ASSUME LoadCounter, NEW c \in Counters
    PROVE  /\ opc = c => Through(c) = scan - 1 /\ Through(c)' = scan
           /\ opc # c /\ opc' # "queue" /\ scan \in Nat => Through(c)' = Through(c)
           /\ opc' = "queue" => /\ Through(c) = scan /\ scan = started_worker_count
                                /\ opc = "accounting_overflow"
<1>1. \/ /\ scan' = scan
         /\ <<opc, opc'>> \in {<<"dequeued", "started">>, <<"started", "succeeded">>,
                        <<"succeeded", "failed">>, <<"failed", "running">>,
                        <<"running", "accounting_overflow">>}
      \/ /\ opc = "accounting_overflow"
         /\ \/ opc' = "dequeued" /\ scan' = scan + 1
            \/ scan = started_worker_count /\ opc' = "queue" /\ scan' = 1
  BY CounterLoaded
<1>2. /\ c = "dequeued" => Passed(c) = {"started", "succeeded", "failed", "running",
                                        "accounting_overflow"}
      /\ c = "started" => Passed(c) = {"succeeded", "failed", "running", "accounting_overflow"}
      /\ c = "succeeded" => Passed(c) = {"failed", "running", "accounting_overflow"}
      /\ c = "failed" => Passed(c) = {"running", "accounting_overflow"}
      /\ c = "running" => Passed(c) = {"accounting_overflow"}
      /\ c \in {"dequeued", "started", "succeeded", "failed", "running"}
  BY DEF Passed, LoadLabels, Counters
<1>3. CASE scan' = scan /\ opc # "accounting_overflow"
  BY <1>1, <1>2, <1>3 DEF Through
<1>4. CASE opc = "accounting_overflow"
  BY <1>1, <1>2, <1>4 DEF Through
<1>5. QED
  BY <1>1, <1>3, <1>4

(* Before the first load none has been made. *)
LEMMA ThroughFirst ==
    ASSUME NEW c \in Counters, opc' = "dequeued", scan' = 1
    PROVE  Through(c)' = 0
BY DEF Through, Passed, LoadLabels, Counters

(* The load of a counter leaves room for all that it added. *)
LEMMA LoadBounds ==
    ASSUME NEW n \in 0..CounterMax, NEW v \in Nat
    PROVE  add_saturating(n, v) <= n + v
BY SchedulerAssumption DEF add_saturating, SumOverflows

(* The workers whose running count has been loaded. *)
Scanned(n) == {w \in Active : w <= n}

(* They can be counted, and one more load adds at most one. *)
LEMMA ScannedFacts ==
    ASSUME LifeInv, NEW n \in Workers
    PROVE  /\ Cardinality(Scanned(n)) \in Nat /\ Cardinality(Scanned(n - 1)) \in Nat
           /\ Cardinality(Scanned(n)) <= active_worker_count
           /\ Cardinality(Scanned(n - 1)) + context[n]["running"] <= Cardinality(Scanned(n))
           /\ context[n]["running"] \in Nat
<1>1. RunningExact /\ Counts
  BY DEF LifeInv, BaseInv
<1>2. /\ IsFiniteSet(Active) /\ IsFiniteSet(Scanned(n)) /\ IsFiniteSet(Scanned(n - 1))
      /\ Cardinality(Scanned(n)) \in Nat /\ Cardinality(Scanned(n - 1)) \in Nat
  BY WorkersFinite DEF Active, Scanned
<1>3. Cardinality(Scanned(n)) <= active_worker_count
  BY <1>1, <1>2, FS_Subset DEF Scanned, Counts
<1>4. context[n]["running"] = IF pc[n] \in RunningLabels THEN 1 ELSE 0
  BY <1>1 DEF RunningExact
<1>5. \A w \in Active : w \in Int
  BY DEF Active, Workers
<1>6. n \in Int
  BY DEF Workers
<1>7. Scanned(n - 1) \subseteq Scanned(n) /\ n \notin Scanned(n - 1)
  BY <1>5, <1>6 DEF Scanned
<1>8. CASE pc[n] \in RunningLabels
  <2>1. n \in Active
    BY <1>8 DEF Active, RunningLabels, SubmitLabels
  <2>2. Scanned(n) = Scanned(n - 1) \cup {n}
    <3>1. \A w \in Active : w <= n <=> w <= n - 1 \/ w = n
      BY <1>5, <1>6
    <3>2. QED
      BY <2>1, <3>1 DEF Scanned
  <2>3. Cardinality(Scanned(n)) = Cardinality(Scanned(n - 1)) + 1
    BY <1>2, <1>7, <2>2, FS_AddElement
  <2>4. QED
    BY <1>2, <1>3, <1>4, <1>8, <2>3
<1>9. CASE pc[n] \notin RunningLabels
  <2>1. Cardinality(Scanned(n - 1)) <= Cardinality(Scanned(n))
    BY <1>2, <1>7, FS_Subset
  <2>2. QED
    BY <1>2, <1>3, <1>4, <1>9, <2>1
<1>10. QED
  BY <1>8, <1>9

(* The capture adds up running counts of workers that are active. *)
LEMMA RunningKept ==
    ASSUME AccountsInv, Standing, WorkersSound, RunningSound,
           [ObservedNext]_<<vars, snapshotVars>>
    PROVE  RunningSound'
<1>1. LifeInv /\ TypeOK /\ Cleared
  BY DEF AccountsInv, TasksInv, LifeInv, BaseInv
<1>2. /\ {"running", "active"} \subseteq WorkerNames /\ "running" \in Counters
      /\ "active" \notin LoadLabels /\ "queue" \notin LoadLabels /\ "captured" \notin LoadLabels
      /\ "dequeued" \in LoadLabels
  BY DEF WorkerNames, LoadLabels, Counters
<1>3. CASE Beside
  <2>1. UNCHANGED <<opc, scan, snapshot>>
    BY <1>3 DEF Beside, snapshotVars
  <2>2. opc \in LoadLabels => active_worker_count' = active_worker_count /\ Active' = Active
    <3>1. [Next]_vars
      BY ObserverCases
    <3>2. QED
      BY <1>1, <1>3, <3>1, ActiveKept DEF Beside, guardedVars
  <2>3. Through("running")' = Through("running")
    BY <2>1 DEF Through
  <2>4. QED
    BY <2>1, <2>2, <2>3 DEF RunningSound, Copied
<1>4. CASE UNCHANGED vars /\ CaptureLifecycle
  <2>1. opc' \notin LoadLabels /\ ~Copied'
    BY <1>4 DEF CaptureLifecycle, LoadLabels, Counters, Copied
  <2>2. QED
    BY <2>1 DEF RunningSound
<1>5. CASE UNCHANGED vars /\ CaptureWorker
  <2>1. /\ snapshot'["running"] = total["running"] /\ snapshot'.active = active_worker_count
        /\ scan' = 1 /\ opc' \in {"queue", "dequeued"}
    BY <1>2, <1>5, WorkerCaptured
  <2>2. total["running"] = 0 /\ active_worker_count \in Nat
    BY <1>1 DEF Cleared, TypeOK
  <2>3. active_worker_count' = active_worker_count /\ Active' = Active
    BY <1>5, VarsKept DEF Active
  <2>4. opc' = "dequeued" => Cardinality({w \in Active' : w <= Through("running")'}) \in Nat
    BY <2>3, WorkersFinite DEF Active
  <2>5. QED
    BY <1>2, <2>1, <2>2, <2>3, <2>4 DEF RunningSound, Copied, LoadLabels, Counters
<1>6. CASE UNCHANGED vars /\ LoadCounter
  <2>1. /\ opc \in LoadLabels /\ opc' # "captured"
        /\ \A f \in DOMAIN snapshot : f # opc /\ f # "overflow_detected" => snapshot'[f] = snapshot[f]
    BY <1>6, CounterLoaded
  <2>2. /\ WorkerNames \subseteq DOMAIN snapshot /\ scan \in 1..started_worker_count
        /\ snapshot.running \in 0..CounterMax
    BY <1>2, <2>1 DEF Standing
  <2>3. scan \in Workers /\ scan \in Nat
    BY <1>1, <2>2, SchedulerAssumption DEF TypeOK, Workers
  <2>4. snapshot'.active = snapshot.active /\ snapshot.active = active_worker_count
    BY <1>2, <2>1, <2>2 DEF RunningSound
  <2>5. active_worker_count' = active_worker_count /\ Active' = Active
    BY <1>6, VarsKept DEF Active
  <2>6. snapshot.running <= Cardinality(Scanned(Through("running")))
    BY <2>1 DEF RunningSound, Scanned
  <2>7. opc # "running" => snapshot'.running = snapshot.running
    BY <1>2, <2>1, <2>2
  <2>8. CASE opc = "running"
    <3>1. snapshot'["running"] = add_saturating(snapshot["running"], context[scan]["running"])
      BY <1>6, <2>8, CounterLoaded
    <3>2. Through("running") = scan - 1 /\ Through("running")' = scan /\ opc' # "queue"
      BY <1>6, <2>8, ThroughStep DEF Counters
    <3>3. /\ Cardinality(Scanned(scan)) \in Nat /\ Cardinality(Scanned(scan - 1)) \in Nat
          /\ Cardinality(Scanned(scan - 1)) + context[scan]["running"] <= Cardinality(Scanned(scan))
          /\ context[scan]["running"] \in Nat
      BY <1>1, <2>3, ScannedFacts
    <3>4. snapshot'.running <= snapshot.running + context[scan]["running"]
      BY <2>2, <3>1, <3>3, LoadBounds
    <3>5. snapshot'.running \in 0..CounterMax
      BY <2>2, <3>1, <3>3, SumType
    <3>6. snapshot'.running <= Cardinality(Scanned(scan))
      <4> DEFINE a == snapshot'.running  b == snapshot.running
                 r == context[scan]["running"]
                 p == Cardinality(Scanned(scan - 1))  q == Cardinality(Scanned(scan))
      <4>1. a \in Int /\ b \in Int /\ r \in Int /\ p \in Int /\ q \in Int
        BY <2>2, <3>3, <3>5
      <4>2. a <= b + r /\ b <= p /\ p + r <= q
        BY <2>6, <3>2, <3>3, <3>4
      <4> HIDE DEF a, b, r, p, q
      <4>3. a <= q
        BY <4>1, <4>2
      <4>4. QED
        BY <4>3 DEF a, q
    <3>7. snapshot'.running <= Cardinality({w \in Active' : w <= Through("running")'})
      BY <2>5, <3>2, <3>6 DEF Scanned
    <3>8. ~Copied'
      BY <2>1, <3>2 DEF Copied
    <3>9. QED
      BY <2>4, <2>5, <3>7, <3>8 DEF RunningSound
  <2>9. CASE opc # "running" /\ opc' # "queue"
    <3>1. Through("running")' = Through("running")
      BY <1>6, <2>3, <2>9, ThroughStep DEF Counters
    <3>2. snapshot'.running <= Cardinality({w \in Active' : w <= Through("running")'})
      BY <2>5, <2>6, <2>7, <2>9, <3>1 DEF Scanned
    <3>3. ~Copied'
      BY <2>1, <2>9 DEF Copied
    <3>4. QED
      BY <2>4, <2>5, <3>2, <3>3 DEF RunningSound
  <2>10. CASE opc' = "queue"
    <3>1. Through("running") = scan /\ opc = "accounting_overflow"
      BY <1>6, <2>10, ThroughStep DEF Counters
    <3>2. /\ Cardinality(Scanned(scan)) \in Nat
          /\ Cardinality(Scanned(scan)) <= active_worker_count
      BY <1>1, <2>3, ScannedFacts
    <3>3. active_worker_count \in Nat
      BY <1>1 DEF TypeOK
    <3>4. snapshot'.running <= snapshot'.active
      BY <2>2, <2>4, <2>6, <2>7, <3>1, <3>2, <3>3
    <3>5. QED
      BY <1>2, <2>10, <3>4 DEF RunningSound
  <2>11. QED
    BY <2>8, <2>9, <2>10
<1>7. CASE UNCHANGED vars /\ SkipWorker
  <2>1. opc' = "queue" /\ snapshot'.running = 0 /\ snapshot'.active = 0
    BY <1>2, <1>7, WorkerSkipped
  <2>2. QED
    BY <1>2, <2>1 DEF RunningSound
<1>8. CASE UNCHANGED vars /\ CaptureQueue
  <2>1. /\ opc = "queue" /\ opc' = "captured"
        /\ \A f \in DOMAIN snapshot : f \notin {"size", "high_water"} => snapshot'[f] = snapshot[f]
    BY <1>8, QueueCaptured
  <2>2. snapshot'.running = snapshot.running /\ snapshot'.active = snapshot.active
    BY <1>2, <2>1 DEF Standing, Copied
  <2>3. QED
    BY <1>2, <2>1, <2>2 DEF RunningSound, Copied
<1>9. CASE opc' = "idle"
  BY <1>9 DEF RunningSound, Copied, LoadLabels, Counters
<1>10. QED
  BY <1>3, <1>4, <1>5, <1>6, <1>7, <1>8, <1>9, ObserverCases

-----------------------------------------------------------------------------
(* Counts that grow add up to more, in any stretch of the workers. *)
LEMMA SumMonotone ==
    ASSUME NEW f \in [Workers -> Nat], NEW g \in [Workers -> Nat],
           \A w \in Workers : f[w] <= g[w],
           NEW m \in 0..WorkerCount, NEW n \in 0..WorkerCount, m <= n
    PROVE  Sum(f)[n] - Sum(f)[m] <= Sum(g)[n] - Sum(g)[m]
<1>1. /\ \A i \in 0..WorkerCount : Sum(f)[i] \in Nat /\ Sum(g)[i] \in Nat
      /\ \A i \in Workers : /\ i - 1 \in 0..WorkerCount
                            /\ Sum(f)[i] = Sum(f)[i - 1] + f[i]
                            /\ Sum(g)[i] = Sum(g)[i - 1] + g[i]
  BY SumFacts
<1> DEFINE Short == {i \in 0..WorkerCount :
                        m <= i /\ ~(Sum(f)[i] - Sum(f)[m] <= Sum(g)[i] - Sum(g)[m])}
<1>2. SUFFICES Short = {}
  OBVIOUS
<1>3. SUFFICES ASSUME Short # {} PROVE FALSE
  OBVIOUS
<1>4. PICK k \in Short : \A i \in Short : k <= i
  <2>1. Short \subseteq Nat
    BY SchedulerAssumption
  <2>2. QED
    BY <1>3, <2>1, LeastNumber
<1>5. k # m
  BY <1>1, <1>4
<1>6. k \in Workers /\ k - 1 \in 0..WorkerCount /\ m <= k - 1 /\ k - 1 \notin Short
  BY <1>4, <1>5, SchedulerAssumption DEF Workers
<1>7. Sum(f)[k - 1] - Sum(f)[m] <= Sum(g)[k - 1] - Sum(g)[m]
  BY <1>6
<1>8. /\ Sum(f)[k] = Sum(f)[k - 1] + f[k] /\ Sum(g)[k] = Sum(g)[k - 1] + g[k]
      /\ f[k] <= g[k] /\ f[k] \in Nat /\ g[k] \in Nat
  BY <1>1, <1>6
<1>9. /\ Sum(f)[k - 1] \in Nat /\ Sum(g)[k - 1] \in Nat /\ Sum(f)[m] \in Nat /\ Sum(g)[m] \in Nat
  BY <1>1, <1>6
<1>10. Sum(f)[k] - Sum(f)[m] <= Sum(g)[k] - Sum(g)[m]
  <2> DEFINE a == Sum(f)[k - 1] b == Sum(g)[k - 1] c == Sum(f)[m] d == Sum(g)[m]
  <2>1. a - c <= b - d /\ a \in Nat /\ b \in Nat /\ c \in Nat /\ d \in Nat
    BY <1>7, <1>9
  <2> HIDE DEF a, b, c, d
  <2>2. (a + f[k]) - c <= (b + g[k]) - d
    BY <1>8, <2>1
  <2>3. QED
    BY <1>8, <2>2 DEF a, b, c, d
<1>11. QED
  BY <1>4, <1>10

(* Saturation keeps the order. *)
LEMMA SaturatedOrder ==
    ASSUME NEW m \in Nat, NEW n \in Nat
    PROVE  /\ Saturated(m) \in 0..CounterMax
           /\ m <= n => Saturated(m) <= Saturated(n)
           /\ m <= CounterMax => Saturated(m) = m
BY SchedulerAssumption DEF Saturated

(* What one load makes of the bounds on a counter. *)
LEMMA LoadKeepsBounds ==
    ASSUME NEW s \in 0..CounterMax, NEW v \in Nat, NEW p \in Nat, NEW b \in Nat, NEW t \in Nat,
           v <= p, Saturated(b) <= Saturated(s + p), s <= Saturated(t)
    PROVE  /\ Saturated(b) <= Saturated(add_saturating(s, v) + (p - v))
           /\ add_saturating(s, v) <= Saturated(t + v)
BY SchedulerAssumption DEF Saturated, add_saturating, SumOverflows

(* Callbacks that have returned are never uncounted. *)
LEMMA TallyGrows ==
    ASSUME TasksInv, [Next]_vars, NEW c \in Outcomes
    PROVE  tally[c] \in Nat /\ tally'[c] \in Nat /\ tally[c] <= tally'[c]
<1>1. c \in Aggregated /\ c # "dequeued" /\ c # "started"
  BY DEF Outcomes, Aggregated, Counters
<1>2. Happened(c) = tally[c] /\ Happened(c)' = tally'[c]
  BY <1>1 DEF Happened
<1>3. QED
  BY <1>1, <1>2, EventStep

(* As long as the arrays exist no count of a worker is taken back. *)
LEMMA CountsGrow ==
    ASSUME TasksInv, [Next]_vars, allocated', NEW c \in Aggregated, NEW w \in Workers
    PROVE  context[w][c] <= context'[w][c]
<1>1. TypeOK /\ TypeOK'
  BY TypeStep DEF TasksInv, LifeInv, BaseInv
<1>2. c \in Counters /\ c # "running"
  BY DEF Aggregated
<1>3. context[w][c] \in 0..CounterMax /\ context'[w][c] \in 0..CounterMax
  BY <1>1, <1>2 DEF TypeOK
<1>4. ASSUME NEW v \in Workers, NEW b \in Counters, Count(v, b)
      PROVE  context[w][c] <= context'[w][c]
  <2>1. context' = [context EXCEPT ![v][b] = Increment(context[v][b])]
    BY <1>4 DEF Count
  <2>2. context'[w][c] = IF v = w /\ b = c THEN Increment(context[w][c]) ELSE context[w][c]
    BY <1>1, <1>2, <2>1 DEF TypeOK
  <2>3. QED
    BY <1>3, <2>2 DEF Increment
<1>5. ASSUME NEW v \in Workers, RunningMoves(v) PROVE context'[w][c] = context[w][c]
  BY <1>1, <1>2, <1>5 DEF RunningMoves, WorkerCountsStart, WorkerCountsStop, Count, TypeOK
<1>6. CASE FinishRelease
  <2>1. ~FreeArrays
    BY DEF FreeArrays
  <2>2. UNCHANGED contextVars
    BY <1>6, <2>1 DEF FinishRelease
  <2>3. QED
    BY <1>3, <2>2 DEF contextVars
<1>7. CASE UNCHANGED contextVars
  BY <1>3, <1>7 DEF contextVars
<1>8. CASE \E v \in Workers, b \in Aggregated : Event(v, b)
  <2>1. PICK v \in Workers, b \in Aggregated : Event(v, b)
    BY <1>8
  <2>2. Count(v, b) /\ b \in Counters
    BY <2>1 DEF Event, Aggregated
  <2>3. QED
    BY <1>4, <2>2
<1>9. QED
  BY <1>3, <1>5, <1>6, <1>7, <1>8, EventStep DEF NoEvent

(* Workers that were not started have counted nothing. *)
LEMMA NothingBeyond ==
    ASSUME AccountsInv, NEW c \in Counters, NEW w \in Workers, w > started_worker_count
    PROVE  context[w][c] = 0
<1>1. Arrays /\ Cleared
  BY DEF AccountsInv, TasksInv, LifeInv
<1>2. CASE allocated
  <2>1. pc[w] = "none"
    BY <1>1, <1>2 DEF Arrays
  <2>2. QED
    BY <1>1, <2>1 DEF Cleared
<1>3. CASE ~allocated
  BY <1>1, <1>3 DEF Cleared
<1>4. QED
  BY <1>2, <1>3

-----------------------------------------------------------------------------
(* What the workers have counted shows, up to saturation, what returned. *)
LEMMA ShownOutcome ==
    ASSUME AccountsInv, NEW c \in Outcomes
    PROVE  /\ Saturated(Shown(c)) = Saturated(tally[c])
           /\ tally[c] \in Nat /\ Shown(c) \in Nat /\ total[c] \in 0..CounterMax
           /\ CountsOf(c) \in [Workers -> Nat]
           /\ Shown(c) = total[c] + Sum(CountsOf(c))[WorkerCount]
           /\ \A n \in 0..WorkerCount : Sum(CountsOf(c))[n] \in Nat
<1>1. TypeOK /\ CountersExact
  BY DEF AccountsInv, TasksInv, LifeInv, BaseInv
<1>2. c \in Counters /\ c \in Aggregated /\ c \in Tallied /\ c # "dequeued" /\ c # "started"
  BY DEF Outcomes, Aggregated, Counters, Tallied
<1>3. Happened(c) = tally[c]
  BY <1>2 DEF Happened
<1>4. CountsOf(c) \in [Workers -> Nat] /\ Shown(c) \in Nat /\ total[c] \in 0..CounterMax
  BY <1>1, <1>2, CountsType
<1>5. \A n \in 0..WorkerCount : Sum(CountsOf(c))[n] \in Nat
  BY <1>4, SumFacts
<1>6. tally[c] \in Nat
  BY <1>1, <1>2 DEF TypeOK
<1>7. Saturated(Shown(c)) = Saturated(tally[c])
  BY <1>1, <1>2, <1>3 DEF CountersExact
<1>8. QED
  BY <1>4, <1>5, <1>6, <1>7 DEF Shown

(* A step of the scheduler: more may be counted, and more be there to load. *)
LEMMA OutcomeBeside ==
    ASSUME AccountsInv, Standing, NEW c \in Outcomes, OutcomeSound(c), [Next]_vars, Beside
    PROVE  OutcomeSound(c)'
<1>1. TasksInv /\ LifeInv /\ TypeOK /\ Handles /\ AccountsInv'
  BY StepAccounts DEF AccountsInv, TasksInv, LifeInv, BaseInv
<1>2. UNCHANGED <<opc, scan, snapshot, before>>
  BY DEF Beside, snapshotVars
<1>3. tally[c] \in Nat /\ tally'[c] \in Nat /\ tally[c] <= tally'[c]
  BY <1>1, TallyGrows
<1>4. c \in Counters
  BY DEF Outcomes, Counters
<1>5. opc # "idle" => before'[c] \in Nat /\ before'[c] <= tally'[c]
  BY <1>2, <1>3 DEF OutcomeSound
<1>6. opc' = "no_worker" => before'[c] = 0
  BY <1>2 DEF OutcomeSound
<1>7. Copied' => Saturated(before'[c]) <= snapshot'[c] /\ snapshot'[c] <= Saturated(tally'[c])
  <2>1. Saturated(tally[c]) \in Int /\ Saturated(tally'[c]) \in Int
        /\ Saturated(tally[c]) <= Saturated(tally'[c])
    BY <1>3, SaturatedOrder
  <2>2. Copied' => Copied /\ snapshot[c] \in Int
    BY <1>2, <1>4 DEF Copied, Standing
  <2>3. Copied => Saturated(before[c]) <= snapshot[c] /\ snapshot[c] <= Saturated(tally[c])
    BY DEF OutcomeSound
  <2>4. QED
    BY <1>2, <2>1, <2>2, <2>3
<1>8. ASSUME opc \in LoadLabels
      PROVE  /\ Saturated(before'[c]) <= Saturated(snapshot'[c] + Pending(c)')
             /\ snapshot'[c] <= Saturated(total'[c] + Sum(CountsOf(c)')[Through(c)'])
  <2> DEFINE f == CountsOf(c)  g == CountsOf(c)'  n == Through(c)
  <2>1. UNCHANGED guardedVars /\ total' = total
    BY <1>8 DEF Beside, guardedVars
  <2>2. scan \in 1..started_worker_count /\ scan \in 1..WorkerCount /\ opc # "idle"
    BY <1>1, <1>8, SchedulerAssumption DEF Standing, TypeOK, LoadLabels, Counters
  <2>3. allocated' /\ c \in Aggregated
    BY <1>1, <2>1, <2>2 DEF Handles, guardedVars, Outcomes, Aggregated, Counters
  <2>4. \A w \in Workers : context[w][c] <= context'[w][c]
    BY <1>1, <2>3, CountsGrow
  <2>5. n \in 0..WorkerCount /\ Through(c)' = n /\ WorkerCount \in 0..WorkerCount
    BY <1>2, <2>2, SchedulerAssumption DEF Through
  <2>6. f \in [Workers -> Nat] /\ \A i \in 0..WorkerCount : Sum(f)[i] \in Nat
    BY ShownOutcome
  <2>7. g \in [Workers -> Nat] /\ \A i \in 0..WorkerCount : Sum(g)[i] \in Nat
    <3>1. TypeOK'
      BY <1>1 DEF AccountsInv, TasksInv, LifeInv, BaseInv
    <3>2. g \in [Workers -> Nat]
      BY <1>4, <3>1 DEF CountsOf, TypeOK
    <3>3. QED
      BY <3>2, SumFacts
  <2>8. \A w \in Workers : f[w] <= g[w]
    BY <2>4 DEF CountsOf
  <2>9. Pending(c) = Sum(f)[WorkerCount] - Sum(f)[n] /\ Pending(c)' = Sum(g)[WorkerCount] - Sum(g)[n]
    BY <2>5 DEF Pending
  <2> HIDE DEF f, g, n
  <2>10. 0 \in 0..WorkerCount /\ 0 <= n /\ n <= WorkerCount
    BY <2>5, SchedulerAssumption
  <2>11. Sum(f)[WorkerCount] - Sum(f)[n] <= Sum(g)[WorkerCount] - Sum(g)[n]
    BY <2>5, <2>6, <2>7, <2>8, <2>10, SumMonotone
  <2>12. Sum(f)[n] <= Sum(g)[n]
    <3>1. Sum(f)[n] - Sum(f)[0] <= Sum(g)[n] - Sum(g)[0]
      BY <2>5, <2>6, <2>7, <2>8, <2>10, SumMonotone
    <3>2. Sum(f)[0] = 0 /\ Sum(g)[0] = 0
      BY <2>6, <2>7, SumFacts
    <3>3. QED
      BY <2>5, <2>6, <2>7, <3>1, <3>2
  <2>13. Sum(f)[n] <= Sum(f)[WorkerCount]
    BY <2>5, <2>6, <2>10, SumGrows
  <2>14. snapshot[c] \in 0..CounterMax /\ total[c] \in 0..CounterMax /\ before[c] \in Nat
    BY <1>4, <1>8, <2>2, ShownOutcome DEF Standing, OutcomeSound
  <2>15. /\ Saturated(before[c]) <= Saturated(snapshot[c] + Pending(c))
         /\ snapshot[c] <= Saturated(total[c] + Sum(f)[n])
    BY <1>8 DEF OutcomeSound, f, n
  <2>16. Saturated(snapshot[c] + Pending(c)) <= Saturated(snapshot[c] + Pending(c)')
    <3>1. Pending(c) \in Nat /\ Pending(c)' \in Nat /\ Pending(c) <= Pending(c)'
      BY <2>5, <2>6, <2>7, <2>9, <2>11, <2>13
    <3>2. snapshot[c] + Pending(c) \in Nat /\ snapshot[c] + Pending(c)' \in Nat
          /\ snapshot[c] + Pending(c) <= snapshot[c] + Pending(c)'
      BY <2>14, <3>1
    <3>3. QED
      BY <3>2, SaturatedOrder
  <2>17. Saturated(total[c] + Sum(f)[n]) <= Saturated(total[c] + Sum(g)[n])
    <3>1. total[c] + Sum(f)[n] \in Nat /\ total[c] + Sum(g)[n] \in Nat
          /\ total[c] + Sum(f)[n] <= total[c] + Sum(g)[n]
      BY <2>5, <2>6, <2>7, <2>12, <2>14
    <3>2. QED
      BY <3>1, SaturatedOrder
  <2>18. /\ Saturated(before[c]) \in Int /\ Saturated(snapshot[c] + Pending(c)) \in Int
         /\ Saturated(snapshot[c] + Pending(c)') \in Int
         /\ Saturated(total[c] + Sum(f)[n]) \in Int /\ Saturated(total[c] + Sum(g)[n]) \in Int
    <3>1. Pending(c) \in Nat /\ Pending(c)' \in Nat
      BY <2>5, <2>6, <2>7, <2>9, <2>11, <2>13
    <3>2. /\ snapshot[c] + Pending(c) \in Nat /\ snapshot[c] + Pending(c)' \in Nat
          /\ total[c] + Sum(f)[n] \in Nat /\ total[c] + Sum(g)[n] \in Nat
      BY <2>5, <2>6, <2>7, <2>14, <3>1
    <3>3. QED
      BY <2>14, <3>2, SaturatedOrder
  <2>19. Saturated(before[c]) <= Saturated(snapshot[c] + Pending(c)')
    BY <2>15, <2>16, <2>18
  <2>20. snapshot[c] <= Saturated(total[c] + Sum(g)[n])
    BY <2>14, <2>15, <2>17, <2>18
  <2>21. QED
    BY <1>2, <2>1, <2>5, <2>19, <2>20 DEF g, n
<1>9. QED
  <2>1. opc' # "idle" => opc # "idle"
    BY <1>2
  <2>2. opc' \in LoadLabels => opc \in LoadLabels
    BY <1>2
  <2>3. QED
    BY <1>2, <1>5, <1>6, <1>7, <1>8, <2>1, <2>2 DEF OutcomeSound

(* The beginning of a capture. *)
LEMMA OutcomeBegins ==
    ASSUME AccountsInv, NEW c \in Outcomes, UNCHANGED vars, CaptureLifecycle
    PROVE  OutcomeSound(c)'
<1>1. TypeOK /\ Returned /\ NothingYet
  BY DEF AccountsInv, TasksInv, LifeInv, BaseInv
<1>2. /\ implementation /\ before'[c] = tally[c]
      /\ opc' = IF worker_sync_initialized THEN "worker" ELSE "no_worker"
  BY <1>1, LifecycleCaptured DEF TypeOK
<1>3. tally[c] \in Nat /\ tally'[c] = tally[c]
  BY ShownOutcome, VarsKept
<1>4. ~worker_sync_initialized => tally[c] = 0
  <2>1. SUFFICES ASSUME ~worker_sync_initialized PROVE tally[c] = 0
    OBVIOUS
  <2>2. created_worker_count = 0 /\ Ran = {}
    BY <1>1, <1>2, <2>1 DEF NothingYet
  <2>3. Cardinality(Ran) = 0
    BY <2>2, FS_EmptySet
  <2>4. tally["succeeded"] \in Nat /\ tally["failed"] \in Nat /\ Cardinality(InCallback) \in Nat
    BY <1>1, CountedFinite DEF TypeOK, Tallied
  <2>5. tally["succeeded"] = 0 /\ tally["failed"] = 0
    BY <1>1, <2>3, <2>4 DEF Returned
  <2>6. QED
    BY <2>5 DEF Outcomes
<1>5. opc' \notin LoadLabels /\ ~Copied'
  BY <1>2 DEF LoadLabels, Counters, Copied
<1>6. opc' = "no_worker" => before'[c] = 0
  BY <1>2, <1>4
<1>7. QED
  BY <1>2, <1>3, <1>5, <1>6 DEF OutcomeSound

(* The totals, and what is still to be loaded, show what had returned. *)
LEMMA OutcomeTotals ==
    ASSUME AccountsInv, NEW c \in Outcomes, OutcomeSound(c), UNCHANGED vars, CaptureWorker
    PROVE  OutcomeSound(c)'
<1>1. TypeOK
  BY DEF AccountsInv, TasksInv, LifeInv, BaseInv
<1>2. c \in Counters /\ c \in {"succeeded", "failed", "running"}
  BY DEF Outcomes, Counters
<1>3. /\ opc = "worker" /\ snapshot'[c] = total[c] /\ scan' = 1 /\ before' = before
      /\ opc' = IF started_worker_count = 0 THEN "queue" ELSE "dequeued"
  BY <1>2, WorkerCaptured
<1>4. before[c] \in Nat /\ before[c] <= tally[c]
  BY <1>3 DEF OutcomeSound
<1>5. UNCHANGED <<tally, total>> /\ CountsOf(c)' = CountsOf(c)
  BY VarsKept DEF CountsOf
<1>6. /\ Saturated(Shown(c)) = Saturated(tally[c])
      /\ tally[c] \in Nat /\ Shown(c) \in Nat /\ total[c] \in 0..CounterMax
      /\ CountsOf(c) \in [Workers -> Nat]
      /\ Shown(c) = total[c] + Sum(CountsOf(c))[WorkerCount]
  BY ShownOutcome
<1>7. Saturated(before[c]) <= Saturated(tally[c])
  BY <1>4, <1>6, SaturatedOrder
<1>8. CASE started_worker_count = 0
  <2>1. \A w \in Workers : context[w][c] = 0
    BY <1>2, <1>8, NothingBeyond DEF Workers
  <2>2. Shown(c) = total[c]
    BY <1>1, <1>2, <2>1, NothingCounted
  <2>3. total[c] \in Nat /\ total[c] <= CounterMax
    BY <1>6, SchedulerAssumption
  <2>4. Saturated(tally[c]) = total[c]
    BY <1>6, <2>2, <2>3, SaturatedOrder
  <2>5. opc' = "queue" /\ "queue" \notin LoadLabels
    BY <1>3, <1>8 DEF LoadLabels, Counters
  <2>6. QED
    BY <1>3, <1>4, <1>5, <1>7, <2>3, <2>4, <2>5 DEF OutcomeSound
<1>9. CASE started_worker_count # 0
  <2>1. opc' = "dequeued" /\ ~Copied'
    BY <1>3, <1>9 DEF Copied
  <2>2. Through(c)' = 0
    BY <1>2, <1>3, <2>1, ThroughFirst
  <2>3. Sum(CountsOf(c))[0] = 0
    BY <1>6, SumFacts
  <2>4. Sum(CountsOf(c))[WorkerCount] \in Nat
    BY ShownOutcome, SchedulerAssumption
  <2>5. Pending(c)' = Sum(CountsOf(c))[WorkerCount]
    BY <1>5, <2>2, <2>3, <2>4 DEF Pending
  <2>6. Saturated(before'[c]) <= Saturated(snapshot'[c] + Pending(c)')
    BY <1>3, <1>6, <1>7, <2>5
  <2>7. snapshot'[c] <= Saturated(total'[c] + Sum(CountsOf(c)')[Through(c)'])
    <3>1. total[c] \in Nat /\ total[c] <= CounterMax /\ total[c] + 0 = total[c]
      BY <1>6, SchedulerAssumption
    <3>2. Saturated(total[c] + 0) = total[c]
      BY <3>1, SaturatedOrder
    <3>3. QED
      BY <1>3, <1>5, <2>2, <2>3, <3>1, <3>2
  <2>8. opc' # "no_worker"
    BY <2>1
  <2>9. QED
    BY <1>3, <1>4, <1>5, <2>1, <2>6, <2>7, <2>8 DEF OutcomeSound
<1>10. QED
  BY <1>8, <1>9

(* A load moves a count from what is pending to what is captured. *)
LEMMA OutcomeLoads ==
    ASSUME AccountsInv, Standing, NEW c \in Outcomes, OutcomeSound(c), UNCHANGED vars, LoadCounter
    PROVE  OutcomeSound(c)'
<1>1. TypeOK
  BY DEF AccountsInv, TasksInv, LifeInv, BaseInv
<1>2. /\ c \in Counters /\ c \in {"succeeded", "failed", "running"} /\ c \in WorkerNames
      /\ c # "overflow_detected"
  BY DEF Outcomes, Counters, WorkerNames
<1>3. /\ opc \in LoadLabels /\ before' = before /\ opc' \notin {"captured", "no_worker", "idle"}
      /\ \A f \in DOMAIN snapshot : f # opc /\ f # "overflow_detected" => snapshot'[f] = snapshot[f]
  BY CounterLoaded
<1>4. /\ WorkerNames \subseteq DOMAIN snapshot /\ scan \in 1..started_worker_count
      /\ snapshot[c] \in 0..CounterMax /\ opc # "idle"
  BY <1>2, <1>3 DEF Standing, LoadLabels, Counters
<1>5. scan \in Workers /\ scan \in Nat
  BY <1>1, <1>4, SchedulerAssumption DEF TypeOK, Workers
<1> DEFINE f == CountsOf(c)
<1>6. /\ Saturated(Shown(c)) = Saturated(tally[c])
      /\ tally[c] \in Nat /\ Shown(c) \in Nat /\ total[c] \in 0..CounterMax
      /\ f \in [Workers -> Nat]
      /\ Shown(c) = total[c] + Sum(f)[WorkerCount]
      /\ \A n \in 0..WorkerCount : Sum(f)[n] \in Nat
  BY ShownOutcome
<1>7. UNCHANGED <<tally, total>> /\ CountsOf(c)' = f
  BY VarsKept DEF CountsOf
<1>8. before[c] \in Nat /\ before[c] <= tally[c]
  BY <1>4 DEF OutcomeSound
<1>9. /\ Saturated(before[c]) <= Saturated(snapshot[c] + Pending(c))
      /\ snapshot[c] <= Saturated(total[c] + Sum(f)[Through(c)])
  BY <1>3 DEF OutcomeSound
<1>10. Pending(c) = Sum(f)[WorkerCount] - Sum(f)[Through(c)]
  BY DEF Pending
<1>11. WorkerCount \in 0..WorkerCount /\ scan \in 0..WorkerCount /\ scan <= WorkerCount
       /\ scan - 1 \in 0..WorkerCount
  BY <1>5, SchedulerAssumption DEF Workers
<1>12. f[scan] = context[scan][c]
  BY <1>5 DEF CountsOf
<1>13. CASE opc = c
  <2>1. Through(c) = scan - 1 /\ Through(c)' = scan /\ opc' # "queue"
    BY <1>2, <1>13, ThroughStep
  <2>2. snapshot'[c] = add_saturating(snapshot[c], context[scan][c])
    BY <1>2, <1>13, CounterLoaded DEF Outcomes
  <2>3. Pending(c)' = Sum(f)[WorkerCount] - Sum(f)[scan]
    BY <1>7, <2>1 DEF Pending
  <2> HIDE DEF f
  <2>4. Sum(f)[scan] = Sum(f)[scan - 1] + f[scan] /\ f[scan] \in Nat
    BY <1>5, <1>6, SumFacts
  <2>5. Sum(f)[scan] <= Sum(f)[WorkerCount]
    BY <1>6, <1>11, SumGrows
  <2> DEFINE p == Pending(c)  v == f[scan]  t == total[c] + Sum(f)[scan - 1]
  <2>6. Sum(f)[scan - 1] \in Nat /\ Sum(f)[scan] \in Nat /\ Sum(f)[WorkerCount] \in Nat
    BY <1>6, <1>11
  <2>7. p \in Nat /\ v \in Nat /\ t \in Nat /\ v <= p /\ Pending(c)' = p - v
    BY <1>6, <1>10, <2>1, <2>3, <2>4, <2>5, <2>6
  <2>8. Saturated(before[c]) <= Saturated(snapshot[c] + p) /\ snapshot[c] <= Saturated(t)
    BY <1>9, <2>1
  <2>9. t + v = total[c] + Sum(f)[scan]
    BY <1>6, <2>4, <2>6
  <2> HIDE DEF p, v, t
  <2>10. /\ Saturated(before[c]) <= Saturated(add_saturating(snapshot[c], v) + (p - v))
         /\ add_saturating(snapshot[c], v) <= Saturated(t + v)
    BY <1>4, <1>8, <2>7, <2>8, LoadKeepsBounds
  <2>11. snapshot'[c] = add_saturating(snapshot[c], v)
    BY <1>12, <2>2 DEF v
  <2>12. /\ Saturated(before'[c]) <= Saturated(snapshot'[c] + Pending(c)')
         /\ snapshot'[c] <= Saturated(total'[c] + Sum(CountsOf(c)')[Through(c)'])
    BY <1>3, <1>7, <2>1, <2>7, <2>9, <2>10, <2>11
  <2>13. ~Copied' /\ opc' # "no_worker"
    BY <1>3, <2>1 DEF Copied
  <2>14. QED
    BY <1>3, <1>7, <1>8, <2>12, <2>13 DEF OutcomeSound
<1>14. CASE opc # c /\ opc' # "queue"
  <2>1. Through(c)' = Through(c)
    BY <1>2, <1>5, <1>14, ThroughStep
  <2>2. snapshot'[c] = snapshot[c]
    BY <1>2, <1>3, <1>4, <1>14
  <2>3. Pending(c)' = Pending(c)
    BY <1>7, <2>1 DEF Pending
  <2>4. /\ Saturated(before'[c]) <= Saturated(snapshot'[c] + Pending(c)')
        /\ snapshot'[c] <= Saturated(total'[c] + Sum(CountsOf(c)')[Through(c)'])
    BY <1>3, <1>7, <1>9, <2>1, <2>2, <2>3
  <2>5. ~Copied' /\ opc' # "no_worker"
    BY <1>3, <1>14 DEF Copied
  <2>6. QED
    BY <1>3, <1>7, <1>8, <2>4, <2>5 DEF OutcomeSound
<1>15. CASE opc' = "queue"
  <2>1. Through(c) = scan /\ scan = started_worker_count /\ opc = "accounting_overflow"
    BY <1>2, <1>15, ThroughStep
  <2>2. snapshot'[c] = snapshot[c]
    BY <1>2, <1>3, <1>4, <2>1 DEF Outcomes
  <2>3. \A w \in Workers : w > scan => f[w] = 0
    BY <1>2, <2>1, NothingBeyond DEF CountsOf
  <2> HIDE DEF f
  <2>4. Sum(f)[WorkerCount] = Sum(f)[scan]
    BY <1>6, <1>11, <2>3, SumOfZeros
  <2>5. Pending(c) = 0
    BY <1>6, <1>10, <1>11, <2>1, <2>4
  <2>6. snapshot[c] \in Nat /\ snapshot[c] <= CounterMax /\ snapshot[c] + 0 = snapshot[c]
    BY <1>4, SchedulerAssumption
  <2>7. Saturated(snapshot[c]) = snapshot[c]
    BY <2>6, SaturatedOrder
  <2>8. Saturated(before[c]) <= snapshot[c]
    BY <1>9, <2>5, <2>6, <2>7
  <2>9. snapshot[c] <= Saturated(tally[c])
    BY <1>6, <1>9, <2>1, <2>4
  <2>10. "queue" \notin LoadLabels
    BY DEF LoadLabels, Counters
  <2>11. QED
    BY <1>3, <1>7, <1>8, <1>15, <2>2, <2>8, <2>9, <2>10 DEF OutcomeSound
<1>16. QED
  BY <1>13, <1>14, <1>15

(* No callback is lost or counted twice on the way. *)
LEMMA OutcomesKept ==
    ASSUME AccountsInv, Standing, OutcomesSound, [ObservedNext]_<<vars, snapshotVars>>
    PROVE  OutcomesSound'
<1> SUFFICES ASSUME NEW c \in Outcomes PROVE OutcomeSound(c)'
  BY DEF OutcomesSound
<1>1. OutcomeSound(c)
  BY DEF OutcomesSound
<1>2. c \in Counters /\ c \in WorkerNames /\ c # "overflow_detected" /\ c \notin {"size", "high_water"}
  BY DEF Outcomes, Counters, WorkerNames
<1>3. "queue" \notin LoadLabels /\ "captured" \notin LoadLabels /\ "idle" \notin LoadLabels
  BY DEF LoadLabels, Counters
<1>4. CASE UNCHANGED vars /\ SkipWorker
  <2>1. opc = "no_worker" /\ opc' = "queue" /\ before' = before /\ snapshot'[c] = 0
    BY <1>2, <1>4, WorkerSkipped
  <2>2. before[c] = 0 /\ tally[c] \in Nat /\ tally'[c] = tally[c]
    BY <1>1, <1>4, <2>1, ShownOutcome, VarsKept DEF OutcomeSound
  <2>3. Saturated(0) = 0 /\ 0 <= Saturated(tally[c])
    BY <2>2, SchedulerAssumption DEF Saturated
  <2>4. QED
    BY <1>3, <2>1, <2>2, <2>3 DEF OutcomeSound
<1>5. CASE UNCHANGED vars /\ CaptureQueue
  <2>1. /\ opc = "queue" /\ opc' = "captured" /\ before' = before
        /\ \A f \in DOMAIN snapshot : f \notin {"size", "high_water"} => snapshot'[f] = snapshot[f]
    BY <1>5, QueueCaptured
  <2>2. snapshot'[c] = snapshot[c]
    BY <1>2, <2>1 DEF Standing, Copied
  <2>3. tally'[c] = tally[c]
    BY <1>5, VarsKept
  <2>4. QED
    BY <1>1, <1>3, <2>1, <2>2, <2>3 DEF OutcomeSound, Copied
<1>6. CASE opc' = "idle"
  BY <1>3, <1>6 DEF OutcomeSound, Copied
<1>7. QED
  BY <1>1, <1>4, <1>5, <1>6, ObserverCases, OutcomeBeside, OutcomeBegins, OutcomeTotals, OutcomeLoads

-----------------------------------------------------------------------------
(* Has some count become too large for its counter? *)
LEMMA TooLargeFacts ==
    ASSUME TasksInv
    PROVE  /\ {k \in Tasks : executed[k] > 0} = Ran
           /\ Cardinality(Ran) > CounterMax => SomeCountTooLarge
           /\ \A c \in Tallied : tally[c] > CounterMax => SomeCountTooLarge
<1>1. \A k \in Tasks : executed[k] > 0 <=> executed[k] = 1
  BY DEF TasksInv, Place
<1>2. {k \in Tasks : executed[k] > 0} = Ran
  BY <1>1 DEF Ran
<1>3. QED
  BY <1>2 DEF SomeCountTooLarge

(* Nothing that happened is taken back. *)
LEMMA TalliesGrow ==
    ASSUME TypeOK, [Next]_vars, NEW c \in Tallied
    PROVE  tally[c] \in Nat /\ tally[c] <= tally'[c]
<1>1. tally \in [Tallied -> Nat] /\ active_worker_count \in Nat
  BY DEF TypeOK
<1>2. ASSUME NEW b, Tally(b) PROVE tally[c] <= tally'[c]
  BY <1>1, <1>2 DEF Tally
<1>3. ASSUME NEW w \in Workers, WorkerExits(w) PROVE tally[c] <= tally'[c]
  <2>1. PICK n \in 0..2 : tally' = [tally EXCEPT !["runtime_failures"] = @ + n]
    BY <1>1, <1>3, ExitFacts
  <2>2. QED
    BY <1>1, <2>1
<1>4. \/ UNCHANGED tally
      \/ \E b : Tally(b)
      \/ \E w \in Workers : WorkerExits(w)
  BY HistoryFrame DEF history, deregister_submitter, WorkerExecutes, StartCreates, JoinWorker,
        NoJoinFailure, CountJoinFailure, register_submitter, CallbackReturns
<1>5. QED
  BY <1>1, <1>2, <1>3, <1>4

(* So a count that has become too large stays so. *)
LEMMA TooLargeStays ==
    ASSUME TasksInv, [Next]_vars, SomeCountTooLarge
    PROVE  SomeCountTooLarge'
<1>1. TypeOK /\ TasksInv'
  BY StepTasks DEF TasksInv, LifeInv, BaseInv
<1>2. CounterMax \in Nat
  BY SchedulerAssumption
<1>3. CASE \E c \in Tallied : tally[c] > CounterMax
  <2>1. PICK c \in Tallied : tally[c] > CounterMax
    BY <1>3
  <2>2. tally[c] \in Nat /\ tally[c] <= tally'[c] /\ tally'[c] \in Nat
    BY <1>1, TalliesGrow, TypeStep DEF TypeOK, TasksInv, LifeInv, BaseInv
  <2>3. QED
    BY <1>2, <2>1, <2>2 DEF SomeCountTooLarge
<1>4. CASE Cardinality(Ran) > CounterMax
  <2>1. Ran \subseteq Ran' /\ Ran' \in SUBSET Tasks
    BY EventStep DEF Ran
  <2>2. IsFiniteSet(Ran') /\ Cardinality(Ran') \in Nat /\ Cardinality(Ran) \in Nat
    BY <2>1, CountedFinite, TasksFinite
  <2>3. Cardinality(Ran) <= Cardinality(Ran')
    BY <2>1, <2>2, FS_Subset
  <2>4. {k \in Tasks : executed'[k] > 0} = Ran'
    BY <1>1 DEF TasksInv, Place, Ran
  <2>5. QED
    BY <1>2, <1>4, <2>2, <2>3, <2>4 DEF SomeCountTooLarge
<1>5. QED
  BY <1>3, <1>4, TooLargeFacts DEF SomeCountTooLarge

(* The tasks that workers have taken were submitted, each once. *)
LEMMA TakenSubmitted ==
    ASSUME TasksInv
    PROVE  Cardinality(Ran) + Cardinality(InHand) <= tally["submitted"]
<1> DEFINE H == {k \in Tasks : \E w \in InHand : task[w] = k}
           n == tally["submitted"]
<1>1. TypeOK /\ Submissions /\ Place
  BY DEF TasksInv, LifeInv, BaseInv
<1>2. n \in Nat
  BY <1>1 DEF TypeOK, Tallied
<1>3. \A w \in InHand : task[w] \in Tasks /\ Holds(w, task[w])
  BY <1>1, ThreadKinds DEF TasksInv, LifeInv, BaseInv, QueueUse, InHand, Holds
<1>4. \A k \in H : Held(k)
  BY <1>3 DEF Held, InHand
<1>5. \A k \in Ran \cup H : k \in Tasks /\ k <= n
  <2>1. SUFFICES ASSUME NEW k \in Ran \cup H PROVE k <= n
    BY DEF Ran
  <2>2. Taken(k) /\ k \in Tasks
    BY <1>1, <1>4 DEF Place, Ran
  <2>3. CASE outcome[k] = "OK"
    BY <1>1, <1>2, <2>2, <2>3 DEF Submissions, Tasks
  <2>4. CASE \E t \in Threads : HasPut(t, k)
    <3>1. \E t \in Threads : Offering(t, k)
      BY <2>4 DEF HasPut, Offering, SubmitLabels
    <3>2. QED
      BY <1>1, <2>2, <3>1 DEF Submissions
  <2>5. QED
    BY <2>2, <2>3, <2>4 DEF Taken
<1>6. Ran \cap H = {}
  BY <1>1, <1>4 DEF Place, Ran
<1>7. IsFiniteSet(Ran) /\ IsFiniteSet(H) /\ IsFiniteSet(InHand)
      /\ Cardinality(Ran) \in Nat /\ Cardinality(H) \in Nat /\ Cardinality(InHand) \in Nat
  BY CountedFinite, TasksFinite
<1>8. Cardinality(H) = Cardinality(InHand)
  <2> DEFINE f == [w \in InHand |-> task[w]]
  <2>1. \A v, w \in InHand : task[v] = task[w] => v = w
    BY <1>1, <1>3 DEF Place, InHand
  <2>2. \A w \in InHand : task[w] \in H
    BY <1>3
  <2>3. \A k \in H : \E w \in InHand : task[w] = k
    OBVIOUS
  <2> HIDE DEF H
  <2>4. f \in [InHand -> H] /\ \A w \in InHand : f[w] = task[w]
    BY <2>2
  <2> HIDE DEF f
  <2>5. f \in Bijection(InHand, H)
    BY <2>1, <2>3, <2>4 DEF Bijection, Injection, Surjection, IsInjective
  <2>6. ExistsBijection(InHand, H)
    BY <2>5 DEF ExistsBijection
  <2>7. QED
    BY <1>7, <2>6, FS_Bijection
<1>9. Ran \cup H \subseteq 1..n
  BY <1>2, <1>5 DEF Tasks
<1>10. IsFiniteSet(1..n) /\ Cardinality(1..n) = n
  BY <1>2, FS_Interval
<1> HIDE DEF H, n
<1>11. IsFiniteSet(Ran \cup H) /\ Cardinality(Ran \cup H) <= n
  BY <1>9, <1>10, FS_Subset
<1>12. Cardinality(Ran \cup H) = Cardinality(Ran) + Cardinality(H)
  <2>1. Cardinality(Ran \cup H) = Cardinality(Ran) + Cardinality(H) - Cardinality(Ran \cap H)
    BY <1>7, FS_Union
  <2>2. Cardinality(Ran \cap H) = 0
    BY <1>6, FS_EmptySet
  <2>3. QED
    BY <1>7, <2>1, <2>2
<1>13. QED
  BY <1>8, <1>11, <1>12 DEF n

(* What the counters of the workers mark as too large is too large. *)
LEMMA MarkedTooLarge ==
    ASSUME AccountsInv, Marked
    PROVE  SomeCountTooLarge
<1>1. TasksInv /\ TypeOK /\ TooMany
  BY DEF AccountsInv, OverflowExact, TasksInv, LifeInv, BaseInv
<1>2. CASE \E c \in Failures : tally[c] > CounterMax
  BY <1>1, <1>2, TooLargeFacts DEF Failures, Tallied
<1>3. ASSUME NEW c \in Aggregated, Happened(c) > CounterMax
      PROVE  SomeCountTooLarge
  <2>1. /\ Cardinality(Ran) \in Nat /\ Cardinality(InHand) \in Nat /\ Cardinality(Begun) \in Nat
        /\ tally["submitted"] \in Nat /\ CounterMax \in Nat
    BY <1>1, CountedFinite, SchedulerAssumption DEF TypeOK, Tallied
  <2>2. Cardinality(Begun) <= Cardinality(InHand)
    <3>1. Begun \subseteq InHand
      BY DEF Begun, InHand, TaskInHandLabels
    <3>2. QED
      BY <3>1, CountedFinite, FS_Subset
  <2>3. Cardinality(Ran) + Cardinality(InHand) <= tally["submitted"]
    BY <1>1, TakenSubmitted
  <2>4. CASE c \in {"dequeued", "started"}
    <3>1. tally["submitted"] > CounterMax
      BY <1>3, <2>1, <2>2, <2>3, <2>4 DEF Happened
    <3>2. QED
      BY <1>1, <3>1, TooLargeFacts DEF Tallied
  <2>5. CASE c \in {"succeeded", "failed"}
    BY <1>1, <1>3, <2>5, TooLargeFacts DEF Happened, Tallied
  <2>6. QED
    BY <2>4, <2>5 DEF Aggregated, Counters
<1>4. QED
  BY <1>1, <1>2, <1>3 DEF TooMany

-----------------------------------------------------------------------------
(* A worker that runs a callback has counted its start: what a capture     *)
(* adds up as running can be no more than has been started.                *)
BegunCounted ==
    \A w \in Workers :
        pc[w] = "count_running" \/ context[w]["running"] = 1 => context[w]["started"] > 0

LEMMA BegunCountedKept ==
    ASSUME AccountsInv, BegunCounted, [Next]_vars
    PROVE  BegunCounted'
<1>1. TasksInv /\ LifeInv /\ TypeOK /\ TypeOK' /\ RunningExact /\ AccountsInv'
  BY StepAccounts DEF AccountsInv, TasksInv, LifeInv, BaseInv
<1>2. Handles' /\ Cleared'
  BY <1>1 DEF AccountsInv, TasksInv, LifeInv, BaseInv
<1>3. SUFFICES ASSUME NEW w \in Workers, pc'[w] = "count_running" \/ context'[w]["running"] = 1
               PROVE  context'[w]["started"] > 0
  BY DEF BegunCounted
<1>4. {"started", "running", "dequeued", "succeeded", "failed"} = Counters /\ "started" \in Aggregated
  BY DEF Counters, Aggregated
<1>5. /\ context[w]["started"] \in 0..CounterMax /\ context'[w]["started"] \in 0..CounterMax
      /\ CounterMax \in Nat \ {0}
  BY <1>1, <1>4, SchedulerAssumption DEF TypeOK
<1>6. allocated'
  <2>1. ASSUME ~allocated' PROVE FALSE
    <3>1. started_worker_count' = 0 /\ w \in Nat \ {0}
      BY <1>2, <2>1, ThreadKinds DEF Handles
    <3>2. pc'[w] \in {"none", "exited"}
      BY <1>2, <3>1 DEF Handles
    <3>3. context'[w]["running"] = 0
      BY <1>2, <1>4, <2>1 DEF Cleared
    <3>4. QED
      BY <1>3, <3>2, <3>3
  <2>2. QED
    BY <2>1
<1>7. context[w]["started"] <= context'[w]["started"]
  BY <1>1, <1>4, <1>6, CountsGrow
<1>8. CASE pc[w] = "count_running" \/ context[w]["running"] = 1
  BY <1>5, <1>7, <1>8 DEF BegunCounted
<1>9. CASE pc[w] # "count_running" /\ context[w]["running"] # 1
  <2>1. pc[w] \notin {"count_running", "execute"}
    BY <1>1, <1>9 DEF RunningExact, RunningLabels
  <2>2. pc'[w] \in {"count_running"} \cup RunningLabels
    BY <1>1, <1>3 DEF AccountsInv, TasksInv, LifeInv, BaseInv, RunningExact
  <2>3. CASE pc'[w] = "count_running"
    <3>1. PICK v \in Workers : CountingStep(v)
      BY <1>1, <2>1, <2>3, StandStep DEF SameStand
    <3>2. ASSUME NEW label, Goto(v, label) PROVE pc'[v] = label /\ (v # w => pc'[w] = pc[w])
      BY <1>1, <3>2, GotoFacts, ThreadKinds
    <3>3. v = w /\ pc[w] = "count_started" /\ Count(w, "started")
      BY <2>1, <2>3, <3>1, <3>2
         DEF CountingStep, WorkerCountsDequeue, WorkerCountsStart, WorkerExecutes, CallbackReturns
    <3>4. context'[w]["started"] = Increment(context[w]["started"])
      BY <1>1, <1>4, <3>3 DEF Count, TypeOK
    <3>5. QED
      BY <1>5, <3>4 DEF Increment
  <2>4. CASE context'[w]["running"] = 1
    <3>1. context'[w]["running"] # context[w]["running"]
      BY <1>9, <2>4
    <3>2. ~(FinishRelease /\ FreeArrays)
      BY <1>6 DEF FreeArrays
    <3>3. PICK v \in Workers : \/ WorkerCountsDequeue(v) \/ WorkerCountsStart(v)
                               \/ CallbackReturns(v) \/ WorkerCountsStop(v)
      BY <3>1, <3>2, ContextFrame DEF contextVars, FinishRelease
    <3>4. ASSUME NEW c \in Counters, Count(v, c), c # "running" PROVE FALSE
      BY <1>1, <1>4, <3>1, <3>4 DEF Count, TypeOK
    <3>5. ~WorkerCountsDequeue(v) /\ ~CallbackReturns(v)
      BY <1>4, <3>4 DEF WorkerCountsDequeue, CallbackReturns
    <3>6. CASE WorkerCountsStop(v)
      <4>1. v = w /\ context'[w]["running"] = context[w]["running"] - 1
        BY <1>1, <1>4, <3>1, <3>6 DEF WorkerCountsStop, TypeOK
      <4>2. context[w]["running"] = 0
        BY <1>1, <1>9 DEF RunningExact
      <4>3. QED
        BY <2>4, <4>1, <4>2
    <3>7. CASE WorkerCountsStart(v)
      <4>1. pc[v] = "count_running" /\ Count(v, "running")
        BY <1>4, <3>4, <3>7 DEF WorkerCountsStart
      <4>2. v = w
        BY <1>1, <1>4, <3>1, <4>1 DEF Count, TypeOK
      <4>3. QED
        BY <1>9, <4>1, <4>2
    <3>8. QED
      BY <3>3, <3>5, <3>6, <3>7
  <2>5. QED
    BY <1>3, <2>3, <2>4
<1>10. QED
  BY <1>8, <1>9

(* What a capture has added up so far was there to be added. *)
Backing(c) == IF c = "running" THEN "started" ELSE c
Backed(c) == total[Backing(c)] + Sum(CountsOf(Backing(c)))[Through(c)]
LoadsSound == opc \in LoadLabels => \A c \in Counters : snapshot[c] <= Saturated(Backed(c))

(* The counters behind a load. *)
LEMMA BackingFacts ==
    ASSUME TypeOK, NEW c \in Counters
    PROVE  /\ Backing(c) \in Aggregated /\ Backing(c) \in Counters
           /\ CountsOf(Backing(c)) \in [Workers -> Nat] /\ total[Backing(c)] \in 0..CounterMax
           /\ \A n \in 0..WorkerCount : Sum(CountsOf(Backing(c)))[n] \in Nat
<1>1. Backing(c) \in Aggregated /\ Backing(c) \in Counters
  BY DEF Backing, Aggregated, Counters
<1>2. CountsOf(Backing(c)) \in [Workers -> Nat] /\ total[Backing(c)] \in 0..CounterMax
  BY <1>1, CountsType
<1>3. QED
  BY <1>1, <1>2, SumFacts

(* No worker shows more than stands behind it. *)
LEMMA LoadBacked ==
    ASSUME AccountsInv, BegunCounted, NEW c \in Counters, NEW w \in Workers
    PROVE  /\ context[w][c] \in 0..CounterMax /\ context[w][Backing(c)] \in 0..CounterMax
           /\ context[w][c] <= context[w][Backing(c)]
<1>1. TypeOK /\ RunningExact /\ CounterMax \in Nat
  BY SchedulerAssumption DEF AccountsInv, TasksInv, LifeInv, BaseInv
<1>2. context[w][c] \in 0..CounterMax /\ context[w][Backing(c)] \in 0..CounterMax
  BY <1>1, BackingFacts DEF TypeOK
<1>3. CASE c = "running"
  <2>1. context[w][c] \in {0, 1}
    BY <1>1, <1>3 DEF RunningExact
  <2>2. context[w][c] = 1 => context[w][Backing(c)] > 0
    BY <1>3 DEF BegunCounted, Backing
  <2>3. QED
    BY <1>2, <2>1, <2>2
<1>4. CASE c # "running"
  BY <1>2, <1>4 DEF Backing
<1>5. QED
  BY <1>2, <1>3, <1>4

(* One saturating addition of no more than was added behind it. *)
LEMMA LoadWithin ==
    ASSUME NEW s \in 0..CounterMax, NEW t \in Nat, NEW v \in 0..CounterMax, NEW u \in 0..CounterMax,
           s <= Saturated(t), v <= u
    PROVE  /\ add_saturating(s, v) <= Saturated(t + u)
           /\ SumOverflows(s, v) => t + u > CounterMax
BY SchedulerAssumption DEF Saturated, add_saturating, SumOverflows

(* The load of a counter. *)
LEMMA LoadSound ==
    ASSUME AccountsInv, Standing, BegunCounted, LoadsSound, LoadCounter, opc \in Counters
    PROVE  /\ snapshot'[opc] <= Saturated(total[Backing(opc)] + Sum(CountsOf(Backing(opc)))[scan])
           /\ SumOverflows(snapshot[opc], context[scan][opc]) => Marked
<1> DEFINE c == opc  b == Backing(opc)  f == CountsOf(b)
<1>1. TypeOK
  BY DEF AccountsInv, TasksInv, LifeInv, BaseInv
<1>2. /\ opc \in LoadLabels /\ snapshot'[c] = add_saturating(snapshot[c], context[scan][c])
  BY CounterLoaded DEF LoadLabels, Counters
<1>3. scan \in 1..started_worker_count /\ snapshot[c] \in 0..CounterMax
  BY <1>2 DEF Standing
<1>4. scan \in Workers /\ scan \in 0..WorkerCount /\ scan - 1 \in 0..WorkerCount
      /\ scan <= WorkerCount /\ WorkerCount \in 0..WorkerCount
  BY <1>1, <1>3, SchedulerAssumption DEF TypeOK, Workers
<1>5. b \in Aggregated /\ f \in [Workers -> Nat] /\ total[b] \in 0..CounterMax
      /\ \A n \in 0..WorkerCount : Sum(f)[n] \in Nat
  BY <1>1, BackingFacts
<1>6. Through(c) = scan - 1
  BY ThroughStep
<1>7. snapshot[c] <= Saturated(total[b] + Sum(f)[scan - 1])
  BY <1>2, <1>6 DEF LoadsSound, Backed
<1>8. /\ context[scan][c] \in 0..CounterMax /\ context[scan][b] \in 0..CounterMax
      /\ context[scan][c] <= context[scan][b]
  BY <1>4, LoadBacked
<1>9. Sum(f)[scan] = Sum(f)[scan - 1] + context[scan][b]
  <2>1. f[scan] = context[scan][b]
    BY <1>4 DEF CountsOf
  <2> HIDE DEF f
  <2>2. QED
    BY <1>4, <1>5, <2>1, SumFacts
<1>10. Sum(f)[scan] <= Sum(f)[WorkerCount] /\ Shown(b) = total[b] + Sum(f)[WorkerCount]
  BY <1>4, <1>5, SumGrows DEF Shown
<1> DEFINE t == total[b] + Sum(f)[scan - 1]  u == context[scan][b]
<1> HIDE DEF f, b, c
<1>11. t \in Nat /\ t + u = total[b] + Sum(f)[scan] /\ t + u <= Shown(b) /\ t + u \in Nat
       /\ Shown(b) \in Nat
  BY <1>4, <1>5, <1>8, <1>9, <1>10, SchedulerAssumption
<1>12. /\ add_saturating(snapshot[c], context[scan][c]) <= Saturated(t + u)
       /\ SumOverflows(snapshot[c], context[scan][c]) => t + u > CounterMax
  BY <1>3, <1>7, <1>8, <1>11, LoadWithin
<1>13. SumOverflows(snapshot[c], context[scan][c]) => Marked
  BY <1>5, <1>11, <1>12, SchedulerAssumption DEF Marked
<1>14. QED
  BY <1>2, <1>11, <1>12, <1>13 DEF b, f, c

(* Every step keeps the capture within what is behind it. *)
LEMMA LoadsKept ==
    ASSUME AccountsInv, Standing, BegunCounted, LoadsSound, [ObservedNext]_<<vars, snapshotVars>>
    PROVE  LoadsSound'
<1>1. TasksInv /\ TypeOK /\ TypeOK' /\ Handles /\ AccountsInv' /\ [Next]_vars /\ Cleared
  BY ObservedAccounts, ObserverCases DEF AccountsInv, TasksInv, LifeInv, BaseInv
<1>2. SUFFICES ASSUME opc' \in LoadLabels, NEW c \in Counters
               PROVE  snapshot'[c] <= Saturated(Backed(c))'
  BY DEF LoadsSound
<1> DEFINE b == Backing(c)  f == CountsOf(b)
<1>3. b \in Aggregated /\ b \in Counters /\ f \in [Workers -> Nat] /\ total[b] \in 0..CounterMax
      /\ \A n \in 0..WorkerCount : Sum(f)[n] \in Nat
  BY <1>1, BackingFacts
<1>4. CASE Beside
  <2> DEFINE g == CountsOf(b)'  n == Through(c)
  <2>1. UNCHANGED <<opc, scan, snapshot>> /\ opc \in LoadLabels /\ UNCHANGED guardedVars
    BY <1>2, <1>4 DEF Beside, snapshotVars
  <2>2. scan \in 1..started_worker_count /\ scan \in 1..WorkerCount
        /\ snapshot[c] \in 0..CounterMax
    BY <1>1, <2>1, SchedulerAssumption DEF Standing, TypeOK
  <2>3. allocated' /\ total' = total
    BY <1>1, <2>1, <2>2 DEF Handles, guardedVars
  <2>4. n \in 0..WorkerCount /\ 0 \in 0..WorkerCount /\ 0 <= n /\ Through(c)' = n
    BY <2>1, <2>2, SchedulerAssumption DEF Through
  <2>5. \A w \in Workers : f[w] <= g[w]
    BY <1>1, <1>3, <2>3, CountsGrow DEF CountsOf
  <2>6. g \in [Workers -> Nat]
    BY <1>1, <1>3, SchedulerAssumption DEF CountsOf, TypeOK
  <2>7. snapshot[c] <= Saturated(total[b] + Sum(f)[n])
    BY <2>1 DEF LoadsSound, Backed
  <2>8. Backed(c)' = total[b] + Sum(g)[n]
    BY <2>3, <2>4 DEF Backed, Backing
  <2> HIDE DEF f, g, n, b
  <2>9. Sum(f)[n] <= Sum(g)[n] /\ Sum(f)[n] \in Nat /\ Sum(g)[n] \in Nat
    <3>1. Sum(f)[n] - Sum(f)[0] <= Sum(g)[n] - Sum(g)[0]
      BY <1>3, <2>4, <2>5, <2>6, SumMonotone
    <3>2. Sum(f)[0] = 0 /\ Sum(g)[0] = 0 /\ Sum(f)[n] \in Nat /\ Sum(g)[n] \in Nat
      BY <1>3, <2>4, <2>6, SumFacts
    <3>3. QED
      BY <3>1, <3>2
  <2>10. /\ total[b] + Sum(f)[n] \in Nat /\ total[b] + Sum(g)[n] \in Nat
         /\ total[b] + Sum(f)[n] <= total[b] + Sum(g)[n]
    BY <1>3, <2>9
  <2>11. /\ Saturated(total[b] + Sum(f)[n]) <= Saturated(total[b] + Sum(g)[n])
         /\ Saturated(total[b] + Sum(f)[n]) \in Int /\ Saturated(total[b] + Sum(g)[n]) \in Int
    BY <2>10, SaturatedOrder
  <2>12. snapshot[c] <= Saturated(total[b] + Sum(g)[n])
    BY <2>2, <2>7, <2>11
  <2>13. QED
    BY <2>1, <2>8, <2>12
<1>5. CASE UNCHANGED vars /\ CaptureWorker
  <2>1. snapshot'[c] = total[c] /\ scan' = 1 /\ opc' = "dequeued"
    BY <1>2, <1>5, WorkerCaptured DEF LoadLabels, Counters
  <2>2. Through(c)' = 0
    BY <2>1, ThroughFirst
  <2>3. UNCHANGED <<total, context>>
    BY <1>5, VarsKept
  <2>4. Backed(c)' = total[b] + Sum(f)[0]
    BY <2>2, <2>3 DEF Backed, Backing, CountsOf
  <2>5. Sum(f)[0] = 0
    BY <1>3, SumFacts
  <2>6. total[c] <= total[b] /\ total[c] \in Int
    BY <1>1, <1>3, SchedulerAssumption DEF Cleared, Backing, TypeOK
  <2>7. Saturated(total[b] + 0) = total[b]
    <3>1. total[b] \in Nat /\ total[b] <= CounterMax /\ total[b] + 0 = total[b]
      BY <1>3, SchedulerAssumption
    <3>2. QED
      BY <3>1, SaturatedOrder
  <2>8. QED
    BY <2>1, <2>4, <2>5, <2>6, <2>7
<1>6. CASE UNCHANGED vars /\ LoadCounter
  <2>1. UNCHANGED <<total, context>> /\ CountsOf(b)' = f
    BY <1>6, VarsKept DEF CountsOf, Backing
  <2>2. /\ opc \in LoadLabels /\ c \in DOMAIN snapshot /\ c # "overflow_detected"
        /\ scan \in 1..started_worker_count
    BY <1>6, CounterLoaded DEF Standing, WorkerNames, Counters
  <2>3. Backed(c)' = total[b] + Sum(f)[Through(c)']
    BY <2>1 DEF Backed, Backing
  <2>4. CASE opc = c
    <3>1. Through(c)' = scan
      BY <1>6, <2>4, ThroughStep
    <3>2. QED
      BY <1>6, <2>3, <2>4, <3>1, LoadSound
  <2>5. CASE opc # c
    <3>1. snapshot'[c] = snapshot[c]
      BY <1>6, <2>2, <2>5, CounterLoaded
    <3>2. opc' # "queue" /\ scan \in Nat
      BY <1>2, <1>1, <2>2 DEF LoadLabels, Counters, TypeOK
    <3>3. Through(c)' = Through(c)
      BY <1>6, <2>5, <3>2, ThroughStep
    <3>4. snapshot[c] <= Saturated(total[b] + Sum(f)[Through(c)])
      BY <2>2 DEF LoadsSound, Backed
    <3>5. QED
      BY <2>3, <3>1, <3>3, <3>4
  <2>6. QED
    BY <2>4, <2>5
<1>7. CASE UNCHANGED vars /\ (CaptureLifecycle \/ SkipWorker \/ CaptureQueue \/ opc' = "idle")
  BY <1>2, <1>7 DEF CaptureLifecycle, SkipWorker, CaptureQueue, LoadLabels, Counters
<1>8. QED
  BY <1>4, <1>5, <1>6, <1>7, ObserverCases

(* A snapshot is marked as overflowed only if a count is too large. *)
FlagReal == opc # "idle" /\ snapshot.overflow_detected => SomeCountTooLarge

LEMMA FlagKept ==
    ASSUME AccountsInv, Standing, BegunCounted, LoadsSound, FlagReal,
           [ObservedNext]_<<vars, snapshotVars>>
    PROVE  FlagReal'
<1>1. TasksInv /\ TypeOK /\ SubmissionsAccounted /\ [Next]_vars
  BY ObserverCases DEF AccountsInv, TasksInv, LifeInv, BaseInv
<1>2. SUFFICES ASSUME opc' # "idle", snapshot'.overflow_detected PROVE SomeCountTooLarge
  BY <1>1, TooLargeStays DEF FlagReal
<1>3. CASE Beside
  BY <1>2, <1>3 DEF Beside, snapshotVars, FlagReal
<1>4. CASE UNCHANGED vars /\ CaptureLifecycle
  <2>1. snapshot'.overflow_detected = lifecycle_accounting_overflow
    BY <1>1, <1>4, LifecycleCaptured DEF TypeOK
  <2>2. tally["submitted"] > CounterMax
    BY <1>1, <1>2, <2>1 DEF SubmissionsAccounted
  <2>3. QED
    BY <1>1, <2>2, TooLargeFacts DEF Tallied
<1>5. CASE UNCHANGED vars /\ CaptureWorker
  <2>1. snapshot'.overflow_detected = (snapshot.overflow_detected \/ worker_accounting_overflow)
        /\ opc = "worker"
    BY <1>5, WorkerCaptured
  <2>2. QED
    BY <1>2, <2>1, MarkedTooLarge DEF FlagReal, Marked
<1>6. CASE UNCHANGED vars /\ LoadCounter
  <2>1. opc \in LoadLabels /\ opc # "idle"
    BY <1>6, CounterLoaded DEF LoadLabels, Counters
  <2>2. CASE opc \in Counters
    <3>1. snapshot'.overflow_detected =
              (snapshot.overflow_detected \/ SumOverflows(snapshot[opc], context[scan][opc]))
      BY <1>6, <2>2, CounterLoaded DEF Counters
    <3>2. QED
      BY <1>2, <1>6, <2>1, <2>2, <3>1, LoadSound, MarkedTooLarge DEF FlagReal
  <2>3. CASE opc = "accounting_overflow"
    <3>1. snapshot'.overflow_detected = (snapshot.overflow_detected \/ accounting_overflow[scan])
      BY <1>6, <2>3, CounterLoaded DEF Counters
    <3>2. scan \in Workers
      BY <1>1, <2>1, SchedulerAssumption DEF Standing, TypeOK, Workers
    <3>3. accounting_overflow[scan] => Marked
      BY <3>2 DEF Marked, Flagged
    <3>4. QED
      BY <1>2, <2>1, <3>1, <3>3, MarkedTooLarge DEF FlagReal
  <2>4. QED
    BY <2>1, <2>2, <2>3 DEF LoadLabels
<1>7. CASE UNCHANGED vars /\ SkipWorker
  <2>1. snapshot'.overflow_detected = snapshot.overflow_detected /\ opc = "no_worker"
    BY <1>7, WorkerSkipped DEF Standing, LifecycleNames
  <2>2. QED
    BY <1>2, <2>1 DEF FlagReal
<1>8. CASE UNCHANGED vars /\ CaptureQueue
  <2>1. snapshot'.overflow_detected = snapshot.overflow_detected /\ opc = "queue"
    BY <1>8, QueueCaptured DEF Standing, LifecycleNames
  <2>2. QED
    BY <1>2, <2>1 DEF FlagReal
<1>9. QED
  BY <1>2, <1>3, <1>4, <1>5, <1>6, <1>7, <1>8, ObserverCases

-----------------------------------------------------------------------------
(* The inductive invariant of a capture. *)
SnapshotInv ==
    /\ AccountsInv /\ Standing /\ FlagsSound /\ WorkersSound /\ QueueSound
    /\ RunningSound /\ OutcomesSound /\ BegunCounted /\ LoadsSound /\ FlagReal

(* No capture has begun when scheduler_init has returned. *)
LEMMA InitSnapshot == Init /\ ObserverInit => SnapshotInv
<1> SUFFICES ASSUME Init, ObserverInit PROVE SnapshotInv
  OBVIOUS
<1>1. AccountsInv
  BY InitAccounts
<1>2. opc = "idle" /\ "idle" \notin LoadLabels /\ ~Copied
  BY DEF ObserverInit, LoadLabels, Counters, Copied
<1>3. Standing /\ FlagsSound /\ WorkersSound /\ QueueSound /\ RunningSound
  BY <1>2 DEF Standing, FlagsSound, WorkersSound, QueueSound, RunningSound
<1>4. OutcomesSound /\ LoadsSound /\ FlagReal
  BY <1>2 DEF OutcomesSound, OutcomeSound, LoadsSound, FlagReal
<1>5. BegunCounted
  <2>1. \A w \in Workers : pc[w] = "none" /\ context[w]["running"] = 0
    BY ThreadKinds DEF Init, ZeroCounters, Counters
  <2>2. QED
    BY <2>1 DEF BegunCounted
<1>6. QED
  BY <1>1, <1>3, <1>4, <1>5 DEF SnapshotInv

(* Every step of the scheduler and of the capture keeps it. *)
LEMMA StepSnapshot ==
    ASSUME SnapshotInv, [ObservedNext]_<<vars, snapshotVars>>
    PROVE  SnapshotInv'
<1>1. [Next]_vars
  BY ObserverCases
<1>2. AccountsInv' /\ Standing' /\ FlagsSound' /\ WorkersSound' /\ QueueSound'
  BY ObservedAccounts, StandingKept, FlagsKept, WorkersKept, QueueKept DEF SnapshotInv
<1>3. RunningSound' /\ OutcomesSound'
  BY RunningKept, OutcomesKept DEF SnapshotInv
<1>4. BegunCounted' /\ LoadsSound' /\ FlagReal'
  BY <1>1, BegunCountedKept, LoadsKept, FlagKept DEF SnapshotInv
<1>5. QED
  BY <1>2, <1>3, <1>4 DEF SnapshotInv

(* Whenever a capture runs beside the scheduler, what it has copied so far *)
(* is consistent, although the scheduler has moved on.                     *)
THEOREM SnapshotInvariant == ObservedSpec => []SnapshotInv
<1>1. SnapshotInv /\ [ObservedNext]_<<vars, snapshotVars>> => SnapshotInv'
  BY StepSnapshot
<1>2. QED
  BY InitSnapshot, <1>1, PTL DEF ObservedSpec

(* The structural checks raise nothing about fields within their bounds. *)
LEMMA StructureRaisesNothing ==
    ASSUME SnapshotInv, opc = "captured"
    PROVE  validate_structural(snapshot) = {}
<1>1. lifecycle_flags_valid(snapshot)
  BY DEF SnapshotInv, FlagsSound
<1>2. /\ snapshot.created \in Nat /\ snapshot.ready \in Nat
      /\ snapshot.active \in Nat /\ snapshot.joined \in Nat
      /\ snapshot.created <= WorkerCount /\ snapshot.ready <= snapshot.created
      /\ snapshot.active + snapshot.joined <= snapshot.created
      /\ snapshot.startup_failures \in Nat /\ snapshot.startup_failures <= WorkerCount
  BY DEF SnapshotInv, WorkersSound, Copied
<1>3. /\ snapshot.size \in Nat /\ snapshot.high_water \in Nat
      /\ snapshot.size <= snapshot.high_water /\ snapshot.high_water <= Capacity
  BY DEF SnapshotInv, QueueSound
<1>4. snapshot.running \in Nat /\ snapshot.running <= snapshot.active
  BY SchedulerAssumption DEF SnapshotInv, RunningSound, Standing, Copied, Counters
<1>5. Capacity \in Nat /\ WorkerCount \in Nat
  BY SchedulerAssumption
<1> DEFINE s == snapshot
           checks ==
    [QUEUE_SIZE_EXCEEDS_CAPACITY |-> s.size > Capacity,
     QUEUE_HIGH_WATER_EXCEEDS_CAPACITY |-> s.high_water > Capacity,
     QUEUE_SIZE_EXCEEDS_HIGH_WATER |-> s.size > s.high_water,
     CREATED_EXCEEDS_CONFIGURED |-> s.created > WorkerCount,
     READY_EXCEEDS_CREATED |-> s.ready > s.created,
     ACTIVE_EXCEEDS_CREATED |-> s.active > s.created,
     JOINED_EXCEEDS_CREATED |-> s.joined > s.created,
     ACTIVE_JOINED_EXCEED_CREATED |->
         s.active > s.created - (IF s.joined > s.created THEN s.created ELSE s.joined),
     RUNNING_EXCEEDS_ACTIVE |-> s.running > s.active,
     STARTUP_FAILURES_EXCEED_CONFIGURED |-> s.startup_failures > WorkerCount,
     LIFECYCLE_FLAGS_INVALID |-> ~lifecycle_flags_valid(s)]
<1>6. /\ ~(s.size > Capacity) /\ ~(s.high_water > Capacity) /\ ~(s.size > s.high_water)
      /\ ~(s.created > WorkerCount) /\ ~(s.ready > s.created) /\ ~(s.active > s.created)
      /\ ~(s.joined > s.created) /\ ~(s.running > s.active)
      /\ ~(s.startup_failures > WorkerCount)
      /\ ~(s.active > s.created - (IF s.joined > s.created THEN s.created ELSE s.joined))
  BY <1>2, <1>3, <1>4, <1>5
<1>7. \A issue \in DOMAIN checks : ~checks[issue]
  <2>1. DOMAIN checks = {"QUEUE_SIZE_EXCEEDS_CAPACITY",
                         "QUEUE_HIGH_WATER_EXCEEDS_CAPACITY",
                         "QUEUE_SIZE_EXCEEDS_HIGH_WATER",
                         "CREATED_EXCEEDS_CONFIGURED",
                         "READY_EXCEEDS_CREATED",
                         "ACTIVE_EXCEEDS_CREATED",
                         "JOINED_EXCEEDS_CREATED",
                         "ACTIVE_JOINED_EXCEED_CREATED",
                         "RUNNING_EXCEEDS_ACTIVE",
                         "STARTUP_FAILURES_EXCEED_CONFIGURED",
                         "LIFECYCLE_FLAGS_INVALID"}
    OBVIOUS
  <2>2. ~checks.QUEUE_SIZE_EXCEEDS_CAPACITY
    BY <1>6
  <2>3. ~checks.QUEUE_HIGH_WATER_EXCEEDS_CAPACITY
    BY <1>6
  <2>4. ~checks.QUEUE_SIZE_EXCEEDS_HIGH_WATER
    BY <1>6
  <2>5. ~checks.CREATED_EXCEEDS_CONFIGURED
    BY <1>6
  <2>6. ~checks.READY_EXCEEDS_CREATED
    BY <1>6
  <2>7. ~checks.ACTIVE_EXCEEDS_CREATED
    BY <1>6
  <2>8. ~checks.JOINED_EXCEEDS_CREATED
    BY <1>6
  <2>9. ~checks.ACTIVE_JOINED_EXCEED_CREATED
    BY <1>6
  <2>10. ~checks.RUNNING_EXCEEDS_ACTIVE
    BY <1>6
  <2>11. ~checks.STARTUP_FAILURES_EXCEED_CONFIGURED
    BY <1>6
  <2>12. ~checks.LIFECYCLE_FLAGS_INVALID
    BY <1>1
  <2> HIDE DEF checks
  <2>13. QED
    BY <2>1, <2>2, <2>3, <2>4, <2>5, <2>6, <2>7, <2>8, <2>9, <2>10, <2>11, <2>12
<1>8. validate_structural(snapshot) = Raised(checks)
  BY DEF validate_structural
<1> HIDE DEF checks
<1>9. Raised(checks) = {}
  BY <1>7 DEF Raised
<1>10. QED
  BY <1>8, <1>9

(* validate_structural raises no issue of any snapshot that                *)
(* scheduler_capture_snapshot takes, at whatever moment and whatever the   *)
(* scheduler does between its three critical sections.                     *)
THEOREM EverySnapshotSound == ObservedSpec => []SnapshotStructureSound
<1>1. SnapshotInv => SnapshotStructureSound
  BY StructureRaisesNothing DEF SnapshotStructureSound
<1>2. QED
  BY SnapshotInvariant, <1>1, PTL

(* A snapshot shows every callback that had returned when its capture      *)
(* began, and none that has not returned by its end, up to saturation,     *)
(* while workers count and join adds their counters to the totals; and it  *)
(* is marked as overflowed only when a count really does not fit, so that  *)
(* saturation never stands for a callback counted twice.                   *)
THEOREM EverySnapshotCounts == ObservedSpec => []NoCallbackLostOrCountedTwice
<1>1. SnapshotInv => NoCallbackLostOrCountedTwice
  BY DEF SnapshotInv, OutcomesSound, OutcomeSound, Copied, FlagReal, NoCallbackLostOrCountedTwice
<1>2. QED
  BY SnapshotInvariant, <1>1, PTL

-----------------------------------------------------------------------------
(* A scheduler at rest: its workers are gone, or were never made. *)
Resting == state \in {"STOPPED", "FAILED"} \/ Unstarted

(* What a scheduler at rest is like, if waits and native joins do not fail. *)
LEMMA RestingFacts ==
    ASSUME AccountsInv, "wait" \notin Faults, "native_join" \notin Faults, Resting
    PROVE  /\ ~allocated /\ started_worker_count = 0 /\ queue = <<>> /\ Registered = {}
           /\ \A w \in Workers : pc[w] \in {"none", "exited"}
           /\ active_worker_count = 0 /\ total["running"] = 0
           /\ created_worker_count = joined_worker_count + tally["join_failures"]
           /\ Unstarted => created_worker_count = 0
<1>1. TasksInv /\ LifeInv /\ TypeOK /\ Arrays /\ Handles /\ Gate /\ Lifecycle /\ Cleared
  BY DEF AccountsInv, TasksInv, LifeInv, BaseInv
<1>2. ~allocated
  BY <1>1 DEF Resting, Unstarted, Arrays, LifeInv, JoinsSucceed
<1>3. started_worker_count = 0 /\ total["running"] = 0
  BY <1>1, <1>2 DEF Handles, Cleared
<1>4. Registered = {}
  BY <1>1 DEF Resting, Unstarted, Gate, Lifecycle, StartLabels
<1>5. /\ \A w \in Workers : pc[w] \in {"none", "exited"}
      /\ active_worker_count = 0 /\ Cardinality(WithHandle) = 0
  BY <1>2, FreedAccounts
<1>6. created_worker_count = joined_worker_count + tally["join_failures"]
  BY <1>1, <1>5 DEF AccountsInv, JoinedExact, TypeOK, Tallied
<1>7. Unstarted => created_worker_count = 0
  BY <1>1 DEF Unstarted, Arrays
<1>8. queue = <<>>
  <2>1. SUFFICES ASSUME queue # <<>> PROVE FALSE
    OBVIOUS
  <2>2. created_worker_count = WorkerCount /\ 1 \in Workers /\ created_worker_count \in Nat
    BY <1>1, <2>1, SchedulerAssumption DEF TasksInv, Drain, Workers
  <2>3. ~(1 > created_worker_count)
    BY <2>2, SchedulerAssumption
  <2>4. pc[1] = "exited"
    BY <1>1, <1>5, <2>2, <2>3 DEF Arrays
  <2>5. QED
    BY <1>1, <2>1, <2>2, <2>4 DEF TasksInv, Drain, Finished
<1>9. QED
  BY <1>2, <1>3, <1>4, <1>5, <1>6, <1>7, <1>8

(* Its submissions balance, unless there were too many to count. *)
LEMMA RestingSubmissions ==
    ASSUME AccountsInv, "wait" \notin Faults, "native_join" \notin Faults, Resting
    PROVE  /\ lifecycle_accounting_overflow => SomeCountTooLarge
           /\ ~lifecycle_accounting_overflow =>
                  /\ submitted_count = accepted_count + rejected_count
                  /\ accepted_count = Cardinality(Ran) /\ rejected_count \in Nat
<1>1. TasksInv /\ TypeOK /\ SubmissionsAccounted
  BY DEF AccountsInv, TasksInv, LifeInv, BaseInv
<1>2. queue = <<>> /\ Registered = {} /\ \A w \in Workers : pc[w] \in {"none", "exited"}
  BY RestingFacts
<1>3. Len(queue) = 0
  BY <1>2
<1>4. Answered({"OK"}) = Cardinality(Ran) + Len(queue)
  BY <1>1, <1>2, AcceptedRanOrQueued
<1>5. Cardinality(Ran) \in Nat /\ Answered({"OK"}) \in Nat /\ Answered(Refusals) \in Nat
      /\ Answered({"OK"} \cup Refusals) \in Nat
  BY CountedFinite, AnsweredType
<1>6. Answered({"OK"}) = Cardinality(Ran)
  BY <1>3, <1>4, <1>5
<1>7. Answered({"OK"} \cup Refusals) = Answered({"OK"}) + Answered(Refusals)
  <2> DEFINE A == {k \in Tasks : outcome[k] \in {"OK"}}
             B == {k \in Tasks : outcome[k] \in Refusals}
             C == {k \in Tasks : outcome[k] \in {"OK"} \cup Refusals}
  <2>1. C = A \cup B /\ A \cap B = {}
    BY DEF Refusals
  <2>2. IsFiniteSet(A) /\ IsFiniteSet(B) /\ Cardinality(A) \in Nat /\ Cardinality(B) \in Nat
    BY TasksFinite
  <2> HIDE DEF A, B, C
  <2>3. Cardinality(C) = Cardinality(A) + Cardinality(B) - Cardinality(A \cap B)
    BY <2>1, <2>2, FS_Union
  <2>4. Cardinality(A \cap B) = 0
    BY <2>1, FS_EmptySet
  <2>5. Cardinality(C) = Cardinality(A) + Cardinality(B)
    BY <2>2, <2>3, <2>4
  <2>6. QED
    BY <2>5 DEF A, B, C, Answered
<1>8. active_submitter_count = 0
  BY <1>1, <1>2, FS_EmptySet DEF SubmissionsAccounted
<1>9. tally["submitted"] = Cardinality(Ran) + Answered(Refusals)
  BY <1>1, <1>5, <1>6, <1>7, <1>8 DEF SubmissionsAccounted
<1>10. lifecycle_accounting_overflow => SomeCountTooLarge
  BY <1>1, TooLargeFacts DEF SubmissionsAccounted, Tallied
<1>11. ASSUME ~lifecycle_accounting_overflow
       PROVE  /\ submitted_count = accepted_count + rejected_count
              /\ accepted_count = Cardinality(Ran) /\ rejected_count \in Nat
  <2>1. ~(tally["submitted"] > CounterMax)
    BY <1>1, <1>11 DEF SubmissionsAccounted
  <2>2. CounterMax \in Nat
    BY SchedulerAssumption
  <2>3. /\ ~(Cardinality(Ran) > CounterMax) /\ ~(Answered(Refusals) > CounterMax)
    BY <1>5, <1>9, <2>1, <2>2
  <2>4. /\ submitted_count = tally["submitted"] /\ accepted_count = Cardinality(Ran)
        /\ rejected_count = Answered(Refusals)
    BY <1>1, <1>6, <2>1, <2>3 DEF SubmissionsAccounted, Saturated
  <2>5. QED
    BY <1>5, <1>9, <2>4
<1>12. QED
  BY <1>10, <1>11

(* So do its callbacks. *)
LEMMA RestingCallbacks ==
    ASSUME AccountsInv, "wait" \notin Faults, "native_join" \notin Faults, Resting
    PROVE  /\ worker_accounting_overflow => SomeCountTooLarge
           /\ ~worker_accounting_overflow =>
                  /\ total["dequeued"] = Cardinality(Ran) /\ total["started"] = Cardinality(Ran)
                  /\ total["started"] = total["succeeded"] + total["failed"]
           /\ Unstarted => /\ total["failed"] = 0 /\ worker_startup_failure_count = 0
                           /\ worker_runtime_failure_count = 0 /\ join_failure_count = 0
<1>1. TasksInv /\ TypeOK
  BY DEF AccountsInv, TasksInv, LifeInv, BaseInv
<1>2. ~allocated /\ (Unstarted => created_worker_count = 0)
  BY RestingFacts
<1>3. /\ Cardinality(Ran) = tally["succeeded"] + tally["failed"]
      /\ \A c \in Aggregated : total[c] = Saturated(Happened(c))
      /\ Happened("dequeued") = Cardinality(Ran) /\ Happened("started") = Cardinality(Ran)
      /\ Happened("succeeded") = tally["succeeded"] /\ Happened("failed") = tally["failed"]
  BY <1>2, FreedAccounts
<1>4. worker_accounting_overflow <=> TooMany
  BY <1>2, FreedAccounts
<1>5. TooMany <=> \/ Cardinality(Ran) > CounterMax
                  \/ \E c \in Failures : tally[c] > CounterMax
  BY <1>1, <1>3, TooManyAtRest
<1>6. worker_accounting_overflow => SomeCountTooLarge
  BY <1>1, <1>4, <1>5, TooLargeFacts DEF Failures, Tallied
<1>7. {"dequeued", "started", "succeeded", "failed"} \subseteq Aggregated
  BY DEF Aggregated, Counters
<1>8. /\ tally["succeeded"] \in Nat /\ tally["failed"] \in Nat /\ CounterMax \in Nat \ {0}
  BY <1>1, SchedulerAssumption DEF TypeOK, Tallied
<1>9. ASSUME ~worker_accounting_overflow
      PROVE  /\ total["dequeued"] = Cardinality(Ran) /\ total["started"] = Cardinality(Ran)
             /\ total["started"] = total["succeeded"] + total["failed"]
  <2>1. ~(Cardinality(Ran) > CounterMax)
    BY <1>4, <1>5, <1>9
  <2>2. ~(tally["succeeded"] > CounterMax) /\ ~(tally["failed"] > CounterMax)
    BY <1>3, <1>8, <2>1
  <2>3. /\ total["dequeued"] = Cardinality(Ran) /\ total["started"] = Cardinality(Ran)
        /\ total["succeeded"] = tally["succeeded"] /\ total["failed"] = tally["failed"]
    BY <1>3, <1>7, <2>1, <2>2 DEF Saturated
  <2>4. QED
    BY <1>3, <2>3
<1>10. ASSUME Unstarted
       PROVE  /\ total["failed"] = 0 /\ worker_startup_failure_count = 0
              /\ worker_runtime_failure_count = 0 /\ join_failure_count = 0
  <2>1. Fresh
    BY <1>10 DEF Unstarted, Fresh
  <2>2. /\ Ran = {} /\ tally["runtime_failures"] = 0 /\ tally["join_failures"] = 0
        /\ tally["startup_failures"] = 0
    BY <1>2, <1>10, <2>1 DEF AccountsInv, NothingYet
  <2>3. Cardinality(Ran) = 0
    BY <2>2, FS_EmptySet
  <2>4. tally["failed"] = 0
    BY <1>3, <1>8, <2>3
  <2>5. Saturated(0) = 0
    BY <1>8 DEF Saturated
  <2>6. \A c \in Failures : FailureCount(c) = 0
    BY <2>2, <2>5 DEF AccountsInv, FailuresExact, Failures
  <2>7. total["failed"] = 0
    BY <1>3, <1>7, <2>4, <2>5
  <2>8. QED
    BY <2>6, <2>7 DEF FailureCount, Failures
<1>11. QED
  BY <1>6, <1>9, <1>10

(* Nothing that a snapshot at rest shows moves any more. *)
LEMMA RestingStep ==
    ASSUME AccountsInv, "wait" \notin Faults, "native_join" \notin Faults, Resting, [Next]_vars
    PROVE  /\ Ran' = Ran /\ created_worker_count' = created_worker_count
           /\ tally'["join_failures"] = tally["join_failures"]
           /\ SomeCountTooLarge => SomeCountTooLarge'
           /\ state \in {"STOPPED", "FAILED"} => state' \in {"STOPPED", "FAILED"}
<1>1. TasksInv /\ TasksInv' /\ LifeInv /\ TypeOK /\ TypeOK' /\ Handles /\ Lifecycle
  BY StepTasks DEF AccountsInv, TasksInv, LifeInv, BaseInv
<1>2. /\ ~allocated /\ started_worker_count = 0
      /\ \A w \in Workers : pc[w] \in {"none", "exited"}
  BY RestingFacts
<1>3. ~StartCreates
  BY <1>1, <1>2 DEF StartCreates, Handles
<1>4. ~JoinWorker
  <2>1. ~(index <= started_worker_count)
    BY <1>1, <1>2 DEF TypeOK
  <2>2. QED
    BY <2>1 DEF JoinWorker
<1>5. \A w \in Workers : ~WorkerExecutes(w) /\ ~CallbackReturns(w) /\ ~WorkerExits(w)
                         /\ ~WorkerReady(w)
  BY <1>2 DEF WorkerExecutes, CallbackReturns, WorkerExits, WorkerReady
<1>6. Ran' = Ran
  BY <1>1, <1>5, RanStep
<1>7. created_worker_count' = created_worker_count
  BY <1>3, <1>4, <1>5, WorkerFrame
     DEF workerVars, scheduler_destroy, Refused, StartAllocates, FinishRelease
<1>8. /\ tally'["join_failures"] = tally["join_failures"]
      /\ tally'["startup_failures"] = tally["startup_failures"]
      /\ tally'["runtime_failures"] = tally["runtime_failures"]
      /\ tally'["succeeded"] = tally["succeeded"] /\ tally'["failed"] = tally["failed"]
  BY <1>1, <1>3, <1>4, <1>5, TallyFrame
<1>9. tally'["submitted"] \in {tally["submitted"], tally["submitted"] + 1}
  <2>1. ASSUME NEW t \in Workers \cup Submitters, NEW call \in {"submit", "try_submit"},
               register_submitter(t, call)
        PROVE  tally'["submitted"] = tally["submitted"] + 1
    BY <1>1, <2>1, RegisterFacts DEF TypeOK, Tallied
  <2>2. QED
    BY <1>1, <2>1, SubmittedFrame
<1>10. ASSUME SomeCountTooLarge PROVE SomeCountTooLarge'
  <2>1. CASE \E c \in Tallied : tally[c] > CounterMax
    <3>1. PICK c \in Tallied : tally[c] > CounterMax
      BY <2>1
    <3>2. tally[c] \in Nat /\ CounterMax \in Nat
      BY <1>1, SchedulerAssumption DEF TypeOK
    <3>3. tally'[c] = tally[c] \/ tally'[c] = tally[c] + 1
      BY <1>8, <1>9 DEF Tallied
    <3>4. tally'[c] > CounterMax
      BY <3>1, <3>2, <3>3
    <3>5. QED
      BY <3>4 DEF SomeCountTooLarge
  <2>2. CASE Cardinality({k \in Tasks : executed[k] > 0}) > CounterMax
    <3>1. Cardinality(Ran) > CounterMax
      BY <1>1, <2>2, TooLargeFacts
    <3>2. {k \in Tasks : executed'[k] > 0} = Ran'
      <4>1. \A k \in Tasks : executed'[k] > 0 <=> executed'[k] = 1
        BY <1>1 DEF TasksInv, Place
      <4>2. QED
        BY <4>1 DEF Ran
    <3>3. Cardinality({k \in Tasks : executed'[k] > 0}) > CounterMax
      BY <1>6, <3>1, <3>2
    <3>4. QED
      BY <3>3 DEF SomeCountTooLarge
  <2>3. QED
    BY <1>10, <2>1, <2>2 DEF SomeCountTooLarge
<1>11. ASSUME state \in {"STOPPED", "FAILED"} PROVE state' \in {"STOPPED", "FAILED"}
  <2>1. pc[Main] \notin StartLabels
    BY <1>1, <1>11 DEF Lifecycle
  <2>2. ~StartBegins /\ ~StartAllocates /\ ~StartPublishes /\ ~StartFails /\ ~ShutdownBegins
    BY <1>11, <2>1
       DEF StartBegins, StartAllocates, StartPublishes, StartFails, ShutdownBegins, StartLabels
  <2>3. QED
    BY <1>11, <2>2, LifecycleFrame
       DEF lifecycleVars, JoinPublishes, scheduler_destroy, Refused, register_submitter,
           deregister_submitter
<1>12. QED
  BY <1>6, <1>7, <1>8, <1>10, <1>11

(* A scheduler that has left the beginning of start does not come back. *)
LEMMA UnstartedStep ==
    ASSUME LifeInv, [Next]_vars, Unstarted'
    PROVE  Unstarted
<1> USE ThreadKinds
<1>1. TypeOK /\ BaseInv /\ Lifecycle
  BY DEF LifeInv, BaseInv
<1>2. ASSUME NEW label, Goto(Main, label) PROVE pc'[Main] = label
  BY <1>1, <1>2, GotoFacts
<1>3. CASE UNCHANGED vars
  BY <1>3 DEF vars, lifecycleVars, Unstarted
<1>4. CASE MainOnly
  <2>1. CASE JoinWorker \/ LifecycleCallReturnsAtOnce \/ scheduler_destroy
    <3>1. UNCHANGED <<state, pc>>
      BY <2>1 DEF JoinWorker, LifecycleCallReturnsAtOnce, scheduler_destroy, Refused, lifecycleVars
    <3>2. QED
      BY <3>1 DEF Unstarted
  <2>2. CASE StartBegins \/ StartAllocates
    BY <2>2 DEF StartBegins, StartAllocates, Unstarted
  <2>3. CASE ShutdownBegins \/ StartPublishes \/ StartFails \/ JoinPublishes
    <3>1. pc'[Main] \in {"idle", "shutdown_queue"} /\ state' # "INITIALIZED"
      BY <1>2, <2>3 DEF ShutdownBegins, StartPublishes, StartFails, JoinPublishes, LifecycleReturns
    <3>2. QED
      BY <3>1 DEF Unstarted
  <2>4. CASE \/ StartWaits \/ FinishRelease \/ ShutdownWaits \/ JoinWaitFails
             \/ MainSpuriousWakeup \/ JoinWaits
    <3>1. pc'[Main] # "start_allocate"
      BY <1>2, <2>4
         DEF StartWaits, FinishRelease, AfterRelease, ShutdownWaits, JoinWaitFails,
             MainSpuriousWakeup, JoinWaits, BeginRelease, LifecycleReturns, LifecycleWake, WorkerWake
    <3>2. state' = state
      BY <2>4
         DEF StartWaits, FinishRelease, ShutdownWaits, JoinWaitFails,
             MainSpuriousWakeup, JoinWaits, lifecycleVars
    <3>3. QED
      BY <3>1, <3>2 DEF Unstarted
  <2>5. QED
    BY <1>4, <2>1, <2>2, <2>3, <2>4 DEF MainOnly
<1>5. CASE StartAborts \/ ShutdownQueue
  <2>1. state' = state /\ pc'[Main] \in {"start_release", "shutdown_wait"}
    BY <1>2, <1>5 DEF StartAborts, ShutdownQueue, BeginRelease, lifecycleVars
  <2>2. QED
    BY <2>1 DEF Unstarted
<1>6. CASE StartCreates
  <2>1. state' = state /\ pc'[Main] \in {"start_abort", "start_wait", "start_create"}
    BY <1>1, <1>6, CreateFacts DEF StartCreates, lifecycleVars
  <2>2. QED
    BY <2>1 DEF Unstarted
<1>7. ASSUME NEW t \in Workers \cup Submitters, OtherStep(t)
      PROVE  Unstarted
  <2>1. /\ UNCHANGED state
        /\ pc'[Main] \in {pc[Main], LifecycleWake(pc[Main]), WorkerWake(pc[Main])}
    BY <1>1, <1>7, OtherFrame
  <2>2. QED
    BY <2>1 DEF Unstarted, LifecycleWake, WorkerWake
<1>8. QED
  BY <1>3, <1>4, <1>5, <1>6, <1>7, NextSplit

-----------------------------------------------------------------------------
(* A snapshot at rest is taken of a scheduler that still is. *)
LEMMA AtRestRests ==
    ASSUME RestExact, opc # "idle", AtRest
    PROVE  Resting
BY DEF RestExact, AtRest, Resting

(* While the scheduler moves beside the capture. *)
LEMMA RestBeside ==
    ASSUME AccountsInv, RestExact, "wait" \notin Faults, "native_join" \notin Faults,
           [Next]_vars, Beside
    PROVE  RestExact'
<1>1. LifeInv
  BY DEF AccountsInv, TasksInv
<1>2. UNCHANGED <<opc, snapshot>>
  BY DEF Beside, snapshotVars
<1>3. Copied' <=> Copied
  BY <1>2 DEF Copied
<1>4. AtRest' => AtRest
  BY <1>1, <1>2, UnstartedStep DEF AtRest
<1>5. ASSUME opc # "idle", snapshot.state \in {"STOPPED", "FAILED"}
      PROVE  state' \in {"STOPPED", "FAILED"}
  <2>1. state \in {"STOPPED", "FAILED"} /\ Resting
    BY <1>5 DEF RestExact, Resting
  <2>2. QED
    BY <2>1, RestingStep
<1>6. ASSUME opc # "idle", AtRest
      PROVE  /\ SubmissionsExact => SubmissionsExact'
             /\ created_worker_count' = created_worker_count
             /\ CallbacksExact => CallbacksExact'
  <2>1. Resting
    BY <1>6, AtRestRests
  <2>2. /\ Ran' = Ran /\ created_worker_count' = created_worker_count
        /\ tally'["join_failures"] = tally["join_failures"]
        /\ SomeCountTooLarge => SomeCountTooLarge'
    BY <2>1, RestingStep
  <2>3. SubmissionsExact => SubmissionsExact'
    BY <1>2, <2>2 DEF SubmissionsExact
  <2>4. CallbacksExact => CallbacksExact'
    BY <1>2, <2>2 DEF CallbacksExact
  <2>5. QED
    BY <2>2, <2>3, <2>4
<1>7. Copied => opc # "idle"
  BY DEF Copied
<1>8. QED
  BY <1>2, <1>3, <1>4, <1>5, <1>6, <1>7 DEF RestExact

(* The beginning of a capture at rest. *)
LEMMA RestBegins ==
    ASSUME AccountsInv, "wait" \notin Faults, "native_join" \notin Faults,
           UNCHANGED vars, CaptureLifecycle
    PROVE  RestExact'
<1>1. state \in LifecycleStates /\ NothingYet
  BY DEF AccountsInv, TasksInv, LifeInv, BaseInv, TypeOK
<1>2. /\ implementation /\ snapshot'.state = state
      /\ snapshot'.submitted = submitted_count /\ snapshot'.accepted = accepted_count
      /\ snapshot'.rejected = rejected_count
      /\ opc' = IF worker_sync_initialized THEN "worker" ELSE "no_worker"
  BY <1>1, LifecycleCaptured
<1>3. snapshot'.overflow_detected = lifecycle_accounting_overflow
  BY <1>1, LifecycleCaptured
<1>4. UNCHANGED <<state, pc, tally, executed, created_worker_count>>
  BY VarsKept
<1>5. Ran' = Ran /\ (Unstarted' <=> Unstarted) /\ (SomeCountTooLarge' <=> SomeCountTooLarge)
  BY <1>4 DEF Ran, Unstarted, SomeCountTooLarge
<1>6. AtRest' => Resting
  BY <1>2, <1>5 DEF AtRest, Resting
<1>7. ASSUME AtRest' PROVE SubmissionsExact'
  <2>1. /\ lifecycle_accounting_overflow => SomeCountTooLarge
        /\ ~lifecycle_accounting_overflow =>
               /\ submitted_count = accepted_count + rejected_count
               /\ accepted_count = Cardinality(Ran) /\ rejected_count \in Nat
    BY <1>6, <1>7, RestingSubmissions
  <2>2. QED
    BY <1>2, <1>3, <1>5, <2>1 DEF SubmissionsExact
<1>8. opc' = "no_worker" => created_worker_count' = 0
  BY <1>1, <1>2, <1>4 DEF NothingYet
<1>9. ~Copied' /\ opc' # "captured"
  BY <1>2 DEF Copied
<1>10. QED
  BY <1>2, <1>4, <1>7, <1>8, <1>9 DEF RestExact

(* The totals at rest. *)
LEMMA RestTotals ==
    ASSUME AccountsInv, Standing, RestExact, "wait" \notin Faults, "native_join" \notin Faults,
           UNCHANGED vars, CaptureWorker
    PROVE  RestExact'
<1>1. /\ opc = "worker"
      /\ \A c \in Counters : snapshot'[c] = total[c]
      /\ snapshot'.created = created_worker_count
      /\ snapshot'.active = active_worker_count /\ snapshot'.joined = joined_worker_count
      /\ snapshot'.startup_failures = worker_startup_failure_count
      /\ snapshot'.runtime_failures = worker_runtime_failure_count
      /\ snapshot'.join_failures = join_failure_count
      /\ \A f \in DOMAIN snapshot : f \notin WorkerNames => snapshot'[f] = snapshot[f]
      /\ opc' = IF started_worker_count = 0 THEN "queue" ELSE "dequeued"
  BY WorkerCaptured
<1>2. snapshot'.overflow_detected = (snapshot.overflow_detected \/ worker_accounting_overflow)
  BY WorkerCaptured
<1>3. /\ snapshot'.state = snapshot.state /\ snapshot'.submitted = snapshot.submitted
      /\ snapshot'.accepted = snapshot.accepted /\ snapshot'.rejected = snapshot.rejected
  BY <1>1 DEF Standing, LifecycleNames, WorkerNames, Counters
<1>4. /\ snapshot'.dequeued = total["dequeued"] /\ snapshot'.started = total["started"]
      /\ snapshot'.succeeded = total["succeeded"] /\ snapshot'.failed = total["failed"]
      /\ snapshot'.running = total["running"]
  BY <1>1 DEF Counters
<1>5. UNCHANGED <<state, pc, tally, executed, created_worker_count>>
  BY VarsKept
<1>6. Ran' = Ran /\ (Unstarted' <=> Unstarted) /\ (SomeCountTooLarge' <=> SomeCountTooLarge)
  BY <1>5 DEF Ran, Unstarted, SomeCountTooLarge
<1>7. AtRest' => AtRest /\ Resting
  BY <1>1, <1>3, <1>6, AtRestRests DEF AtRest
<1>8. snapshot'.state \in {"STOPPED", "FAILED"} => state' \in {"STOPPED", "FAILED"}
  BY <1>1, <1>3, <1>5 DEF RestExact
<1>9. ASSUME AtRest' PROVE SubmissionsExact' /\ CallbacksExact'
  <2>1. SubmissionsExact
    BY <1>1, <1>7, <1>9 DEF RestExact
  <2>2. /\ worker_accounting_overflow => SomeCountTooLarge
        /\ ~worker_accounting_overflow =>
               /\ total["dequeued"] = Cardinality(Ran) /\ total["started"] = Cardinality(Ran)
               /\ total["started"] = total["succeeded"] + total["failed"]
        /\ Unstarted => /\ total["failed"] = 0 /\ worker_startup_failure_count = 0
                        /\ worker_runtime_failure_count = 0 /\ join_failure_count = 0
    BY <1>7, <1>9, RestingCallbacks
  <2>3. /\ active_worker_count = 0 /\ total["running"] = 0
        /\ created_worker_count = joined_worker_count + tally["join_failures"]
    BY <1>7, <1>9, RestingFacts
  <2>4. snapshot'.state = "INITIALIZED" => Unstarted
    BY <1>3, <1>7, <1>9 DEF AtRest
  <2>5. SubmissionsExact'
    BY <1>2, <1>3, <1>6, <2>1, <2>2 DEF SubmissionsExact
  <2>6. ~snapshot'.overflow_detected => ~worker_accounting_overflow
    BY <1>2
  <2>7. /\ snapshot'.running = 0 /\ snapshot'.active = 0
        /\ snapshot'.created = created_worker_count'
        /\ snapshot'.created = snapshot'.joined + tally'["join_failures"]
    BY <1>1, <1>4, <1>5, <2>3
  <2>8. ~snapshot'.overflow_detected =>
           /\ snapshot'.dequeued = Cardinality(Ran') /\ snapshot'.started = Cardinality(Ran')
           /\ snapshot'.started = snapshot'.succeeded + snapshot'.failed
    BY <1>4, <1>6, <2>2, <2>6
  <2>9. snapshot'.state = "INITIALIZED" =>
           /\ snapshot'.failed = 0 /\ snapshot'.startup_failures = 0
           /\ snapshot'.runtime_failures = 0 /\ snapshot'.join_failures = 0
    BY <1>1, <1>4, <2>2, <2>4
  <2>10. CallbacksExact'
    BY <2>7, <2>8, <2>9 DEF CallbacksExact
  <2>11. QED
    BY <2>5, <2>10
<1>10. opc' # "no_worker" /\ opc' # "captured"
  BY <1>1
<1>11. QED
  BY <1>8, <1>9, <1>10 DEF RestExact

(* At rest there are no workers whose counters could be loaded. *)
LEMMA RestLoads ==
    ASSUME AccountsInv, Standing, RestExact, "wait" \notin Faults, "native_join" \notin Faults,
           UNCHANGED vars, LoadCounter
    PROVE  RestExact'
<1>1. /\ opc \in LoadLabels
      /\ \A f \in DOMAIN snapshot : f # opc /\ f # "overflow_detected" => snapshot'[f] = snapshot[f]
  BY CounterLoaded
<1>2. opc # "idle" /\ "state" \in DOMAIN snapshot /\ scan \in 1..started_worker_count
  BY <1>1 DEF Standing, LifecycleNames, LoadLabels, Counters
<1>3. snapshot'.state = snapshot.state
  BY <1>1, <1>2 DEF LoadLabels, Counters
<1>4. UNCHANGED <<state, pc>>
  BY VarsKept
<1>5. ~AtRest
  <2>1. started_worker_count # 0
    BY <1>2
  <2>2. QED
    BY <1>2, <2>1, AtRestRests, RestingFacts
<1>6. ~AtRest'
  BY <1>3, <1>4, <1>5 DEF AtRest, Unstarted
<1>7. snapshot'.state \in {"STOPPED", "FAILED"} => state' \in {"STOPPED", "FAILED"}
  BY <1>2, <1>3, <1>4 DEF RestExact
<1>8. QED
  BY <1>6, <1>7 DEF RestExact

(* Without worker synchronization nothing has happened. *)
LEMMA RestSkips ==
    ASSUME AccountsInv, Standing, RestExact, "wait" \notin Faults, "native_join" \notin Faults,
           UNCHANGED vars, SkipWorker
    PROVE  RestExact'
<1>1. /\ opc = "no_worker" /\ opc' = "queue"
      /\ \A f \in WorkerNames : f # "overflow_detected" => snapshot'[f] = 0
      /\ \A f \in DOMAIN snapshot :
                f \notin WorkerNames \/ f = "overflow_detected" => snapshot'[f] = snapshot[f]
  BY WorkerSkipped
<1>2. /\ snapshot'.state = snapshot.state /\ snapshot'.submitted = snapshot.submitted
      /\ snapshot'.accepted = snapshot.accepted /\ snapshot'.rejected = snapshot.rejected
  BY <1>1 DEF Standing, LifecycleNames, WorkerNames, Counters
<1>3. snapshot'.overflow_detected = snapshot.overflow_detected
  BY <1>1 DEF Standing, LifecycleNames
<1>4. /\ snapshot'.created = 0 /\ snapshot'.active = 0 /\ snapshot'.joined = 0
      /\ snapshot'.startup_failures = 0 /\ snapshot'.runtime_failures = 0
      /\ snapshot'.join_failures = 0 /\ snapshot'.dequeued = 0 /\ snapshot'.started = 0
      /\ snapshot'.succeeded = 0 /\ snapshot'.failed = 0 /\ snapshot'.running = 0
  BY <1>1 DEF WorkerNames, Counters
<1>5. UNCHANGED <<state, pc, tally, executed, created_worker_count>>
  BY VarsKept
<1>6. Ran' = Ran /\ (Unstarted' <=> Unstarted) /\ (SomeCountTooLarge' <=> SomeCountTooLarge)
  BY <1>5 DEF Ran, Unstarted, SomeCountTooLarge
<1>7. AtRest' => AtRest
  BY <1>2, <1>6 DEF AtRest
<1>8. snapshot'.state \in {"STOPPED", "FAILED"} => state' \in {"STOPPED", "FAILED"}
  BY <1>1, <1>2, <1>5 DEF RestExact
<1>9. ASSUME AtRest' PROVE SubmissionsExact' /\ CallbacksExact'
  <2>1. SubmissionsExact /\ created_worker_count = 0
    BY <1>1, <1>7, <1>9 DEF RestExact
  <2>2. Ran = {} /\ tally["join_failures"] = 0
    BY <2>1 DEF AccountsInv, NothingYet
  <2>3. Cardinality(Ran') = 0
    BY <1>6, <2>2, FS_EmptySet
  <2>4. SubmissionsExact'
    BY <1>2, <1>3, <1>6, <2>1 DEF SubmissionsExact
  <2>5. CallbacksExact'
    BY <1>4, <1>5, <2>1, <2>2, <2>3 DEF CallbacksExact
  <2>6. QED
    BY <2>4, <2>5
<1>10. QED
  BY <1>1, <1>8, <1>9 DEF RestExact

(* The queue at rest is empty. *)
LEMMA RestQueue ==
    ASSUME AccountsInv, Standing, RestExact, "wait" \notin Faults, "native_join" \notin Faults,
           UNCHANGED vars, CaptureQueue
    PROVE  RestExact'
<1>1. /\ opc = "queue" /\ opc' = "captured" /\ snapshot'.size = Len(queue)
      /\ \A f \in DOMAIN snapshot : f \notin {"size", "high_water"} => snapshot'[f] = snapshot[f]
  BY QueueCaptured
<1>2. /\ LifecycleNames \cup WorkerNames \subseteq DOMAIN snapshot /\ Copied /\ opc # "idle"
  BY <1>1 DEF Standing, Copied
<1>3. /\ snapshot'.state = snapshot.state /\ snapshot'.submitted = snapshot.submitted
      /\ snapshot'.accepted = snapshot.accepted /\ snapshot'.rejected = snapshot.rejected
  BY <1>1, <1>2 DEF LifecycleNames
<1>4. snapshot'.overflow_detected = snapshot.overflow_detected
  BY <1>1, <1>2 DEF LifecycleNames
<1>5. /\ snapshot'.created = snapshot.created /\ snapshot'.active = snapshot.active
      /\ snapshot'.joined = snapshot.joined
      /\ snapshot'.startup_failures = snapshot.startup_failures
      /\ snapshot'.runtime_failures = snapshot.runtime_failures
      /\ snapshot'.join_failures = snapshot.join_failures
      /\ snapshot'.dequeued = snapshot.dequeued /\ snapshot'.started = snapshot.started
      /\ snapshot'.succeeded = snapshot.succeeded /\ snapshot'.failed = snapshot.failed
      /\ snapshot'.running = snapshot.running
  BY <1>1, <1>2 DEF WorkerNames, Counters
<1>6. UNCHANGED <<state, pc, tally, executed, created_worker_count>>
  BY VarsKept
<1>7. Ran' = Ran /\ (Unstarted' <=> Unstarted) /\ (SomeCountTooLarge' <=> SomeCountTooLarge)
  BY <1>6 DEF Ran, Unstarted, SomeCountTooLarge
<1>8. AtRest' => AtRest
  BY <1>3, <1>7 DEF AtRest
<1>9. snapshot'.state \in {"STOPPED", "FAILED"} => state' \in {"STOPPED", "FAILED"}
  BY <1>2, <1>3, <1>6 DEF RestExact
<1>10. ASSUME AtRest' PROVE SubmissionsExact' /\ CallbacksExact' /\ snapshot'.size = 0
  <2>1. SubmissionsExact /\ CallbacksExact
    BY <1>2, <1>8, <1>10 DEF RestExact
  <2>2. queue = <<>>
    BY <1>2, <1>8, <1>10, AtRestRests, RestingFacts
  <2>3. SubmissionsExact'
    BY <1>3, <1>4, <1>7, <2>1 DEF SubmissionsExact
  <2>4. CallbacksExact'
    BY <1>3, <1>4, <1>5, <1>6, <1>7, <2>1 DEF CallbacksExact
  <2>5. QED
    BY <1>1, <2>2, <2>3, <2>4
<1>11. QED
  BY <1>1, <1>9, <1>10 DEF RestExact

(* Every step keeps a snapshot at rest exact. *)
LEMMA RestKept ==
    ASSUME AccountsInv, Standing, RestExact, "wait" \notin Faults, "native_join" \notin Faults,
           [ObservedNext]_<<vars, snapshotVars>>
    PROVE  RestExact'
<1>1. CASE opc' = "idle"
  BY <1>1 DEF RestExact, Copied
<1>2. QED
  BY <1>1, ObserverCases, RestBeside, RestBegins, RestTotals, RestLoads, RestSkips, RestQueue

-----------------------------------------------------------------------------
(* A check of every field of a snapshot at rest. *)
LEMMA RestingFields ==
    ASSUME SnapshotInv, RestExact, opc = "captured", AtRest
    PROVE  /\ validate_structural(snapshot) = {} /\ SubmissionsExact /\ CallbacksExact
           /\ snapshot.size = 0 /\ quiescent_mode_applicable(snapshot)
           /\ snapshot.state \in {"INITIALIZED", "STOPPED", "FAILED"}
           /\ snapshot.overflow_detected \in BOOLEAN
<1>1. SubmissionsExact /\ CallbacksExact /\ snapshot.size = 0
  BY DEF RestExact, Copied
<1>2. snapshot.state \in {"INITIALIZED", "STOPPED", "FAILED"}
  BY DEF AtRest
<1>3. snapshot.state = "FAILED" => ~snapshot.submissions_open
  BY DEF SnapshotInv, FlagsSound, lifecycle_flags_valid
<1>4. quiescent_mode_applicable(snapshot)
  BY <1>1, <1>2, <1>3 DEF quiescent_mode_applicable, CallbacksExact
<1>5. snapshot.overflow_detected \in BOOLEAN
  BY DEF SnapshotInv, Standing
<1>6. QED
  BY <1>1, <1>2, <1>4, <1>5, StructureRaisesNothing

(* The figures of one that did not overflow. *)
LEMMA RestingFigures ==
    ASSUME SnapshotInv, RestExact, opc = "captured", AtRest, ~snapshot.overflow_detected
    PROVE  /\ {snapshot.submitted, snapshot.accepted, snapshot.rejected, snapshot.dequeued,
               snapshot.started, snapshot.succeeded, snapshot.failed} \subseteq Nat
           /\ snapshot.submitted = snapshot.accepted + snapshot.rejected
           /\ snapshot.accepted = snapshot.dequeued /\ snapshot.dequeued = snapshot.started
           /\ snapshot.started = snapshot.succeeded + snapshot.failed
           /\ snapshot.size = 0 /\ snapshot.running = 0 /\ snapshot.active = 0
           /\ snapshot.joined # snapshot.created <=> tally["join_failures"] > 0
<1>1. SubmissionsExact /\ CallbacksExact /\ snapshot.size = 0
  BY RestingFields
<1>2. Cardinality(Ran) \in Nat
  BY CountedFinite
<1>3. \A c \in Counters : snapshot[c] \in Nat
  BY SchedulerAssumption DEF SnapshotInv, Standing, Copied
<1>4. snapshot.dequeued \in Nat /\ snapshot.started \in Nat /\ snapshot.succeeded \in Nat
      /\ snapshot.failed \in Nat
  BY <1>3 DEF Counters
<1>5. /\ snapshot.submitted = snapshot.accepted + snapshot.rejected
      /\ snapshot.accepted = Cardinality(Ran) /\ snapshot.rejected \in Nat
  BY <1>1 DEF SubmissionsExact
<1>6. /\ snapshot.dequeued = Cardinality(Ran) /\ snapshot.started = Cardinality(Ran)
      /\ snapshot.started = snapshot.succeeded + snapshot.failed
  BY <1>1 DEF CallbacksExact
<1>7. /\ snapshot.running = 0 /\ snapshot.active = 0
      /\ snapshot.created = snapshot.joined + tally["join_failures"]
  BY <1>1 DEF CallbacksExact
<1>8. tally["join_failures"] \in Nat
  BY DEF SnapshotInv, AccountsInv, TasksInv, LifeInv, BaseInv, TypeOK, Tallied
<1>9. snapshot.created \in Nat /\ snapshot.joined \in Nat
  BY DEF SnapshotInv, WorkersSound, Copied
<1>10. snapshot.joined # snapshot.created <=> tally["join_failures"] > 0
  BY <1>7, <1>8, <1>9
<1>11. QED
  BY <1>1, <1>2, <1>4, <1>5, <1>6, <1>7, <1>10

(* validate_accounting_bounds raises nothing about them. *)
LEMMA RestingBoundsHold ==
    ASSUME SnapshotInv, RestExact, opc = "captured", AtRest, ~snapshot.overflow_detected
    PROVE  validate_accounting_bounds(snapshot) = {}
<1> DEFINE s == snapshot
           checks ==
    [CALLBACK_OUTCOMES_EXCEED_STARTS |-> s.succeeded + s.failed > s.started,
     ACCEPTED_EXCEEDS_SUBMITTED |-> s.accepted > s.submitted,
     REJECTED_EXCEEDS_SUBMITTED |-> s.rejected > s.submitted,
     DEQUEUED_EXCEEDS_ACCEPTED |-> s.dequeued > s.accepted,
     CALLBACK_STARTS_EXCEED_DEQUEUED |-> s.started > s.dequeued]
<1>1. DOMAIN checks = {"CALLBACK_OUTCOMES_EXCEED_STARTS", "ACCEPTED_EXCEEDS_SUBMITTED",
                       "REJECTED_EXCEEDS_SUBMITTED", "DEQUEUED_EXCEEDS_ACCEPTED",
                       "CALLBACK_STARTS_EXCEED_DEQUEUED"}
  OBVIOUS
<1>2. /\ ~(s.succeeded + s.failed > s.started) /\ ~(s.accepted > s.submitted)
      /\ ~(s.rejected > s.submitted) /\ ~(s.dequeued > s.accepted)
      /\ ~(s.started > s.dequeued)
  BY RestingFigures
<1>3. ~checks.CALLBACK_OUTCOMES_EXCEED_STARTS
  BY <1>2
<1>4. ~checks.ACCEPTED_EXCEEDS_SUBMITTED
  BY <1>2
<1>5. ~checks.REJECTED_EXCEEDS_SUBMITTED
  BY <1>2
<1>6. ~checks.DEQUEUED_EXCEEDS_ACCEPTED
  BY <1>2
<1>7. ~checks.CALLBACK_STARTS_EXCEED_DEQUEUED
  BY <1>2
<1>8. validate_accounting_bounds(snapshot) = Raised(checks)
  BY DEF validate_accounting_bounds
<1> HIDE DEF checks
<1>9. QED
  BY <1>1, <1>3, <1>4, <1>5, <1>6, <1>7, <1>8 DEF Raised

(* validate_quiescent raises a join that was rejected, and nothing else. *)
LEMMA RestingBalancesHold ==
    ASSUME SnapshotInv, RestExact, opc = "captured", AtRest, ~snapshot.overflow_detected
    PROVE  validate_quiescent(snapshot) =
               IF snapshot.state = "STOPPED" /\ tally["join_failures"] > 0
               THEN {"STOPPED_WORKERS_NOT_JOINED"} ELSE {}
<1> DEFINE s == snapshot
           checks ==
    [SUBMISSION_BALANCE_MISMATCH |-> s.submitted # s.accepted + s.rejected,
     ACCEPTED_DEQUEUED_MISMATCH |-> s.accepted # s.dequeued,
     DEQUEUED_CALLBACK_MISMATCH |-> s.dequeued # s.started,
     CALLBACK_BALANCE_MISMATCH |-> s.started # s.succeeded + s.failed,
     QUIESCENT_QUEUE_NOT_EMPTY |-> s.size # 0,
     QUIESCENT_CALLBACK_RUNNING |-> s.running # 0,
     QUIESCENT_WORKER_ACTIVE |-> s.active # 0,
     STOPPED_WORKERS_NOT_JOINED |-> s.state = "STOPPED" /\ s.joined # s.created]
<1>1. DOMAIN checks = {"SUBMISSION_BALANCE_MISMATCH", "ACCEPTED_DEQUEUED_MISMATCH",
                       "DEQUEUED_CALLBACK_MISMATCH", "CALLBACK_BALANCE_MISMATCH",
                       "QUIESCENT_QUEUE_NOT_EMPTY", "QUIESCENT_CALLBACK_RUNNING",
                       "QUIESCENT_WORKER_ACTIVE", "STOPPED_WORKERS_NOT_JOINED"}
  OBVIOUS
<1>2. ~checks.SUBMISSION_BALANCE_MISMATCH
  BY RestingFigures
<1>3. ~checks.ACCEPTED_DEQUEUED_MISMATCH
  BY RestingFigures
<1>4. ~checks.DEQUEUED_CALLBACK_MISMATCH
  BY RestingFigures
<1>5. ~checks.CALLBACK_BALANCE_MISMATCH
  BY RestingFigures
<1>6. ~checks.QUIESCENT_QUEUE_NOT_EMPTY
  BY RestingFigures
<1>7. ~checks.QUIESCENT_CALLBACK_RUNNING
  BY RestingFigures
<1>8. ~checks.QUIESCENT_WORKER_ACTIVE
  BY RestingFigures
<1>9. checks.STOPPED_WORKERS_NOT_JOINED
      <=> snapshot.state = "STOPPED" /\ tally["join_failures"] > 0
  BY RestingFigures
<1>10. validate_quiescent(snapshot) = Raised(checks)
  BY DEF validate_quiescent
<1> HIDE DEF checks
<1>11. CASE checks.STOPPED_WORKERS_NOT_JOINED
  <2>1. Raised(checks) = {"STOPPED_WORKERS_NOT_JOINED"}
    BY <1>1, <1>2, <1>3, <1>4, <1>5, <1>6, <1>7, <1>8, <1>11 DEF Raised
  <2>2. QED
    BY <1>9, <1>10, <1>11, <2>1
<1>12. CASE ~checks.STOPPED_WORKERS_NOT_JOINED
  <2>1. Raised(checks) = {}
    BY <1>1, <1>2, <1>3, <1>4, <1>5, <1>6, <1>7, <1>8, <1>12 DEF Raised
  <2>2. QED
    BY <1>9, <1>10, <1>12, <2>1
<1>13. QED
  BY <1>11, <1>12

(* The older validator of scheduler.c comes to the same verdict. *)
LEMMA RestingValidatorsAgree ==
    ASSUME SnapshotInv, RestExact, opc = "captured", AtRest, ~snapshot.overflow_detected
    PROVE  scheduler_snapshot_validate_quiescent(snapshot)
           <=> ~(snapshot.state = "STOPPED" /\ tally["join_failures"] > 0)
<1>1. /\ snapshot.created \in Nat /\ snapshot.ready \in Nat /\ snapshot.joined \in Nat
      /\ snapshot.created <= WorkerCount /\ snapshot.ready <= snapshot.created
      /\ snapshot.active + snapshot.joined <= snapshot.created
  BY DEF SnapshotInv, WorkersSound, Copied
<1>2. /\ snapshot.size \in Nat /\ snapshot.high_water \in Nat
      /\ snapshot.size <= snapshot.high_water /\ snapshot.high_water <= Capacity
  BY DEF SnapshotInv, QueueSound
<1>3. Capacity \in Nat /\ WorkerCount \in Nat
  BY SchedulerAssumption
<1>4. /\ snapshot.size <= Capacity /\ snapshot.joined <= snapshot.created
      /\ snapshot.active <= snapshot.created /\ snapshot.running <= snapshot.active
  BY <1>1, <1>2, <1>3, RestingFigures
<1>5. /\ snapshot.accepted <= snapshot.submitted /\ snapshot.rejected <= snapshot.submitted
      /\ snapshot.started <= snapshot.dequeued /\ snapshot.succeeded <= snapshot.started
      /\ snapshot.failed <= snapshot.started - snapshot.succeeded
      /\ snapshot.submitted - snapshot.accepted = snapshot.rejected
      /\ snapshot.started - snapshot.succeeded = snapshot.failed
  BY RestingFigures
<1>6. scheduler_snapshot_validate_basic(snapshot)
  BY <1>1, <1>2, <1>4, <1>5 DEF scheduler_snapshot_validate_basic
<1>7. QED
  BY <1>5, <1>6, RestingFigures DEF scheduler_snapshot_validate_quiescent

(* Exact fields make an exact verdict. *)
LEMMA RestingVerdict ==
    ASSUME SnapshotInv, RestExact
    PROVE  RestingSnapshotExact
<1> DEFINE validation == scheduler_snapshot_validate(snapshot, "QUIESCENT")
           health == scheduler_snapshot_derive_health(snapshot, validation)
           unjoined == snapshot.state = "STOPPED" /\ tally["join_failures"] > 0
<1> SUFFICES ASSUME opc = "captured", AtRest
             PROVE  /\ validation.incomplete = snapshot.overflow_detected
                    /\ snapshot.overflow_detected =>
                           /\ SomeCountTooLarge /\ validation.violations = {}
                           /\ snapshot.state = "INITIALIZED" => health = "DEGRADED"
                    /\ ~snapshot.overflow_detected =>
                           /\ validation.violations =
                                  IF unjoined THEN {"STOPPED_WORKERS_NOT_JOINED"} ELSE {}
                           /\ scheduler_snapshot_validate_quiescent(snapshot) <=> ~unjoined
                           /\ health = CASE snapshot.state = "INITIALIZED" -> "HEALTHY"
                                        [] snapshot.state = "FAILED" \/ unjoined -> "FAILED"
                                        [] OTHER -> "STOPPED"
  BY Zenon DEF RestingSnapshotExact, AtRest, Unstarted
<1>1. /\ validate_structural(snapshot) = {} /\ SubmissionsExact /\ CallbacksExact
      /\ quiescent_mode_applicable(snapshot)
      /\ snapshot.state \in {"INITIALIZED", "STOPPED", "FAILED"}
  BY RestingFields
<1>2. snapshot.overflow_detected \in BOOLEAN
  BY RestingFields
<1>3. validation.incomplete = snapshot.overflow_detected
  BY <1>1, <1>2 DEF scheduler_snapshot_validate
<1>4. ASSUME snapshot.overflow_detected
      PROVE  /\ SomeCountTooLarge /\ validation.violations = {}
             /\ snapshot.state = "INITIALIZED" => health = "DEGRADED"
  <2>1. SomeCountTooLarge
    BY <1>1, <1>4 DEF SubmissionsExact
  <2>2. validation.violations = {}
    BY <1>1, <1>4 DEF scheduler_snapshot_validate
  <2>3. validation.incomplete
    BY <1>3, <1>4
  <2> HIDE DEF validation
  <2>4. snapshot.state = "INITIALIZED" => health = "DEGRADED"
    BY <2>2, <2>3 DEF scheduler_snapshot_derive_health
  <2>5. QED
    BY <2>1, <2>2, <2>4
<1>5. ASSUME ~snapshot.overflow_detected
      PROVE  /\ validation.violations =
                    IF unjoined THEN {"STOPPED_WORKERS_NOT_JOINED"} ELSE {}
             /\ scheduler_snapshot_validate_quiescent(snapshot) <=> ~unjoined
             /\ health = CASE snapshot.state = "INITIALIZED" -> "HEALTHY"
                          [] snapshot.state = "FAILED" \/ unjoined -> "FAILED"
                          [] OTHER -> "STOPPED"
  <2>1. validate_accounting_bounds(snapshot) = {}
    BY <1>5, RestingBoundsHold
  <2>2. validate_quiescent(snapshot) =
            IF unjoined THEN {"STOPPED_WORKERS_NOT_JOINED"} ELSE {}
    BY <1>5, RestingBalancesHold
  <2>3. validation.violations = validate_quiescent(snapshot)
    BY <1>1, <1>5, <2>1 DEF scheduler_snapshot_validate
  <2>4. scheduler_snapshot_validate_quiescent(snapshot) <=> ~unjoined
    BY <1>5, RestingValidatorsAgree
  <2>5. ~validation.incomplete
    BY <1>3, <1>5
  <2>6. validation.violations # {} <=> unjoined
    BY <2>2, <2>3
  <2>7. snapshot.state = "INITIALIZED" =>
            /\ snapshot.failed = 0 /\ snapshot.startup_failures = 0
            /\ snapshot.runtime_failures = 0 /\ snapshot.join_failures = 0
    BY <1>1 DEF CallbacksExact
  <2>8. unjoined => snapshot.state = "STOPPED"
    OBVIOUS
  <2> HIDE DEF validation, unjoined
  <2>9. health = CASE snapshot.state = "INITIALIZED" -> "HEALTHY"
                   [] snapshot.state = "FAILED" \/ unjoined -> "FAILED"
                   [] OTHER -> "STOPPED"
    <3>1. CASE snapshot.state = "INITIALIZED"
      BY <2>5, <2>6, <2>7, <2>8, <3>1 DEF scheduler_snapshot_derive_health
    <3>2. CASE snapshot.state = "FAILED"
      BY <3>2 DEF scheduler_snapshot_derive_health
    <3>3. CASE snapshot.state = "STOPPED" /\ unjoined
      BY <2>6, <3>3 DEF scheduler_snapshot_derive_health
    <3>4. CASE snapshot.state = "STOPPED" /\ ~unjoined
      BY <2>6, <3>4 DEF scheduler_snapshot_derive_health
    <3>5. QED
      BY <1>1, <3>1, <3>2, <3>3, <3>4
  <2>10. QED
    BY <2>2, <2>3, <2>4, <2>9
<1>6. QED
  BY <1>3, <1>4, <1>5

(* A snapshot of a scheduler at rest validates exactly, both validators    *)
(* agree on it, and it is incomplete only when a count really did not fit, *)
(* provided that no wait and no native join fails: a worker whose wait     *)
(* failed is not counted as joined although its join did not fail, and a   *)
(* native join made good by a retry stays counted as a failure.            *)
THEOREM RestingSnapshotsExact ==
    ASSUME "wait" \notin Faults, "native_join" \notin Faults
    PROVE  ObservedSpec => []RestingSnapshotExact
<1>1. Init /\ ObserverInit => SnapshotInv /\ RestExact
  BY InitSnapshot DEF ObserverInit, RestExact, Copied
<1>2. SnapshotInv /\ RestExact /\ [ObservedNext]_<<vars, snapshotVars>>
      => SnapshotInv' /\ RestExact'
  BY StepSnapshot, RestKept DEF SnapshotInv
<1>3. SnapshotInv /\ RestExact => RestingSnapshotExact
  BY RestingVerdict
<1>4. QED
  BY <1>1, <1>2, <1>3, PTL DEF ObservedSpec
=============================================================================
