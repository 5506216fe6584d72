--------------------- MODULE SchedulerLifecycle_proofs ---------------------
(***************************************************************************)
(* Proofs about the lifecycle of a Scheduler (src/src/scheduler.c): what   *)
(* start, shutdown, join and destroy leave behind, whatever submitters,    *)
(* workers and failures do meanwhile.                                      *)
(*                                                                         *)
(* The inductive invariant is LifeInv.  Its parts say where Main may stand *)
(* in each lifecycle state, which workers exist, from when on the queue is *)
(* closed, and that the gate and worker counts are numbers of threads.     *)
(***************************************************************************)
EXTENDS Scheduler_proofs

(* Where Main stands in a lifecycle call decides the lifecycle state. *)
StartLabels == {"start_allocate", "start_create", "start_wait", "start_asleep",
                "start_publish", "start_abort", "start_release", "start_fail"}
ShutdownLabels == {"shutdown_queue", "shutdown_wait", "shutdown_asleep"}
JoinLabels == {"join_wait", "join_asleep", "join_release", "join_publish"}

Lifecycle ==
    /\ pc[Main] = "idle" => state # "STARTING"
    /\ pc[Main] \in StartLabels => state = "STARTING"
    /\ pc[Main] \in ShutdownLabels => state = "SHUTTING_DOWN"
    /\ pc[Main] \in JoinLabels => state \in {"SHUTTING_DOWN", "FAILED"}
    /\ ~implementation => pc[Main] = "idle"

(* Which workers exist: those counted in created_worker_count, which the   *)
(* arrays hold until they are freed.                                       *)
Arrays ==
    /\ state \in {"INITIALIZED", "STOPPED"} \/ pc[Main] = "start_allocate" => ~allocated
    /\ state = "INITIALIZED" \/ pc[Main] = "start_allocate" => created_worker_count = 0
    /\ allocated => started_worker_count = created_worker_count
    /\ \A w \in Workers : pc[w] = "none" <=> w > created_worker_count
    /\ created_worker_count <= WorkerCount
    /\ \/ state \in {"RUNNING", "SHUTTING_DOWN"}
       \/ pc[Main] \in {"start_wait", "start_asleep", "start_publish"}
       => created_worker_count = WorkerCount

(* Once shutdown or a failed start has got that far the queue is closed. *)
Closed ==
    /\ state = "SHUTTING_DOWN" => shutdown_requested \/ pc[Main] = "shutdown_queue"
    /\ state \in {"STOPPED", "FAILED"} => shutdown_requested
    /\ pc[Main] \in {"start_release", "start_fail"} => shutdown_requested

-----------------------------------------------------------------------------
(* The steps of a submitter or a worker, inside the queue too. *)
OtherStep(t) ==
    \/ \E call \in {"submit", "try_submit"} : register_submitter(t, call)
    \/ SubmitToQueue(t) \/ deregister_submitter(t)
    \/ QueueResumes(t) \/ QueueWaitEnds(t)
    \/ t \in Workers /\ scheduler_worker_entry(t)

(* Such a step leaves the lifecycle alone; it may wake Main. *)
LEMMA OtherFrame ==
    ASSUME BaseInv, NEW t \in Workers \cup Submitters, OtherStep(t)
    PROVE  /\ UNCHANGED <<implementation, state, allocated, handle,
                          started_worker_count, created_worker_count,
                          joined_worker_count, joinVars, returned>>
           /\ pc'[Main] \in {pc[Main], LifecycleWake(pc[Main]), WorkerWake(pc[Main])}
           /\ \A u \in Threads : u # t /\ u # Main => pc'[u] = pc[u]
           /\ t \in Workers => pc[t] \notin {"none", "exited"} /\ pc'[t] # "none"
<1> USE ThreadKinds
<1>1. TypeOK /\ QueueUse /\ QueueInv
  BY DEF BaseInv
<1>2. UNCHANGED <<implementation, state, allocated, handle, started_worker_count,
                  created_worker_count, joined_worker_count, joinVars, returned>>
  BY DEF OtherStep, register_submitter, SubmitToQueue, deregister_submitter,
         QueueResumes, QueueWaitEnds, scheduler_worker_entry, WorkerReady, WorkerDequeue,
         WorkerCountsDequeue, WorkerCountsStart, WorkerExecutes, CallbackReturns,
         WorkerCountsStop, WorkerQueueFailure, WorkerExits, record_worker_exit,
         lifecycleVars, workerVars
<1> DEFINE P == /\ pc'[Main] \in {pc[Main], LifecycleWake(pc[Main]), WorkerWake(pc[Main])}
                /\ \A u \in Threads : u # t /\ u # Main => pc'[u] = pc[u]
                /\ t \in Workers => pc[t] \notin {"none", "exited"} /\ pc'[t] # "none"
<1> SUFFICES P
  BY <1>2
<1>3. ASSUME NEW label, Goto(t, label), label # "none", pc[t] \notin {"none", "exited"}
      PROVE  P
  BY <1>1, <1>3, GotoFacts
<1>4. ASSUME NEW m \in {pc[Main], LifecycleWake(pc[Main]), WorkerWake(pc[Main])},
             NEW label, pc' = [pc EXCEPT ![t] = label, ![Main] = m],
             label # "none", pc[t] \notin {"none", "exited"}
      PROVE  P
  <2>1. pc'[t] = label /\ pc'[Main] = m
    BY <1>1, <1>4 DEF TypeOK
  <2>2. \A u \in Threads : u # t /\ u # Main => pc'[u] = pc[u]
    BY <1>1, <1>4 DEF TypeOK
  <2>3. QED
    BY <1>4, <2>1, <2>2
<1>5. ASSUME NEW call \in {"submit", "try_submit"}, register_submitter(t, call)
      PROVE  P
  <2>1. pc[t] \notin {"none", "exited"} /\ (pc' = pc \/ Goto(t, call))
    BY <1>5 DEF register_submitter, Home
  <2>2. QED
    BY <1>3, <2>1
<1>6. CASE SubmitToQueue(t)
  BY <1>3, <1>6 DEF SubmitToQueue
<1>7. CASE deregister_submitter(t)
  <2>1. /\ pc[t] \in {"submitted", "try_submitted"}
        /\ pc' = [pc EXCEPT ![t] = Home(t),
                            ![Main] = IF active_submitter_count' = 0
                                      THEN LifecycleWake(@) ELSE @]
    BY <1>7 DEF deregister_submitter
  <2>2. PICK m \in {pc[Main], LifecycleWake(pc[Main])} :
             pc' = [pc EXCEPT ![t] = Home(t), ![Main] = m]
    BY <1>1, <2>1 DEF TypeOK
  <2>3. QED
    BY <1>4, <2>1, <2>2 DEF Home
<1>8. CASE QueueResumes(t) \/ QueueWaitEnds(t)
  <2>1. pc' = pc
    BY <1>8 DEF QueueResumes, QueueWaitEnds
  <2>2. qpc[t] \in Q!ProducerStates \cup Q!ConsumerStates
    BY <1>1, <1>8, ResumeFacts, WaitEndsFacts
       DEF QueueResumes, QueueWaitEnds, Q!ProducerStates, Q!ConsumerStates
  <2>3. QED
    BY <1>1, <2>1, <2>2 DEF QueueUse
<1>9. CASE t \in Workers /\ WorkerReady(t)
  <2>1. pc[t] = "entry" /\ pc' = [pc EXCEPT ![t] = "dequeue", ![Main] = WorkerWake(@)]
    BY <1>9 DEF WorkerReady
  <2>2. pc' = [pc EXCEPT ![t] = "dequeue", ![Main] = WorkerWake(pc[Main])]
    BY <1>1, <1>9, <2>1 DEF TypeOK
  <2>3. QED
    BY <1>4, <2>1, <2>2
<1>10. CASE /\ t \in Workers
            /\ \/ WorkerDequeue(t) \/ WorkerCountsDequeue(t)
               \/ WorkerCountsStart(t) \/ WorkerExecutes(t) \/ CallbackReturns(t)
               \/ WorkerCountsStop(t) \/ WorkerQueueFailure(t) \/ WorkerExits(t)
  BY <1>3, <1>10
     DEF WorkerDequeue, WorkerCountsDequeue, WorkerCountsStart, WorkerExecutes,
         CallbackReturns, WorkerCountsStop, WorkerQueueFailure, WorkerExits,
         record_worker_exit
<1>11. QED
  BY <1>5, <1>6, <1>7, <1>8, <1>9, <1>10 DEF OtherStep, scheduler_worker_entry

(* Every step is one of Main's or one of these. *)
LEMMA NextSplit ==
    ASSUME [Next]_vars
    PROVE  \/ UNCHANGED vars
           \/ MainOnly \/ StartCreates \/ StartAborts \/ ShutdownQueue
           \/ \E t \in Workers \cup Submitters : OtherStep(t)
<1>1. ASSUME NEW w \in Workers,
             \/ WorkerReady(w) \/ WorkerDequeue(w) \/ WorkerCountsDequeue(w)
             \/ WorkerCountsStart(w) \/ WorkerExecutes(w) \/ CallbackReturns(w)
             \/ WorkerCountsStop(w) \/ WorkerQueueFailure(w) \/ WorkerExits(w)
      PROVE  OtherStep(w)
  BY <1>1 DEF OtherStep, scheduler_worker_entry
<1>2. QED
  BY <1>1, NextCases DEF OtherStep, MainOnly

(* Nothing opens the queue again. *)
LEMMA ShutdownKept ==
    ASSUME BaseInv, [Next]_vars
    PROVE  shutdown_requested => shutdown_requested'
<1>1. [Q!Next]_(Q!vars)
  BY QueueStep DEF BaseInv
<1>2. QED
  BY <1>1
     DEF Q!Next, Q!vars, Q!Call, Q!Resume, Q!SpuriousWakeup, Q!WaitFails,
         Q!FailedWaitReturns, Q!concurrent_task_queue_enqueue,
         Q!concurrent_task_queue_try_enqueue, Q!concurrent_task_queue_dequeue,
         Q!concurrent_task_queue_try_dequeue, Q!concurrent_task_queue_try_peek,
         Q!concurrent_task_queue_shutdown, Q!InvalidArgument, Q!Insert, Q!Remove,
         Q!object

(* The lifecycle, the arrays and the queue's end, per step. *)
LEMMA LifecycleKept ==
    ASSUME BaseInv, Lifecycle, [Next]_vars
    PROVE  Lifecycle'
<1> USE ThreadKinds
<1>1. TypeOK /\ TypeOK'
  BY TypeStep DEF BaseInv
<1>2. ASSUME NEW label, Goto(Main, label) PROVE pc'[Main] = label
  BY <1>1, <1>2, GotoFacts
<1>3. CASE UNCHANGED vars
  BY <1>3 DEF vars, lifecycleVars, Lifecycle
<1>4. CASE LifecycleCallReturnsAtOnce \/ scheduler_destroy
  BY <1>4
     DEF LifecycleCallReturnsAtOnce, scheduler_destroy, Refused, Lifecycle, lifecycleVars,
         Destructible
<1>5. CASE StartBegins \/ ShutdownBegins \/ StartPublishes \/ StartFails \/ JoinPublishes
  BY <1>2, <1>5
     DEF StartBegins, ShutdownBegins, StartPublishes, StartFails, JoinPublishes,
         LifecycleReturns, Lifecycle, StartLabels, ShutdownLabels, JoinLabels
<1>6. CASE StartAllocates
  BY <1>2, <1>6
     DEF StartAllocates, LifecycleReturns, Lifecycle, StartLabels, ShutdownLabels,
         JoinLabels
<1>7. CASE \/ StartWaits \/ StartAborts \/ ShutdownQueue \/ ShutdownWaits
           \/ JoinWaits \/ JoinWaitFails
  <2>1. UNCHANGED <<implementation, state>>
    BY <1>7 DEF StartWaits, StartAborts, ShutdownQueue, ShutdownWaits, JoinWaits,
                JoinWaitFails, lifecycleVars
  <2>2. QED
    BY <1>2, <1>7, <2>1
       DEF StartWaits, StartAborts, ShutdownQueue, ShutdownWaits, JoinWaits,
           JoinWaitFails, BeginRelease, LifecycleReturns, Lifecycle, StartLabels,
           ShutdownLabels, JoinLabels
<1>8. CASE FinishRelease \/ JoinWorker \/ MainSpuriousWakeup
  <2>1. UNCHANGED <<implementation, state>>
    BY <1>8 DEF FinishRelease, JoinWorker, MainSpuriousWakeup, lifecycleVars
  <2>2. QED
    BY <1>2, <1>8, <2>1
       DEF FinishRelease, AfterRelease, JoinWorker, MainSpuriousWakeup, LifecycleWake,
           WorkerWake, Lifecycle, StartLabels, ShutdownLabels, JoinLabels
<1>9. CASE StartCreates
  <2>1. UNCHANGED <<implementation, state>>
    BY <1>9 DEF StartCreates, lifecycleVars
  <2>2. /\ pc[Main] = "start_create"
        /\ pc'[Main] \in {"start_abort", "start_wait", "start_create"}
    BY <1>1, <1>9, CreateFacts
  <2>3. QED
    BY <2>1, <2>2 DEF Lifecycle, StartLabels, ShutdownLabels, JoinLabels
<1>10. ASSUME NEW t \in Workers \cup Submitters, OtherStep(t)
       PROVE  Lifecycle'
  <2>1. /\ UNCHANGED <<implementation, state>>
        /\ pc'[Main] \in {pc[Main], LifecycleWake(pc[Main]), WorkerWake(pc[Main])}
    BY <1>10, OtherFrame
  <2>2. QED
    BY <2>1 DEF LifecycleWake, WorkerWake, Lifecycle, StartLabels, ShutdownLabels,
                JoinLabels
<1>11. QED
  BY <1>3, <1>4, <1>5, <1>6, <1>7, <1>8, <1>9, <1>10, NextSplit DEF MainOnly

(* A worker exists from its creation on, and start and join free what they allocated. *)
LEMMA ArraysKept ==
    ASSUME BaseInv, Lifecycle, Arrays, [Next]_vars
    PROVE  Arrays'
<1> USE ThreadKinds
<1>1. TypeOK /\ TypeOK' /\ Handles
  BY TypeStep DEF BaseInv
<1>2. ASSUME NEW label, Goto(Main, label) PROVE pc'[Main] = label
  BY <1>1, <1>2, GotoFacts
<1> DEFINE Created == {"start_wait", "start_asleep", "start_publish"}
<1>3. ASSUME UNCHANGED <<state, allocated, started_worker_count, created_worker_count>>,
             \A w \in Workers : pc'[w] = "none" <=> pc[w] = "none",
             pc'[Main] = "start_allocate" => pc[Main] = "start_allocate",
             pc'[Main] \in Created => pc[Main] \in Created
      PROVE  Arrays'
  BY <1>3 DEF Arrays
<1>4. CASE UNCHANGED vars
  BY <1>3, <1>4 DEF vars, lifecycleVars, workerVars
<1>5. CASE MainOnly
  <2>1. \A w \in Workers : pc'[w] = pc[w]
    BY <1>1, <1>5, MainOnlyFrame
  <2>2. created_worker_count' = created_worker_count
    BY <1>5
       DEF MainOnly, LifecycleCallReturnsAtOnce, Refused, StartBegins, ShutdownBegins,
           JoinWaits, scheduler_destroy, StartAllocates, StartPublishes, StartFails,
           StartWaits, JoinWorker, FinishRelease, ShutdownWaits, JoinPublishes,
           JoinWaitFails, MainSpuriousWakeup, workerVars
  <2>3. CASE UNCHANGED <<state, allocated, started_worker_count>> /\ ~StartBegins
    <3>1. /\ pc'[Main] = "start_allocate" => pc[Main] = "start_allocate"
          /\ pc'[Main] \in Created => pc[Main] \in Created
      BY <1>2, <1>5, <2>3
         DEF MainOnly, LifecycleCallReturnsAtOnce, Refused, ShutdownBegins,
             JoinWaits, scheduler_destroy, StartAllocates, StartPublishes, StartFails,
             StartWaits, JoinWorker, FinishRelease, ShutdownWaits, JoinPublishes,
             JoinWaitFails, MainSpuriousWakeup, BeginRelease, LifecycleReturns,
             AfterRelease, LifecycleWake, WorkerWake
    <3>2. QED
      BY <1>3, <2>1, <2>2, <2>3, <3>1
  <2>4. CASE StartBegins \/ ShutdownBegins \/ StartPublishes \/ StartFails \/ JoinPublishes
    <3>1. UNCHANGED <<allocated, started_worker_count>>
      BY <2>4 DEF StartBegins, ShutdownBegins, StartPublishes, StartFails,
                  JoinPublishes, workerVars
    <3>2. QED
      BY <1>2, <2>1, <2>2, <2>4, <3>1
         DEF StartBegins, ShutdownBegins, StartPublishes, StartFails, JoinPublishes,
             LifecycleReturns, Arrays
  <2>5. CASE StartAllocates
    <3>1. UNCHANGED started_worker_count
      BY <2>5 DEF StartAllocates
    <3>2. state = "STARTING" /\ started_worker_count = 0 /\ created_worker_count = 0
      BY <1>1, <2>5 DEF StartAllocates, Lifecycle, StartLabels, Arrays, Handles
    <3>3. \/ pc'[Main] = "start_create" /\ state' = state
          \/ pc'[Main] = "idle" /\ state' = "INITIALIZED" /\ allocated' = allocated
      BY <1>2, <2>5 DEF StartAllocates, LifecycleReturns
    <3>4. QED
      BY <2>1, <2>2, <2>5, <3>1, <3>2, <3>3 DEF StartAllocates, Arrays
  <2>6. CASE FinishRelease
    <3>1. /\ state' = state /\ pc[Main] \in ReleaseLabels
          /\ pc'[Main] \in {"start_fail", "join_publish"}
      BY <1>2, <2>6 DEF FinishRelease, AfterRelease, ReleaseLabels, lifecycleVars
    <3>2. \/ UNCHANGED <<allocated, started_worker_count>>
          \/ ~allocated'
      BY <2>6 DEF FinishRelease, FreeArrays
    <3>3. QED
      BY <2>1, <2>2, <3>1, <3>2 DEF Arrays
  <2>7. \/ UNCHANGED <<state, allocated, started_worker_count>>
        \/ StartBegins \/ ShutdownBegins \/ StartPublishes \/ StartFails
        \/ JoinPublishes \/ StartAllocates \/ FinishRelease
    BY <1>5
       DEF MainOnly, LifecycleCallReturnsAtOnce, Refused, JoinWaits, scheduler_destroy,
           StartWaits, JoinWorker, ShutdownWaits, JoinWaitFails, MainSpuriousWakeup,
           lifecycleVars, workerVars
  <2>8. QED
    BY <2>3, <2>4, <2>5, <2>6, <2>7
<1>6. CASE StartCreates
  <2> DEFINE n == started_worker_count + 1
  <2>1. /\ UNCHANGED <<state, allocated>>
        /\ pc[Main] = "start_create"
        /\ state = "STARTING" /\ allocated
    BY <1>1, <1>6, CreateFacts
       DEF StartCreates, lifecycleVars, Lifecycle, StartLabels, Handles
  <2>2. started_worker_count = created_worker_count
    BY <2>1 DEF Arrays
  <2>3. CASE pc'[Main] = "start_abort"
    <3>1. \A u \in Workers : pc'[u] = pc[u]
      BY <1>1, <1>6, <2>3, CreateFacts
    <3>2. UNCHANGED <<started_worker_count, created_worker_count>>
      BY <1>1, <1>6, <2>3, CreateFacts
    <3>3. QED
      BY <1>3, <2>1, <2>3, <3>1, <3>2
  <2>4. CASE pc'[Main] # "start_abort"
    <3>1. /\ n \in Workers /\ pc'[n] = "entry"
          /\ pc'[Main] = IF n = WorkerCount THEN "start_wait" ELSE "start_create"
          /\ \A u \in Workers : u # n => pc'[u] = pc[u]
          /\ started_worker_count' = n /\ created_worker_count' = n
      BY <1>1, <1>6, <2>2, <2>4, CreateFacts DEF CountCreated
    <3>2. ASSUME NEW u \in Workers PROVE pc'[u] = "none" <=> u > created_worker_count'
      BY <1>1, <2>2, <3>1 DEF Arrays, TypeOK
    <3>3. created_worker_count' <= WorkerCount
      BY <3>1 DEF Workers
    <3>4. QED
      BY <2>1, <3>1, <3>2, <3>3 DEF Arrays
  <2>5. QED
    BY <2>3, <2>4
<1>7. CASE StartAborts \/ ShutdownQueue
  <2>1. /\ UNCHANGED <<state, allocated, started_worker_count, created_worker_count>>
        /\ \E label \in {"start_release", "shutdown_wait"} : Goto(Main, label)
    BY <1>7 DEF StartAborts, ShutdownQueue, BeginRelease, lifecycleVars, workerVars
  <2>2. /\ pc'[Main] \in {"start_release", "shutdown_wait"}
        /\ \A u \in Workers : pc'[u] = pc[u]
    BY <1>1, <2>1, GotoFacts
  <2>3. QED
    BY <1>3, <2>1, <2>2
<1>8. ASSUME NEW t \in Workers \cup Submitters, OtherStep(t)
      PROVE  Arrays'
  <2>1. /\ UNCHANGED <<state, allocated, started_worker_count, created_worker_count>>
        /\ pc'[Main] \in {pc[Main], LifecycleWake(pc[Main]), WorkerWake(pc[Main])}
        /\ \A u \in Threads : u # t /\ u # Main => pc'[u] = pc[u]
        /\ t \in Workers => pc[t] \notin {"none", "exited"} /\ pc'[t] # "none"
    BY <1>8, OtherFrame
  <2>2. \A w \in Workers : pc'[w] = "none" <=> pc[w] = "none"
    BY <2>1
  <2>3. /\ pc'[Main] = "start_allocate" => pc[Main] = "start_allocate"
        /\ pc'[Main] \in Created => pc[Main] \in Created
    BY <2>1 DEF LifecycleWake, WorkerWake
  <2>4. QED
    BY <1>3, <2>1, <2>2, <2>3
<1>9. QED
  BY <1>4, <1>5, <1>6, <1>7, <1>8, NextSplit

(* Shutdown and a failed start close the queue before they go on. *)
LEMMA ClosedKept ==
    ASSUME BaseInv, Lifecycle, Closed, [Next]_vars
    PROVE  Closed'
<1> USE ThreadKinds
<1>1. TypeOK /\ QueueInv
  BY DEF BaseInv
<1>2. ASSUME NEW label, Goto(Main, label) PROVE pc'[Main] = label
  BY <1>1, <1>2, GotoFacts
<1>3. shutdown_requested => shutdown_requested'
  BY ShutdownKept
<1>4. ASSUME UNCHANGED state, pc[Main] = "shutdown_queue" => pc'[Main] = "shutdown_queue",
             pc'[Main] \in {"start_release", "start_fail"}
                 => pc[Main] \in {"start_release", "start_fail"}
      PROVE  Closed'
  BY <1>3, <1>4 DEF Closed
<1>5. CASE UNCHANGED vars
  BY <1>4, <1>5 DEF vars, lifecycleVars
<1>6. CASE StartAborts \/ ShutdownQueue
  <2>1. shutdown_requested'
    BY <1>1, <1>6, ShutdownFacts DEF StartAborts, ShutdownQueue
  <2>2. QED
    BY <2>1 DEF Closed
<1>7. CASE StartBegins \/ ShutdownBegins \/ StartPublishes \/ StartFails \/ JoinPublishes
  BY <1>2, <1>3, <1>7
     DEF StartBegins, ShutdownBegins, StartPublishes, StartFails, JoinPublishes,
         LifecycleReturns, Closed, Lifecycle, JoinLabels
<1>8. CASE StartAllocates
  BY <1>2, <1>3, <1>8 DEF StartAllocates, LifecycleReturns, Closed, Lifecycle, StartLabels
<1>9. CASE LifecycleCallReturnsAtOnce \/ scheduler_destroy \/ JoinWorker
  BY <1>4, <1>9
     DEF LifecycleCallReturnsAtOnce, scheduler_destroy, Refused, JoinWorker, lifecycleVars
<1>10. CASE \/ StartWaits \/ FinishRelease \/ ShutdownWaits \/ JoinWaits
            \/ JoinWaitFails \/ MainSpuriousWakeup
  <2>1. UNCHANGED state
    BY <1>10 DEF StartWaits, FinishRelease, ShutdownWaits, JoinWaits, JoinWaitFails,
                 MainSpuriousWakeup, lifecycleVars
  <2>2. QED
    BY <1>2, <1>4, <1>10, <2>1
       DEF StartWaits, FinishRelease, AfterRelease, ShutdownWaits, JoinWaits,
           JoinWaitFails, MainSpuriousWakeup, BeginRelease, LifecycleReturns,
           LifecycleWake, WorkerWake
<1>11. CASE StartCreates
  BY <1>1, <1>4, <1>11, CreateFacts DEF StartCreates, lifecycleVars
<1>12. ASSUME NEW t \in Workers \cup Submitters, OtherStep(t)
       PROVE  Closed'
  <2>1. /\ UNCHANGED state
        /\ pc'[Main] \in {pc[Main], LifecycleWake(pc[Main]), WorkerWake(pc[Main])}
    BY <1>12, OtherFrame
  <2>2. QED
    BY <1>4, <2>1 DEF LifecycleWake, WorkerWake
<1>13. QED
  BY <1>5, <1>6, <1>7, <1>8, <1>9, <1>10, <1>11, <1>12, NextSplit DEF MainOnly

-----------------------------------------------------------------------------
(* The submission gate. *)
Gate ==
    /\ active_submitter_count = Cardinality(Registered)
    /\ Registered # {} => /\ state \in {"RUNNING", "SHUTTING_DOWN"}
                          /\ pc[Main] \notin {"join_release", "join_publish"}

(* What registering and deregistering do. *)
LEMMA RegisterFacts ==
    ASSUME TypeOK, NEW t \in Workers \cup Submitters,
           NEW call \in {"submit", "try_submit"}, register_submitter(t, call)
    PROVE  /\ tally["submitted"] + 1 \in Tasks /\ tally["submitted"] \in Nat
           /\ pc[t] = Home(t)
           /\ tally' = [tally EXCEPT !["submitted"] = tally["submitted"] + 1]
           /\ UNCHANGED <<queueVars, executed, accepted_count>>
           /\ \/ /\ state = "RUNNING"
                 /\ active_submitter_count' = active_submitter_count + 1
                 /\ pc' = [pc EXCEPT ![t] = call]
                 /\ task' = [task EXCEPT ![t] = tally["submitted"] + 1]
                 /\ UNCHANGED <<outcome, rejected_count>>
              \/ /\ state # "RUNNING"
                 /\ UNCHANGED <<active_submitter_count, pc, task>>
                 /\ rejected_count' = Increment(rejected_count)
                 /\ \E code \in Refusals :
                       outcome' = [outcome EXCEPT ![tally["submitted"] + 1] = code]
<1>1. tally["submitted"] \in Nat
  BY TypeParts DEF HistoryTypes, Tallied
<1>2. tally["submitted"] < MaxSubmissions /\ pc[t] = Home(t)
  BY DEF register_submitter
<1>3. tally["submitted"] + 1 \in Tasks
  BY <1>1, <1>2, SchedulerAssumption DEF Tasks
<1>4. tally' = [tally EXCEPT !["submitted"] = tally["submitted"] + 1]
  <2>1. tally' = [tally EXCEPT !["submitted"] = @ + 1]
    BY DEF register_submitter, Tally
  <2>2. QED
    BY <2>1
<1>5. UNCHANGED <<queueVars, executed, accepted_count>>
  BY DEF register_submitter
<1>6. CASE state = "RUNNING"
  BY <1>1, <1>2, <1>3, <1>4, <1>5, <1>6 DEF register_submitter, GateOpen, Goto
<1>7. CASE state # "RUNNING"
  <2>1. \E code \in Refusals : outcome' = [outcome EXCEPT ![tally["submitted"] + 1] = code]
    <3>1. outcome' = [outcome EXCEPT ![tally["submitted"] + 1] =
                          IF state \in {"SHUTTING_DOWN", "STOPPED"} THEN "SHUTDOWN"
                          ELSE "INVALID_STATE"]
      BY <1>7 DEF register_submitter, GateOpen
    <3>2. "SHUTDOWN" \in Refusals /\ "INVALID_STATE" \in Refusals
      BY DEF Refusals, SchedulerCodes
    <3>3. QED
      BY <3>1, <3>2
  <2>2. UNCHANGED <<active_submitter_count, pc, task>> /\ rejected_count' = Increment(rejected_count)
    BY <1>7 DEF register_submitter, GateOpen
  <2>3. QED
    BY <1>1, <1>2, <1>3, <1>4, <1>5, <1>7, <2>1, <2>2
<1>8. QED
  BY <1>6, <1>7

(* The code that a submission returns is OK exactly when the queue's is. *)
LEMMA DeregisterFacts ==
    ASSUME BaseInv, NEW t \in Workers \cup Submitters, deregister_submitter(t)
    PROVE  /\ pc[t] \in {"submitted", "try_submitted"} /\ qpc[t] = "idle"
           /\ task[t] \in Tasks
           /\ active_submitter_count' = IF active_submitter_count = 0 THEN 0
                                        ELSE active_submitter_count - 1
           /\ pc'[t] = Home(t)
           /\ \A u \in Threads : u # t /\ u # Main => pc'[u] = pc[u]
           /\ pc'[Main] \in {pc[Main], LifecycleWake(pc[Main])}
           /\ task' = [task EXCEPT ![t] = NULL]
           /\ UNCHANGED <<queueVars, state, executed, tally, submitted_count>>
           /\ \E code \in {"OK"} \cup Refusals :
                 /\ code = "OK" <=> qret[t][1] = "OK"
                 /\ outcome' = [outcome EXCEPT ![task[t]] =
                                   IF active_submitter_count = 0 THEN "SYSTEM" ELSE code]
                 /\ IF code = "OK"
                    THEN /\ accepted_count' = Increment(accepted_count)
                         /\ UNCHANGED rejected_count
                    ELSE /\ rejected_count' = Increment(rejected_count)
                         /\ UNCHANGED accepted_count
                 /\ lifecycle_accounting_overflow' =
                       (\/ lifecycle_accounting_overflow
                        \/ Overflows(IF code = "OK" THEN accepted_count ELSE rejected_count))
<1> USE ThreadKinds
<1> DEFINE code == IF pc[t] = "submitted" THEN map_blocking_enqueue_result(qret[t][1])
                                          ELSE map_try_enqueue_result(qret[t][1])
<1>1. /\ pc[t] \in {"submitted", "try_submitted"} /\ qpc[t] = "idle"
      /\ active_submitter_count' = IF active_submitter_count = 0 THEN 0
                                   ELSE active_submitter_count - 1
      /\ pc' = [pc EXCEPT ![t] = Home(t),
                          ![Main] = IF active_submitter_count' = 0
                                    THEN LifecycleWake(@) ELSE @]
      /\ task' = [task EXCEPT ![t] = NULL]
      /\ UNCHANGED <<queueVars, state, executed, tally, submitted_count>>
      /\ outcome' = [outcome EXCEPT ![task[t]] =
                         IF active_submitter_count = 0 THEN "SYSTEM" ELSE code]
      /\ \/ code = "OK" /\ accepted_count' = Increment(accepted_count) /\ UNCHANGED rejected_count
         \/ code # "OK" /\ rejected_count' = Increment(rejected_count) /\ UNCHANGED accepted_count
      /\ lifecycle_accounting_overflow' =
            (\/ lifecycle_accounting_overflow
             \/ Overflows(IF code = "OK" THEN accepted_count ELSE rejected_count))
  BY Zenon DEF deregister_submitter, Leaves
<1>2. task[t] \in Tasks
  BY <1>1 DEF BaseInv, QueueUse, SubmitLabels
<1>3. code \in {"OK"} \cup Refusals
  BY DEF map_blocking_enqueue_result, map_try_enqueue_result, Refusals, SchedulerCodes
<1>4. code = "OK" <=> qret[t][1] = "OK"
  BY DEF map_blocking_enqueue_result, map_try_enqueue_result
<1>5. /\ pc'[t] = Home(t)
      /\ \A u \in Threads : u # t /\ u # Main => pc'[u] = pc[u]
      /\ pc'[Main] \in {pc[Main], LifecycleWake(pc[Main])}
  BY <1>1 DEF BaseInv, TypeOK
<1> HIDE DEF code
<1>6. \E c \in {"OK"} \cup Refusals :
         /\ c = "OK" <=> qret[t][1] = "OK"
         /\ outcome' = [outcome EXCEPT ![task[t]] =
                           IF active_submitter_count = 0 THEN "SYSTEM" ELSE c]
         /\ IF c = "OK"
            THEN /\ accepted_count' = Increment(accepted_count)
                 /\ UNCHANGED rejected_count
            ELSE /\ rejected_count' = Increment(rejected_count)
                 /\ UNCHANGED accepted_count
         /\ lifecycle_accounting_overflow' =
               (\/ lifecycle_accounting_overflow
                \/ Overflows(IF c = "OK" THEN accepted_count ELSE rejected_count))
  BY <1>1, <1>3, <1>4
<1>7. QED
  BY <1>1, <1>2, <1>5, <1>6

(* Who is registered changes at the gate only. *)
LEMMA RegisteredStep ==
    ASSUME BaseInv, [Next]_vars
    PROVE  \/ Registered' = Registered /\ active_submitter_count' = active_submitter_count
           \/ \E t \in Workers \cup Submitters :
                 /\ \E call \in {"submit", "try_submit"} : register_submitter(t, call)
                 /\ state = "RUNNING" /\ t \notin Registered
                 /\ Registered' = Registered \cup {t}
                 /\ active_submitter_count' = active_submitter_count + 1
           \/ \E t \in Workers \cup Submitters :
                 /\ deregister_submitter(t)
                 /\ t \in Registered /\ Registered' = Registered \ {t}
<1> USE ThreadKinds
<1>1. TypeOK /\ TypeOK' /\ Handles
  BY TypeStep DEF BaseInv
<1>2. pc[Main] \notin SubmitLabels /\ pc'[Main] \notin SubmitLabels
  BY <1>1 DEF TypeOK, MainLabels, SubmitLabels
<1>3. ASSUME NEW t \in Threads,
             \A u \in Threads : u # t /\ u # Main => pc'[u] = pc[u],
             pc'[t] \in SubmitLabels <=> pc[t] \in SubmitLabels
      PROVE  Registered' = Registered
  BY <1>2, <1>3 DEF Registered
<1>4. CASE UNCHANGED vars
  BY <1>3, <1>4 DEF vars, lifecycleVars
<1>5. CASE MainOnly
  <2>1. active_submitter_count' = active_submitter_count
    BY <1>5
       DEF MainOnly, LifecycleCallReturnsAtOnce, Refused, StartBegins, ShutdownBegins,
           JoinWaits, scheduler_destroy, StartAllocates, StartPublishes, StartFails,
           StartWaits, JoinWorker, FinishRelease, ShutdownWaits, JoinPublishes,
           JoinWaitFails, MainSpuriousWakeup, lifecycleVars
  <2>2. QED
    BY <1>1, <1>2, <1>3, <1>5, <2>1, MainOnlyFrame
<1>6. CASE StartAborts \/ ShutdownQueue
  <2>1. /\ active_submitter_count' = active_submitter_count
        /\ \E label : Goto(Main, label)
    BY <1>6 DEF StartAborts, ShutdownQueue, BeginRelease, lifecycleVars
  <2>2. QED
    BY <1>1, <1>2, <1>3, <2>1, GotoFacts
<1>7. CASE StartCreates
  <2> DEFINE n == started_worker_count + 1
  <2>1. active_submitter_count' = active_submitter_count
    BY <1>7 DEF StartCreates, lifecycleVars
  <2>2. n \in Workers /\ \A u \in Threads : u # n /\ u # Main => pc'[u] = pc[u]
    BY <1>1, <1>7, CreateFacts
  <2>3. pc'[n] \in {pc[n], "entry"}
    BY <1>1, <1>7, <2>2, CreateFacts
  <2>4. pc[n] \in {"none", "exited"}
    BY <1>1, <2>2 DEF Handles, TypeOK
  <2>5. QED
    BY <1>3, <2>1, <2>2, <2>3, <2>4 DEF SubmitLabels
<1>8. ASSUME NEW t \in Workers \cup Submitters,
             NEW call \in {"submit", "try_submit"}, register_submitter(t, call)
      PROVE  \/ Registered' = Registered /\ active_submitter_count' = active_submitter_count
             \/ /\ state = "RUNNING" /\ t \notin Registered
                /\ Registered' = Registered \cup {t}
                /\ active_submitter_count' = active_submitter_count + 1
  <2>1. CASE pc' = pc /\ active_submitter_count' = active_submitter_count
    BY <1>3, <2>1
  <2>2. CASE /\ state = "RUNNING" /\ pc' = [pc EXCEPT ![t] = call]
             /\ active_submitter_count' = active_submitter_count + 1
    <3>1. pc'[t] = call /\ \A u \in Threads : u # t => pc'[u] = pc[u]
      BY <1>1, <2>2 DEF TypeOK
    <3>2. pc[t] \notin SubmitLabels /\ pc'[t] \in SubmitLabels
      BY <1>1, <1>8, <3>1, RegisterFacts DEF Home, SubmitLabels
    <3>3. QED
      BY <2>2, <3>1, <3>2 DEF Registered
  <2>3. QED
    BY <1>1, <1>8, <2>1, <2>2, RegisterFacts
<1>9. ASSUME NEW t \in Workers \cup Submitters, deregister_submitter(t)
      PROVE  t \in Registered /\ Registered' = Registered \ {t}
  <2>1. /\ pc[t] \in SubmitLabels /\ pc'[t] \notin SubmitLabels
        /\ \A u \in Threads : u # t /\ u # Main => pc'[u] = pc[u]
    BY <1>9, DeregisterFacts DEF Home, SubmitLabels
  <2>2. QED
    BY <1>2, <2>1 DEF Registered
<1>10. ASSUME NEW t \in Workers \cup Submitters, SubmitToQueue(t)
       PROVE  Registered' = Registered /\ active_submitter_count' = active_submitter_count
  <2>1. /\ active_submitter_count' = active_submitter_count /\ pc[t] \in SubmitLabels
        /\ \E label \in SubmitLabels : Goto(t, label)
    BY <1>10 DEF SubmitToQueue, SubmitLabels, lifecycleVars
  <2>2. QED
    BY <1>1, <1>3, <2>1, GotoFacts
<1>11. ASSUME NEW t \in Workers \cup Submitters, QueueResumes(t) \/ QueueWaitEnds(t)
       PROVE  Registered' = Registered /\ active_submitter_count' = active_submitter_count
  BY <1>3, <1>11 DEF QueueResumes, QueueWaitEnds, lifecycleVars
<1>12. ASSUME NEW w \in Workers, scheduler_worker_entry(w)
       PROVE  Registered' = Registered /\ active_submitter_count' = active_submitter_count
  <2>1. active_submitter_count' = active_submitter_count
    BY <1>12
       DEF scheduler_worker_entry, WorkerReady, WorkerDequeue, WorkerCountsDequeue,
           WorkerCountsStart, WorkerExecutes, CallbackReturns, WorkerCountsStop,
           WorkerQueueFailure, WorkerExits, record_worker_exit, lifecycleVars
  <2>2. \A u \in Threads : u # w /\ u # Main => pc'[u] = pc[u]
    BY <1>12, OtherFrame DEF OtherStep
  <2>3. pc[w] \notin SubmitLabels
    BY <1>12
       DEF scheduler_worker_entry, WorkerReady, WorkerDequeue, WorkerCountsDequeue,
           WorkerCountsStart, WorkerExecutes, CallbackReturns, WorkerCountsStop,
           WorkerQueueFailure, WorkerExits, SubmitLabels
  <2>4. CASE WorkerReady(w)
    <3>1. pc' = [pc EXCEPT ![w] = "dequeue", ![Main] = WorkerWake(@)]
      BY <2>4 DEF WorkerReady
    <3>2. pc'[w] = "dequeue"
      BY <1>1, <3>1 DEF TypeOK
    <3>3. QED
      BY <1>3, <2>1, <2>2, <2>3, <3>2 DEF SubmitLabels
  <2>5. CASE ~WorkerReady(w)
    <3>1. PICK label \in {"dequeued", "count_started", "count_running", "execute", "callback",
                          "count_stopped", "dequeue", "abandon", "exited"} : Goto(w, label)
      BY <1>12, <2>5
         DEF scheduler_worker_entry, WorkerDequeue, WorkerCountsDequeue,
             WorkerCountsStart, WorkerExecutes, CallbackReturns, WorkerCountsStop,
             WorkerQueueFailure, WorkerExits, record_worker_exit
    <3>2. pc'[w] = label
      BY <1>1, <3>1, GotoFacts
    <3>3. QED
      BY <1>3, <2>1, <2>2, <2>3, <3>2 DEF SubmitLabels
  <2>6. QED
    BY <2>4, <2>5
<1>13. QED
  BY <1>4, <1>5, <1>6, <1>7, <1>8, <1>9, <1>10, <1>11, <1>12, NextSplit DEF OtherStep

(* The threads at the gate can be counted. *)
LEMMA RegisteredFinite == IsFiniteSet(Registered)
BY ThreadsFinite, FS_Subset DEF Registered

(* The submitter count is exact, and join passes its wait only when nobody is counted. *)
LEMMA GateKept ==
    ASSUME BaseInv, Lifecycle, Gate, [Next]_vars
    PROVE  Gate'
<1> USE ThreadKinds
<1>1. TypeOK /\ TypeOK'
  BY TypeStep DEF BaseInv
<1>2. ASSUME NEW label, Goto(Main, label) PROVE pc'[Main] = label
  BY <1>1, <1>2, GotoFacts
<1>3. active_submitter_count = 0 <=> Registered = {}
  BY RegisteredFinite, FS_EmptySet DEF Gate
<1>4. active_submitter_count' = Cardinality(Registered')
  <2>1. CASE Registered' = Registered /\ active_submitter_count' = active_submitter_count
    BY <2>1 DEF Gate
  <2>2. ASSUME NEW t, t \notin Registered, Registered' = Registered \cup {t},
               active_submitter_count' = active_submitter_count + 1
        PROVE  active_submitter_count' = Cardinality(Registered')
    BY <2>2, RegisteredFinite, FS_AddElement DEF Gate
  <2>3. ASSUME NEW t \in Workers \cup Submitters, deregister_submitter(t),
               t \in Registered, Registered' = Registered \ {t}
        PROVE  active_submitter_count' = Cardinality(Registered')
    <3>1. active_submitter_count' = active_submitter_count - 1
      BY <1>3, <2>3, DeregisterFacts
    <3>2. QED
      BY <2>3, <3>1, RegisteredFinite, FS_RemoveElement DEF Gate
  <2>4. QED
    BY <2>1, <2>2, <2>3, RegisteredStep
<1>5. Registered' # {} => Registered # {} \/ state = "RUNNING"
  BY RegisteredStep
<1>6. ASSUME Registered' # {}
      PROVE  /\ state' \in {"RUNNING", "SHUTTING_DOWN"}
             /\ pc'[Main] \notin {"join_release", "join_publish"}
  <2>1. /\ state \in {"RUNNING", "SHUTTING_DOWN"}
        /\ pc[Main] \notin {"join_release", "join_publish"}
    BY <1>5, <1>6 DEF Gate, Lifecycle, JoinLabels
  <2>2. MainOnly \/ StartAborts \/ ShutdownQueue => Registered # {}
    <3>1. ASSUME MainOnly \/ StartAborts \/ ShutdownQueue PROVE Registered' = Registered
      <4>1. \A u \in Threads : u # Main => pc'[u] = pc[u]
        BY <1>1, <3>1, MainOnlyFrame, GotoFacts DEF StartAborts, ShutdownQueue, BeginRelease
      <4>2. QED
        BY <1>1, <4>1 DEF Registered, TypeOK, MainLabels, SubmitLabels
    <3>2. QED
      BY <1>6, <3>1
  <2>3. CASE MainOnly
    <3>1. SubmittersRemain
      BY <1>3, <2>2, <2>3 DEF SubmittersRemain
    <3>2. pc[Main] \notin StartLabels
      BY <2>1 DEF Lifecycle
    <3>3. CASE \/ LifecycleCallReturnsAtOnce \/ scheduler_destroy \/ JoinWorker
      BY <2>1, <3>3
         DEF LifecycleCallReturnsAtOnce, scheduler_destroy, Refused, JoinWorker,
             lifecycleVars
    <3>4. CASE ShutdownBegins
      BY <1>2, <2>1, <3>4 DEF ShutdownBegins
    <3>5. CASE ShutdownWaits \/ JoinWaits \/ JoinWaitFails \/ MainSpuriousWakeup
      <4>1. state' = state
        BY <3>5 DEF ShutdownWaits, JoinWaits, JoinWaitFails, MainSpuriousWakeup,
                    lifecycleVars
      <4>2. QED
        BY <1>2, <2>1, <3>1, <3>5, <4>1
           DEF ShutdownWaits, JoinWaits, JoinWaitFails, MainSpuriousWakeup,
               LifecycleReturns, LifecycleWake, WorkerWake
    <3>6. ~StartBegins /\ ~StartAllocates /\ ~StartPublishes /\ ~StartFails
          /\ ~StartWaits /\ ~FinishRelease /\ ~JoinPublishes
      BY <2>1, <3>2
         DEF StartBegins, StartAllocates, StartPublishes, StartFails, StartWaits,
             FinishRelease, JoinPublishes, StartLabels
    <3>7. QED
      BY <2>3, <3>3, <3>4, <3>5, <3>6 DEF MainOnly
  <2>4. CASE StartAborts \/ ShutdownQueue
    BY <1>2, <2>1, <2>4 DEF StartAborts, ShutdownQueue, BeginRelease, lifecycleVars
  <2>5. ~StartCreates
    BY <2>1 DEF StartCreates, Lifecycle, StartLabels
  <2>6. ASSUME NEW t \in Workers \cup Submitters, OtherStep(t)
        PROVE  /\ state' \in {"RUNNING", "SHUTTING_DOWN"}
               /\ pc'[Main] \notin {"join_release", "join_publish"}
    BY <2>1, <2>6, OtherFrame DEF LifecycleWake, WorkerWake
  <2>7. CASE UNCHANGED vars
    BY <2>1, <2>7 DEF vars, lifecycleVars
  <2>8. QED
    BY <2>3, <2>4, <2>5, <2>6, <2>7, NextSplit
<1>7. QED
  BY <1>4, <1>6 DEF Gate

-----------------------------------------------------------------------------
(* What a lifecycle call that has returned left behind. *)
ShutdownDone ==
    returned = <<"shutdown", "OK">> /\ pc[Main] = "idle" =>
        Registered = {} /\ state \in {"SHUTTING_DOWN", "STOPPED"}
StartFailure ==
    pc[Main] = "idle" /\ returned[1] = "start" /\ returned[2] \in {"ALLOCATION", "SYSTEM"}
        => state \in {"INITIALIZED", "FAILED"}
Gone == ~implementation => Destructible

(* Without failures of the native join, release_workers frees the arrays. *)
JoinsSucceed ==
    "native_join" \notin Faults =>
        /\ pc[Main] \in ReleaseLabels => all_joined
        /\ pc[Main] \in {"start_fail", "join_publish"} \/ state = "FAILED" => ~allocated

(* How Main comes to be idle with what it returned. *)
LEMMA IdleStep ==
    ASSUME BaseInv, Lifecycle, [Next]_vars, pc'[Main] = "idle"
    PROVE  \/ UNCHANGED <<returned, state>> /\ pc[Main] = "idle"
           \/ /\ returned' = <<"shutdown", "OK">> /\ state' = state
              /\ state = "STOPPED" \/ (pc[Main] = "shutdown_wait" /\ ~SubmittersRemain)
           \/ \E code : /\ returned' = <<"start", code>>
                        /\ code \in {"ALLOCATION", "SYSTEM"} =>
                               state' \in {"INITIALIZED", "FAILED"}
           \/ \E call, code : /\ returned' = <<call, code>> /\ call # "start"
                              /\ <<call, code>> # <<"shutdown", "OK">>
<1> USE ThreadKinds
<1>1. TypeOK
  BY DEF BaseInv
<1>2. ASSUME NEW label, Goto(Main, label) PROVE pc'[Main] = label
  BY <1>1, <1>2, GotoFacts
<1>3. CASE UNCHANGED vars
  BY <1>3 DEF vars, lifecycleVars
<1>4. CASE LifecycleCallReturnsAtOnce
  <2>1. state' = state
    BY <1>4 DEF LifecycleCallReturnsAtOnce, Refused, lifecycleVars
  <2>2. CASE \E call \in {"start", "shutdown", "join"} : Refused(call, "INVALID_STATE")
    BY <2>2 DEF Refused
  <2>3. CASE Refused("destroy", "OK")
    BY <2>3 DEF Refused
  <2>4. CASE state = "STOPPED" /\ \E call \in {"shutdown", "join"} : Refused(call, "OK")
    BY <2>1, <2>4 DEF Refused
  <2>5. QED
    BY <1>4, <2>2, <2>3, <2>4 DEF LifecycleCallReturnsAtOnce
<1>5. CASE scheduler_destroy
  BY <1>5 DEF scheduler_destroy, Refused
<1>6. CASE StartBegins \/ ShutdownBegins
  BY <1>2, <1>6 DEF StartBegins, ShutdownBegins
<1>7. CASE StartAllocates
  BY <1>2, <1>7 DEF StartAllocates, LifecycleReturns
<1>8. CASE StartPublishes \/ StartFails \/ JoinWaitFails
  BY <1>8 DEF StartPublishes, StartFails, JoinWaitFails, LifecycleReturns
<1>9. CASE JoinPublishes
  BY <1>9 DEF JoinPublishes, LifecycleReturns
<1>10. CASE StartWaits \/ FinishRelease \/ JoinWaits \/ MainSpuriousWakeup
  BY <1>2, <1>10
     DEF StartWaits, FinishRelease, AfterRelease, JoinWaits, MainSpuriousWakeup,
         BeginRelease, LifecycleWake, WorkerWake
<1>11. CASE JoinWorker
  BY <1>1, <1>11, JoinFacts DEF ReleaseLabels
<1>12. CASE ShutdownWaits
  <2>1. state' = state
    BY <1>12 DEF ShutdownWaits, lifecycleVars
  <2>2. QED
    BY <1>2, <1>12, <2>1 DEF ShutdownWaits, LifecycleReturns
<1>13. CASE StartCreates
  BY <1>1, <1>13, CreateFacts
<1>14. CASE StartAborts \/ ShutdownQueue
  BY <1>2, <1>14 DEF StartAborts, ShutdownQueue, BeginRelease
<1>15. ASSUME NEW t \in Workers \cup Submitters, OtherStep(t)
       PROVE  UNCHANGED <<returned, state>> /\ pc[Main] = "idle"
  BY <1>15, OtherFrame DEF LifecycleWake, WorkerWake
<1>16. QED
  BY <1>3, <1>4, <1>5, <1>6, <1>7, <1>8, <1>9, <1>10, <1>11, <1>12, <1>13, <1>14,
     <1>15, NextSplit DEF MainOnly

(* What shutdown and a failed start returned stays true until the next call. *)
LEMMA ReturnsKept ==
    ASSUME BaseInv, Lifecycle, Gate, ShutdownDone, StartFailure, [Next]_vars
    PROVE  ShutdownDone' /\ StartFailure'
<1>1. active_submitter_count = 0 <=> Registered = {}
  BY RegisteredFinite, FS_EmptySet DEF Gate
<1>2. ASSUME Registered = {}, state # "RUNNING" PROVE Registered' = {}
  BY <1>2, RegisteredStep
<1>3. ASSUME pc'[Main] = "idle", returned' = <<"shutdown", "OK">>
      PROVE  Registered' = {} /\ state' \in {"SHUTTING_DOWN", "STOPPED"}
  <2>1. CASE UNCHANGED <<returned, state>> /\ pc[Main] = "idle"
    BY <1>2, <1>3, <2>1 DEF ShutdownDone
  <2>2. CASE state' = state /\ state = "STOPPED"
    BY <1>2, <2>2 DEF Gate
  <2>3. CASE state' = state /\ pc[Main] = "shutdown_wait" /\ ~SubmittersRemain
    BY <1>1, <1>2, <2>3 DEF Lifecycle, ShutdownLabels, SubmittersRemain
  <2>4. ~\E code : returned' = <<"start", code>>
    BY <1>3
  <2>5. ~\E call, code : returned' = <<call, code>> /\ <<call, code>> # <<"shutdown", "OK">>
    BY <1>3
  <2>6. QED
    BY <1>3, <2>1, <2>2, <2>3, <2>4, <2>5, IdleStep
<1>4. ASSUME pc'[Main] = "idle", returned'[1] = "start",
             returned'[2] \in {"ALLOCATION", "SYSTEM"}
      PROVE  state' \in {"INITIALIZED", "FAILED"}
  <2>1. CASE UNCHANGED <<returned, state>> /\ pc[Main] = "idle"
    BY <1>4, <2>1 DEF StartFailure
  <2>2. ASSUME NEW code, returned' = <<"start", code>>,
               code \in {"ALLOCATION", "SYSTEM"} => state' \in {"INITIALIZED", "FAILED"}
        PROVE  state' \in {"INITIALIZED", "FAILED"}
    BY <1>4, <2>2
  <2>3. ~\E call, code : returned' = <<call, code>> /\ call # "start"
    BY <1>4
  <2>4. returned' # <<"shutdown", "OK">>
    BY <1>4
  <2>5. QED
    BY <1>4, <2>1, <2>2, <2>3, <2>4, IdleStep
<1>5. QED
  BY <1>3, <1>4 DEF ShutdownDone, StartFailure

(* After destroy nothing makes the scheduler anything but destructible. *)
LEMMA GoneKept ==
    ASSUME BaseInv, Lifecycle, Gate, Gone, [Next]_vars
    PROVE  Gone'
<1>1. TypeOK
  BY DEF BaseInv
<1>2. CASE UNCHANGED vars
  BY <1>2 DEF vars, lifecycleVars, workerVars, Gone, Destructible
<1>3. CASE scheduler_destroy
  BY <1>3 DEF scheduler_destroy, Refused, Gone, Destructible, lifecycleVars, workerVars
<1>4. CASE implementation' = implementation /\ implementation
  BY <1>4 DEF Gone
<1>5. CASE ~implementation /\ ~UNCHANGED vars /\ ~scheduler_destroy
  <2>1. pc[Main] = "idle" /\ Destructible
    BY <1>5 DEF Lifecycle, Gone
  <2>2. Registered = {} /\ state # "RUNNING"
    BY <2>1 DEF Gate, Destructible
  <2>3. active_submitter_count' = active_submitter_count
    BY <2>2, RegisteredStep
  <2>4. UNCHANGED <<state, allocated>>
    <3>1. CASE MainOnly
      BY <1>5, <2>1, <3>1
         DEF MainOnly, LifecycleCallReturnsAtOnce, Refused, StartBegins, ShutdownBegins,
             JoinWaits, StartAllocates, StartPublishes, StartFails, StartWaits, JoinWorker,
             FinishRelease, ShutdownWaits, JoinPublishes, JoinWaitFails,
             MainSpuriousWakeup, lifecycleVars, workerVars
    <3>2. ~StartCreates /\ ~StartAborts /\ ~ShutdownQueue
      BY <2>1 DEF StartCreates, StartAborts, ShutdownQueue
    <3>3. ASSUME NEW t \in Workers \cup Submitters, OtherStep(t)
          PROVE  UNCHANGED <<state, allocated>>
      BY <3>3, OtherFrame
    <3>4. QED
      BY <1>5, <3>1, <3>2, <3>3, NextSplit
  <2>5. QED
    BY <2>1, <2>3, <2>4 DEF Gone, Destructible
<1>6. ~scheduler_destroy => implementation' = implementation
  <2>1. MainOnly /\ ~scheduler_destroy => implementation' = implementation
    BY DEF MainOnly, LifecycleCallReturnsAtOnce, Refused, StartBegins, ShutdownBegins,
             JoinWaits, StartAllocates, StartPublishes, StartFails, StartWaits, JoinWorker,
             FinishRelease, ShutdownWaits, JoinPublishes, JoinWaitFails,
             MainSpuriousWakeup, lifecycleVars
  <2>2. StartCreates \/ StartAborts \/ ShutdownQueue => implementation' = implementation
    BY DEF StartCreates, StartAborts, ShutdownQueue, lifecycleVars
  <2>3. UNCHANGED vars => implementation' = implementation
    BY DEF vars, lifecycleVars
  <2>4. QED
    BY <2>1, <2>2, <2>3, OtherFrame, NextSplit
<1>7. implementation \in BOOLEAN
  BY <1>1 DEF TypeOK
<1>8. QED
  BY <1>2, <1>3, <1>4, <1>5, <1>6, <1>7

(* A release in which every native join succeeds frees the arrays. *)
LEMMA JoinsSucceedKept ==
    ASSUME BaseInv, Lifecycle, JoinsSucceed, [Next]_vars
    PROVE  JoinsSucceed'
<1> USE ThreadKinds
<1> SUFFICES ASSUME "native_join" \notin Faults
             PROVE  /\ pc'[Main] \in ReleaseLabels => all_joined'
                    /\ pc'[Main] \in {"start_fail", "join_publish"} \/ state' = "FAILED"
                           => ~allocated'
  BY DEF JoinsSucceed
<1>1. TypeOK
  BY DEF BaseInv
<1>2. ASSUME NEW label, Goto(Main, label) PROVE pc'[Main] = label
  BY <1>1, <1>2, GotoFacts
<1>3. ASSUME UNCHANGED <<state, allocated, all_joined>>,
             pc'[Main] \in ReleaseLabels => pc[Main] \in ReleaseLabels,
             pc'[Main] \in {"start_fail", "join_publish"} =>
                 pc[Main] \in {"start_fail", "join_publish"}
      PROVE  /\ pc'[Main] \in ReleaseLabels => all_joined'
             /\ pc'[Main] \in {"start_fail", "join_publish"} \/ state' = "FAILED"
                    => ~allocated'
  BY <1>3 DEF JoinsSucceed
<1>4. CASE UNCHANGED vars
  BY <1>3, <1>4 DEF vars, lifecycleVars, workerVars, joinVars
<1>5. CASE LifecycleCallReturnsAtOnce \/ scheduler_destroy
  BY <1>3, <1>5
     DEF LifecycleCallReturnsAtOnce, scheduler_destroy, Refused, lifecycleVars, workerVars,
         joinVars
<1>6. CASE StartBegins \/ ShutdownBegins \/ StartPublishes
  BY <1>2, <1>6
     DEF StartBegins, ShutdownBegins, StartPublishes, LifecycleReturns, ReleaseLabels
<1>7. CASE StartFails \/ JoinPublishes
  <2>1. allocated' = allocated /\ pc'[Main] = "idle"
        /\ pc[Main] \in {"start_fail", "join_publish"}
    BY <1>2, <1>7 DEF StartFails, JoinPublishes, LifecycleReturns, workerVars
  <2>2. QED
    BY <2>1 DEF JoinsSucceed, ReleaseLabels
<1>8. CASE StartAllocates
  BY <1>2, <1>8
     DEF StartAllocates, LifecycleReturns, ReleaseLabels, Lifecycle, StartLabels
<1>9. CASE StartAborts \/ JoinWaits
  <2>1. UNCHANGED <<state, allocated>>
    BY <1>9 DEF StartAborts, JoinWaits, lifecycleVars, workerVars
  <2>2. \/ pc'[Main] \in ReleaseLabels /\ all_joined'
        \/ pc'[Main] = "join_asleep"
    BY <1>2, <1>9 DEF StartAborts, JoinWaits, BeginRelease, ReleaseLabels
  <2>3. QED
    BY <2>1, <2>2 DEF JoinsSucceed, ReleaseLabels
<1>10. CASE JoinWorker
  <2>1. UNCHANGED <<state, allocated, pc>> /\ pc[Main] \in ReleaseLabels
    BY <1>1, <1>10, JoinFacts DEF lifecycleVars
  <2>2. all_joined' = all_joined
    BY <1>1, <1>10, JoinFacts
  <2>3. QED
    BY <1>3, <2>1, <2>2
<1>11. CASE FinishRelease
  <2>1. all_joined /\ pc[Main] \in ReleaseLabels
    BY <1>11 DEF FinishRelease, JoinsSucceed, ReleaseLabels
  <2>2. ~allocated' /\ pc'[Main] \in {"start_fail", "join_publish"}
    BY <1>2, <1>11, <2>1 DEF FinishRelease, FreeArrays, AfterRelease
  <2>3. QED
    BY <2>2 DEF ReleaseLabels
<1>12. CASE StartWaits \/ ShutdownWaits \/ JoinWaitFails \/ MainSpuriousWakeup \/ ShutdownQueue
  <2>1. UNCHANGED <<state, allocated, all_joined>>
    BY <1>12 DEF StartWaits, ShutdownWaits, JoinWaitFails, MainSpuriousWakeup,
                 ShutdownQueue, lifecycleVars, workerVars, joinVars
  <2>2. pc'[Main] \notin ReleaseLabels \cup {"start_fail", "join_publish"}
    BY <1>2, <1>12
       DEF StartWaits, ShutdownWaits, JoinWaitFails, MainSpuriousWakeup, ShutdownQueue,
           LifecycleReturns, LifecycleWake, WorkerWake, ReleaseLabels
  <2>3. QED
    BY <1>3, <2>1, <2>2
<1>13. CASE StartCreates
  <2>1. UNCHANGED <<state, allocated, all_joined>>
    BY <1>13 DEF StartCreates, lifecycleVars, joinVars
  <2>2. QED
    BY <1>1, <1>3, <1>13, <2>1, CreateFacts DEF ReleaseLabels
<1>14. ASSUME NEW t \in Workers \cup Submitters, OtherStep(t)
       PROVE  /\ pc'[Main] \in ReleaseLabels => all_joined'
              /\ pc'[Main] \in {"start_fail", "join_publish"} \/ state' = "FAILED"
                     => ~allocated'
  <2>1. /\ UNCHANGED <<state, allocated, joinVars>>
        /\ pc'[Main] \in {pc[Main], LifecycleWake(pc[Main]), WorkerWake(pc[Main])}
    BY <1>14, OtherFrame
  <2>2. QED
    BY <1>3, <2>1 DEF LifecycleWake, WorkerWake, ReleaseLabels, joinVars
<1>15. QED
  BY <1>4, <1>5, <1>6, <1>7, <1>8, <1>9, <1>10, <1>11, <1>12, <1>13, <1>14, NextSplit
     DEF MainOnly

-----------------------------------------------------------------------------
(* The worker counts are numbers of workers: those that have come out of   *)
(* the readiness handshake, those that have not exited since, and those    *)
(* that join still has to account for.                                     *)
Ready == {w \in Workers : pc[w] \notin {"none", "entry"}}
Active == {w \in Workers : pc[w] \notin {"none", "entry", "exited"}}
WithHandle == {w \in Workers : handle[w]}
Counts ==
    /\ ready_worker_count = IF allocated THEN Cardinality(Ready) ELSE 0
    /\ active_worker_count = Cardinality(Active)
    /\ joined_worker_count + Cardinality(WithHandle) <= created_worker_count

(* The workers can be counted. *)
LEMMA WorkersFinite ==
    /\ IsFiniteSet(Workers)
    /\ \A S \in SUBSET Workers : IsFiniteSet(S) /\ Cardinality(S) \in Nat
<1>1. IsFiniteSet(Workers)
  BY FS_Interval, SchedulerAssumption DEF Workers
<1>2. QED
  BY <1>1, FS_Subset, FS_CardinalityType

(* Each step of a worker, of start and of join keeps the worker counts. *)
LEMMA CountsKept ==
    ASSUME BaseInv, Lifecycle, Arrays, Counts, [Next]_vars
    PROVE  Counts'
<1> USE ThreadKinds
<1>1. TypeOK /\ TypeOK' /\ Handles
  BY TypeStep DEF BaseInv
<1>2. /\ IsFiniteSet(Ready) /\ IsFiniteSet(Active) /\ IsFiniteSet(WithHandle)
      /\ Cardinality(Ready) \in Nat /\ Cardinality(Active) \in Nat
      /\ Cardinality(WithHandle) \in Nat
  BY WorkersFinite DEF Ready, Active, WithHandle
<1>3. /\ created_worker_count \in Nat /\ joined_worker_count \in Nat
      /\ active_worker_count \in Nat /\ ready_worker_count \in Nat
      /\ started_worker_count \in 0..WorkerCount
  BY <1>1 DEF TypeOK
<1>4. ASSUME UNCHANGED <<ready_worker_count, allocated, active_worker_count,
                         joined_worker_count, handle, created_worker_count>>,
             Ready' = Ready, Active' = Active
      PROVE  Counts'
  <2>1. WithHandle' = WithHandle
    BY <1>4 DEF WithHandle
  <2>2. QED
    BY <1>4, <2>1 DEF Counts
<1>5. ASSUME NEW t \in Threads, \A u \in Threads : u # t /\ u # Main => pc'[u] = pc[u],
             t \in Workers =>
                 /\ pc'[t] \in {"none", "entry"} <=> pc[t] \in {"none", "entry"}
                 /\ pc'[t] = "exited" <=> pc[t] = "exited"
      PROVE  Ready' = Ready /\ Active' = Active
  <2>1. \A u \in Workers : /\ pc'[u] \in {"none", "entry"} <=> pc[u] \in {"none", "entry"}
                           /\ pc'[u] = "exited" <=> pc[u] = "exited"
    BY <1>5
  <2>2. QED
    BY <2>1 DEF Ready, Active
<1>6. CASE MainOnly
  <2>1. Ready' = Ready /\ Active' = Active
    BY <1>1, <1>5, <1>6, MainOnlyFrame
  <2>2. CASE JoinWorker
    <3>1. UNCHANGED <<ready_worker_count, allocated, active_worker_count,
                      created_worker_count>>
      BY <1>1, <2>2, JoinFacts
    <3>2. CASE UNCHANGED <<handle, joined_worker_count>>
      BY <1>4, <2>1, <3>1, <3>2
    <3>3. CASE /\ handle[index] /\ index \in Workers
               /\ handle' = [handle EXCEPT ![index] = FALSE]
               /\ joined_worker_count' \in {joined_worker_count, joined_worker_count + 1}
      <4>1. handle'[index] = FALSE /\ \A u \in Workers : u # index => handle'[u] = handle[u]
        BY <1>1, <3>3 DEF TypeOK
      <4>2. WithHandle' = WithHandle \ {index} /\ index \in WithHandle
        BY <3>3, <4>1 DEF WithHandle
      <4>3. Cardinality(WithHandle') = Cardinality(WithHandle) - 1
        BY <1>2, <4>2, FS_RemoveElement
      <4>4. joined_worker_count' + Cardinality(WithHandle') <= created_worker_count'
        BY <1>2, <1>3, <3>1, <3>3, <4>3 DEF Counts
      <4>5. QED
        BY <2>1, <3>1, <4>4 DEF Counts
    <3>4. QED
      BY <1>1, <2>2, <3>2, <3>3, JoinFacts
  <2>3. CASE FinishRelease
    <3>1. UNCHANGED <<handle, active_worker_count, created_worker_count,
                      joined_worker_count>>
      BY <2>3 DEF FinishRelease
    <3>2. \/ UNCHANGED <<allocated, ready_worker_count>>
          \/ allocated' = FALSE /\ ready_worker_count' = 0
      BY <2>3 DEF FinishRelease, FreeArrays
    <3>3. WithHandle' = WithHandle
      BY <3>1 DEF WithHandle
    <3>4. QED
      BY <2>1, <3>1, <3>2, <3>3 DEF Counts
  <2>4. CASE StartAllocates
    <3>1. UNCHANGED <<handle, active_worker_count, created_worker_count,
                      joined_worker_count, ready_worker_count>>
      BY <2>4 DEF StartAllocates
    <3>2. ~allocated /\ created_worker_count = 0
      BY <2>4 DEF StartAllocates, Arrays
    <3>3. \A w \in Workers : pc[w] = "none"
      BY <3>2, SchedulerAssumption DEF Arrays, Workers
    <3>4. Cardinality(Ready) = 0
      BY <3>3, FS_EmptySet DEF Ready
    <3>5. WithHandle' = WithHandle
      BY <3>1 DEF WithHandle
    <3>6. QED
      BY <2>1, <3>1, <3>2, <3>4, <3>5 DEF Counts
  <2>5. CASE ~JoinWorker /\ ~FinishRelease /\ ~StartAllocates
    <3>1. UNCHANGED <<ready_worker_count, allocated, active_worker_count,
                      joined_worker_count, handle, created_worker_count>>
      BY <1>6, <2>5
         DEF MainOnly, LifecycleCallReturnsAtOnce, Refused, StartBegins, ShutdownBegins,
             JoinWaits, scheduler_destroy, StartPublishes, StartFails, StartWaits,
             ShutdownWaits, JoinPublishes, JoinWaitFails, MainSpuriousWakeup, workerVars
    <3>2. QED
      BY <1>4, <2>1, <3>1
  <2>6. QED
    BY <2>2, <2>3, <2>4, <2>5
<1>7. CASE StartCreates
  <2> DEFINE n == started_worker_count + 1
  <2>1. UNCHANGED <<ready_worker_count, allocated, active_worker_count, joined_worker_count>>
    BY <1>7 DEF StartCreates
  <2>2. allocated /\ n \in Workers
    BY <1>1, <1>7, CreateFacts DEF Handles
  <2>3. started_worker_count = created_worker_count
    BY <2>2 DEF Arrays
  <2>4. pc[n] = "none" /\ ~handle[n]
    BY <1>1, <1>3, <2>2, <2>3 DEF Arrays, Handles
  <2>5. pc'[n] \in {"none", "entry"} /\ \A u \in Threads : u # n /\ u # Main => pc'[u] = pc[u]
    BY <1>1, <1>7, <2>2, <2>4, CreateFacts
  <2>6. Ready' = Ready /\ Active' = Active
    BY <1>5, <2>2, <2>4, <2>5
  <2>7. CASE UNCHANGED <<handle, created_worker_count>>
    BY <1>4, <2>1, <2>6, <2>7
  <2>8. CASE handle' = [handle EXCEPT ![n] = TRUE] /\ CountCreated
    <3>1. handle'[n] = TRUE /\ \A u \in Workers : u # n => handle'[u] = handle[u]
      BY <1>1, <2>2, <2>8 DEF TypeOK
    <3>2. WithHandle' = WithHandle \cup {n} /\ n \notin WithHandle
      BY <2>2, <2>4, <3>1 DEF WithHandle
    <3>3. Cardinality(WithHandle') = Cardinality(WithHandle) + 1
      BY <1>2, <3>2, FS_AddElement
    <3>4. created_worker_count' = created_worker_count + 1
      BY <2>8 DEF CountCreated
    <3>5. joined_worker_count' + Cardinality(WithHandle') <= created_worker_count'
      BY <1>2, <1>3, <2>1, <3>3, <3>4 DEF Counts
    <3>6. QED
      BY <2>1, <2>6, <3>5 DEF Counts
  <2>9. QED
    BY <1>1, <1>7, <2>7, <2>8, CreateFacts
<1>8. CASE StartAborts \/ ShutdownQueue
  <2>1. UNCHANGED workerVars /\ \E label : Goto(Main, label)
    BY <1>8 DEF StartAborts, ShutdownQueue, BeginRelease
  <2>2. QED
    BY <1>1, <1>4, <1>5, <2>1, GotoFacts DEF workerVars
<1>9. ASSUME NEW w \in Workers, WorkerReady(w)
      PROVE  Counts'
  <2>1. /\ pc[w] = "entry"
        /\ active_worker_count' = active_worker_count + 1
        /\ ready_worker_count' = ready_worker_count + 1
        /\ UNCHANGED <<allocated, handle, created_worker_count, joined_worker_count>>
    BY <1>9 DEF WorkerReady
  <2>2. pc'[w] = "dequeue" /\ \A u \in Workers : u # w => pc'[u] = pc[u]
    BY <1>1, <1>9 DEF WorkerReady, TypeOK
  <2>3. allocated
    <3>1. handle[w] /\ w <= started_worker_count
      BY <1>1, <2>1 DEF Handles
    <3>2. QED
      BY <1>1, <1>3, <3>1 DEF Handles, Workers
  <2>4. /\ Ready' = Ready \cup {w} /\ w \notin Ready
        /\ Active' = Active \cup {w} /\ w \notin Active
        /\ WithHandle' = WithHandle
    BY <2>1, <2>2 DEF Ready, Active, WithHandle
  <2>5. /\ Cardinality(Ready') = Cardinality(Ready) + 1
        /\ Cardinality(Active') = Cardinality(Active) + 1
    BY <1>2, <2>4, FS_AddElement
  <2>6. QED
    BY <2>1, <2>3, <2>4, <2>5 DEF Counts
<1>10. ASSUME NEW w \in Workers, WorkerExits(w)
       PROVE  Counts'
  <2>1. UNCHANGED <<allocated, handle, created_worker_count, joined_worker_count,
                    ready_worker_count>>
    BY <1>10 DEF WorkerExits, record_worker_exit
  <2>2. pc[w] \in {"dequeued", "abandon"}
    BY <1>10 DEF WorkerExits
  <2>3. pc'[w] = "exited" /\ \A u \in Workers : u # w => pc'[u] = pc[u]
    BY <1>1, <1>3, <1>10, ExitFacts, GotoFacts
  <2>4. /\ Ready' = Ready /\ WithHandle' = WithHandle
        /\ Active' = Active \ {w} /\ w \in Active
    BY <2>1, <2>2, <2>3 DEF Ready, Active, WithHandle
  <2>5. Cardinality(Active') = Cardinality(Active) - 1 /\ Cardinality(Active) # 0
    BY <1>2, <2>4, FS_RemoveElement, FS_EmptySet
  <2>6. active_worker_count' = active_worker_count - 1
    BY <1>3, <1>10, <2>5, ExitFacts DEF Counts
  <2>7. QED
    BY <2>1, <2>4, <2>5, <2>6 DEF Counts
<1>11. ASSUME NEW t \in Workers \cup Submitters, OtherStep(t),
              t \in Workers => ~WorkerReady(t) /\ ~WorkerExits(t)
       PROVE  Counts'
  <2>1. UNCHANGED workerVars
    BY <1>11
       DEF OtherStep, scheduler_worker_entry, register_submitter, SubmitToQueue,
           deregister_submitter, QueueResumes, QueueWaitEnds, WorkerDequeue,
           WorkerCountsDequeue, WorkerCountsStart, WorkerExecutes, CallbackReturns,
           WorkerCountsStop, WorkerQueueFailure
  <2>2. /\ \A u \in Threads : u # t /\ u # Main => pc'[u] = pc[u]
        /\ t \in Workers => pc[t] \notin {"none", "exited"} /\ pc'[t] # "none"
    BY <1>11, OtherFrame
  <2>3. t \in Workers => (pc[t] # "entry" /\ pc'[t] \notin {"entry", "exited"})
        \/ pc'[t] = pc[t]
    <3> SUFFICES ASSUME t \in Workers
                 PROVE  (pc[t] # "entry" /\ pc'[t] \notin {"entry", "exited"})
                        \/ pc'[t] = pc[t]
      OBVIOUS
    <3>1. ASSUME NEW label, Goto(t, label) PROVE pc'[t] = label
      BY <1>1, <3>1, GotoFacts
    <3>2. CASE QueueResumes(t) \/ QueueWaitEnds(t)
      BY <3>2 DEF QueueResumes, QueueWaitEnds
    <3>3. ASSUME NEW call \in {"submit", "try_submit"}, register_submitter(t, call)
          PROVE  (pc[t] # "entry" /\ pc'[t] \notin {"entry", "exited"}) \/ pc'[t] = pc[t]
      <4>1. pc[t] = "callback" /\ (pc' = pc \/ Goto(t, call))
        BY <3>3 DEF register_submitter, Home
      <4>2. QED
        BY <3>1, <4>1
    <3>4. CASE deregister_submitter(t)
      BY <3>4, DeregisterFacts DEF Home
    <3>5. CASE SubmitToQueue(t)
      BY <3>1, <3>5 DEF SubmitToQueue
    <3>6. CASE \/ WorkerDequeue(t) \/ WorkerCountsDequeue(t)
               \/ WorkerCountsStart(t) \/ WorkerExecutes(t) \/ CallbackReturns(t)
               \/ WorkerCountsStop(t) \/ WorkerQueueFailure(t)
      BY <3>1, <3>6
         DEF WorkerDequeue, WorkerCountsDequeue, WorkerCountsStart, WorkerExecutes,
             CallbackReturns, WorkerCountsStop, WorkerQueueFailure
    <3>7. QED
      BY <1>11, <3>2, <3>3, <3>4, <3>5, <3>6 DEF OtherStep, scheduler_worker_entry
  <2>4. Ready' = Ready /\ Active' = Active
    BY <1>5, <2>2, <2>3
  <2>5. QED
    BY <1>4, <2>1, <2>4 DEF workerVars
<1>12. CASE UNCHANGED vars
  <2>1. UNCHANGED <<workerVars, pc>>
    BY <1>12 DEF vars
  <2>2. Ready' = Ready /\ Active' = Active
    BY <2>1 DEF Ready, Active
  <2>3. QED
    BY <1>4, <2>1, <2>2 DEF workerVars
<1>13. QED
  BY <1>6, <1>7, <1>8, <1>9, <1>10, <1>11, <1>12, NextSplit

-----------------------------------------------------------------------------
(* The inductive invariant of the lifecycle. *)
LifeInv ==
    /\ BaseInv /\ Lifecycle /\ Arrays /\ Closed /\ Gate
    /\ ShutdownDone /\ StartFailure /\ Gone /\ JoinsSucceed /\ Counts

(* scheduler_init establishes it. *)
LEMMA InitLife == Init => LifeInv
<1> SUFFICES ASSUME Init PROVE LifeInv
  OBVIOUS
<1> USE ThreadKinds, SchedulerAssumption
<1>1. BaseInv
  BY InitBase
<1>2. /\ pc[Main] = "idle" /\ \A w \in Workers : pc[w] = "none"
      /\ \A t \in Submitters : pc[t] = "idle"
  BY DEF Init
<1>3. state = "INITIALIZED" /\ implementation /\ ~allocated /\ created_worker_count = 0
  BY DEF Init
<1>4. Lifecycle
  BY <1>2, <1>3 DEF Lifecycle, StartLabels, ShutdownLabels, JoinLabels
<1>5. Arrays
  BY <1>2, <1>3 DEF Arrays, Workers
<1>6. Closed
  BY <1>2, <1>3 DEF Closed
<1>7. Registered = {}
  BY <1>2 DEF Registered, SubmitLabels, Threads
<1>8. Gate
  BY <1>7, FS_EmptySet DEF Gate, Init
<1>9. ShutdownDone /\ StartFailure
  <2>1. returned = <<"init", "OK">>
    BY DEF Init
  <2>2. QED
    BY <2>1 DEF ShutdownDone, StartFailure
<1>10. Gone /\ JoinsSucceed
  BY <1>2, <1>3 DEF Gone, JoinsSucceed, ReleaseLabels
<1>11. Ready = {} /\ Active = {} /\ WithHandle = {}
  BY <1>2 DEF Ready, Active, WithHandle, Init
<1>12. Counts
  BY <1>3, <1>11, FS_EmptySet DEF Counts, Init
<1>13. QED
  BY <1>1, <1>4, <1>5, <1>6, <1>8, <1>9, <1>10, <1>12 DEF LifeInv

(* Every step keeps it. *)
LEMMA StepLife ==
    ASSUME LifeInv, [Next]_vars
    PROVE  LifeInv'
<1>1. BaseInv' /\ Lifecycle' /\ Arrays'
  BY StepBase, LifecycleKept, ArraysKept DEF LifeInv
<1>2. Closed' /\ Gate'
  BY ClosedKept, GateKept DEF LifeInv
<1>3. ShutdownDone' /\ StartFailure' /\ Gone'
  BY ReturnsKept, GoneKept DEF LifeInv
<1>4. JoinsSucceed' /\ Counts'
  BY JoinsSucceedKept, CountsKept DEF LifeInv
<1>5. QED
  BY <1>1, <1>2, <1>3, <1>4 DEF LifeInv

(* The inductive invariant of the lifecycle holds in every reachable state. *)
THEOREM LifecycleInvariant == Spec => []LifeInv
<1>1. LifeInv /\ [Next]_vars => LifeInv'
  BY StepLife
<1>2. QED
  BY InitLife, <1>1, PTL DEF Spec

(* When scheduler_shutdown has returned OK no submission is under way, none
   can begin and the queue is closed, for any number of submitters and workers. *)
THEOREM GateClosedByShutdown == Spec => []ShutdownClosesGate
<1>1. LifeInv => ShutdownClosesGate
  BY DEF LifeInv, ShutdownDone, Closed, ShutdownClosesGate, GateOpen
<1>2. QED
  BY LifecycleInvariant, <1>1, PTL

(* After STOPPED or destroy every worker is gone and nobody is inside the queue. *)
LEMMA StoppedQuiet ==
    ASSUME LifeInv, state = "STOPPED" \/ ~implementation
    PROVE  /\ \A w \in Workers : pc[w] \in {"none", "exited"} /\ ~handle[w]
           /\ \A t \in Threads : qpc[t] = "idle"
<1> USE ThreadKinds
<1>1. TypeOK /\ QueueInv /\ QueueUse /\ Handles
  BY DEF LifeInv, BaseInv
<1>2. ~allocated /\ state \in {"INITIALIZED", "STOPPED", "FAILED"}
  BY DEF LifeInv, Arrays, Gone, Destructible
<1>3. Registered = {}
  BY <1>2 DEF LifeInv, Gate
<1>4. ASSUME NEW w \in Workers PROVE pc[w] \in {"none", "exited"} /\ ~handle[w]
  <2>1. ~handle[w]
    BY <1>1, <1>2 DEF Handles, Workers
  <2>2. QED
    BY <1>1, <2>1 DEF Handles
<1>5. ASSUME NEW t \in Threads PROVE qpc[t] = "idle"
  <2>1. qpc[t] \in {"idle"} \cup Q!ProducerStates \cup Q!ConsumerStates
    BY <1>1 DEF QueueInv, Q!TypeOK, Q!States, Q!ProducerStates, Q!ConsumerStates
  <2>2. pc[t] \notin {"submitted", "dequeued"}
    BY <1>1, <1>3, <1>4 DEF Registered, SubmitLabels, Threads, TypeOK, MainLabels
  <2>3. QED
    BY <1>1, <2>1, <2>2 DEF QueueUse
<1>6. QED
  BY <1>4, <1>5

(* No worker survives the join that published STOPPED, or destroy, whatever
   joins failed and were tried again before. *)
THEOREM JoinLeavesNoWorker == Spec => []NoWorkerOutlivesJoin
<1>1. LifeInv => NoWorkerOutlivesJoin
  BY StoppedQuiet DEF NoWorkerOutlivesJoin
<1>2. QED
  BY LifecycleInvariant, <1>1, PTL

(* validate_structural's bounds on the worker counts hold at every instant. *)
THEOREM WorkerCountsInBounds == Spec => []WorkerCountsBounded
<1>1. ASSUME LifeInv PROVE WorkerCountsBounded
  <2> USE <1>1
  <2>1. TypeOK /\ RunningExact /\ Arrays /\ Counts
    BY DEF LifeInv, BaseInv
  <2>2. created_worker_count \in Nat /\ created_worker_count <= WorkerCount
        /\ joined_worker_count \in Nat
    BY <2>1 DEF TypeOK, Arrays
  <2> DEFINE Created == 1..created_worker_count
             Running == {w \in Workers : context[w]["running"] > 0}
  <2>3. IsFiniteSet(Created) /\ Cardinality(Created) = created_worker_count
    BY <2>2, FS_Interval
  <2>4. Ready \subseteq Created /\ Active \subseteq Created
    BY <2>1, <2>2 DEF Ready, Active, Arrays, Workers
  <2>5. Cardinality(Ready) <= created_worker_count /\ Cardinality(Active) <= created_worker_count
    <3>1. Cardinality(Ready) <= Cardinality(Created) /\ Cardinality(Active) <= Cardinality(Created)
      <4> HIDE DEF Created
      <4>1. QED
        BY <2>3, <2>4, FS_Subset
    <3>2. QED
      BY <2>3, <3>1
  <2>6. ready_worker_count <= created_worker_count /\ active_worker_count <= created_worker_count
    BY <2>1, <2>2, <2>5 DEF Counts
  <2>7. joined_worker_count <= created_worker_count
    <3>1. Cardinality(WithHandle) \in Nat
      BY WorkersFinite DEF WithHandle
    <3>2. QED
      BY <2>1, <2>2, <3>1 DEF Counts
  <2>8. Running \subseteq Active
    BY <2>1 DEF RunningExact, RunningLabels, SubmitLabels, Active
  <2>9. Cardinality(Running) <= Cardinality(Active)
    BY <2>8, WorkersFinite, FS_Subset DEF Active
  <2>10. QED
    BY <2>1, <2>2, <2>6, <2>7, <2>9 DEF WorkerCountsBounded, Counts
<1>2. QED
  BY LifecycleInvariant, <1>1, PTL

(* If native joins do not fail, scheduler_destroy accepts a scheduler whose
   start failed, however many workers it had created. *)
THEOREM FailedStartIsDestructible ==
    ASSUME "native_join" \notin Faults
    PROVE  Spec => []FailedStartDestructible
<1>1. ASSUME LifeInv PROVE FailedStartDestructible
  <2>1. active_submitter_count = 0 <=> Registered = {}
    BY <1>1, RegisteredFinite, FS_EmptySet DEF LifeInv, Gate
  <2>2. QED
    BY <1>1, <2>1
       DEF LifeInv, StartFailure, JoinsSucceed, Arrays, Gate, FailedStartDestructible,
           Destructible
<1>2. QED
  BY LifecycleInvariant, <1>1, PTL
=============================================================================
