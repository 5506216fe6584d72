----------------------- MODULE SchedulerTasks_proofs -----------------------
(***************************************************************************)
(* Proofs about the tasks of a Scheduler (src/src/scheduler.c): every      *)
(* submission is accounted for, an accepted task is in one place until its *)
(* callback has run, and shutdown and join leave nothing in the queue.     *)
(*                                                                         *)
(* Every step is first classified by what it does to tasks (TaskStep):     *)
(* one thread offers, puts, answers, takes or runs one task, or none is    *)
(* moved.  The invariant TasksInv is kept by each of these moves.          *)
(***************************************************************************)
EXTENDS SchedulerLifecycle_proofs

(* What a thread has to do with Task k: it is submitting it, the queue has *)
(* taken it and the submitter is about to report so, or it is a worker     *)
(* that has taken it and has not called the callback yet.                  *)
Offering(t, k) == pc[t] \in SubmitLabels /\ task[t] = k
HasPut(t, k) ==
    /\ pc[t] \in {"submitted", "try_submitted"} /\ task[t] = k
    /\ qpc[t] = "idle" /\ qret[t][1] = "OK"
Holds(t, k) ==
    \/ pc[t] = "dequeued" /\ qpc[t] = "idle" /\ qret[t] = <<"OK", k>>
    \/ pc[t] \in TaskInHandLabels /\ task[t] = k
Calling(t) == t \in Workers /\ pc[t] \in {"callback"} \cup SubmitLabels

SameOffer(t) == \A k \in Tasks : Offering(t, k)' <=> Offering(t, k)
SamePut(t) == \A k \in Tasks : HasPut(t, k)' <=> HasPut(t, k)
SameHold(t) == \A k \in Tasks : Holds(t, k)' <=> Holds(t, k)
Same(t) == SameOffer(t) /\ SamePut(t) /\ SameHold(t) /\ (Calling(t)' <=> Calling(t))
Elsewhere(t) == \A u \in Threads : u # t => Same(u)

(* The ways in which a step of t moves a task. *)
Quiet(t) ==
    /\ UNCHANGED <<queue, outcome, executed>> /\ tally'["submitted"] = tally["submitted"]
    /\ Same(t)
CallEnds(t) ==
    /\ UNCHANGED <<queue, outcome, executed>> /\ tally'["submitted"] = tally["submitted"]
    /\ SameOffer(t) /\ SamePut(t) /\ SameHold(t) /\ Calling(t) /\ ~Calling(t)'
Offers(t, k) ==
    /\ UNCHANGED <<queue, outcome, executed>> /\ state = "RUNNING"
    /\ k = tally["submitted"] + 1 /\ tally'["submitted"] = k
    /\ \A j \in Tasks : ~Offering(t, j) /\ (Offering(t, j)' <=> j = k)
    /\ SamePut(t) /\ SameHold(t) /\ (Calling(t)' <=> Calling(t))
Refuses(t, k) ==
    /\ UNCHANGED <<queue, executed>> /\ state # "RUNNING" /\ implementation
    /\ k = tally["submitted"] + 1 /\ tally'["submitted"] = k
    /\ \E code \in Refusals : outcome' = [outcome EXCEPT ![k] = code]
    /\ Same(t)
PutsTask(t, k) ==
    /\ UNCHANGED <<outcome, executed>> /\ tally'["submitted"] = tally["submitted"]
    /\ ~shutdown_requested /\ Len(queue) < Capacity /\ queue' = Append(queue, k)
    /\ Offering(t, k) /\ SameOffer(t) /\ SameHold(t) /\ (Calling(t)' <=> Calling(t))
    /\ \A j \in Tasks : ~HasPut(t, j) /\ (HasPut(t, j)' <=> j = k)
AnswersTask(t, k) ==
    /\ UNCHANGED <<queue, executed>> /\ tally'["submitted"] = tally["submitted"]
    /\ \E code \in {"OK"} \cup Refusals : /\ outcome' = [outcome EXCEPT ![k] = code]
                                          /\ code = "OK" <=> HasPut(t, k)
    /\ \A j \in Tasks : (Offering(t, j) <=> j = k) /\ ~Offering(t, j)' /\ ~HasPut(t, j)'
    /\ SameHold(t) /\ (Calling(t)' <=> Calling(t))
TakesTask(t) ==
    /\ UNCHANGED <<outcome, executed>> /\ tally'["submitted"] = tally["submitted"]
    /\ t \in Workers /\ queue # <<>> /\ queue' = Tail(queue)
    /\ SameOffer(t) /\ SamePut(t) /\ ~Calling(t) /\ ~Calling(t)'
    /\ \A j \in Tasks : ~Holds(t, j) /\ (Holds(t, j)' <=> j = Head(queue))
RunsTask(t, k) ==
    /\ UNCHANGED <<queue, outcome>> /\ tally'["submitted"] = tally["submitted"]
    /\ t \in Workers /\ executed' = [executed EXCEPT ![k] = @ + 1]
    /\ SameOffer(t) /\ SamePut(t) /\ ~Calling(t) /\ Calling(t)'
    /\ \A j \in Tasks : (Holds(t, j) <=> j = k) /\ ~Holds(t, j)'
Moves(t) ==
    \/ Quiet(t) \/ CallEnds(t) \/ TakesTask(t)
    \/ \E k \in Tasks : Offers(t, k) \/ Refuses(t, k) \/ PutsTask(t, k)
                        \/ AnswersTask(t, k) \/ RunsTask(t, k)

-----------------------------------------------------------------------------
(* Who is neither moved nor called about keeps what it has. *)
LEMMA ElsewhereFrom ==
    ASSUME TypeOK, TypeOK', NEW t \in Threads, Bystanders(t),
           \A u \in Threads : u # t /\ u # Main => pc'[u] = pc[u] /\ task'[u] = task[u]
    PROVE  Elsewhere(t)
<1> SUFFICES ASSUME NEW u \in Threads, u # t PROVE Same(u)
  BY DEF Elsewhere
<1>1. CASE u = Main
  <2>1. pc[u] \in MainLabels /\ pc'[u] \in MainLabels /\ u \notin Workers
    BY <1>1, ThreadKinds DEF TypeOK
  <2>2. QED
    BY <2>1 DEF Same, SameOffer, SamePut, SameHold, Offering, HasPut, Holds, Calling,
                MainLabels, SubmitLabels, TaskInHandLabels
<1>2. CASE u # Main
  <2>1. /\ pc'[u] = pc[u] /\ task'[u] = task[u] /\ qret'[u] = qret[u]
        /\ qpc'[u] = "idle" <=> qpc[u] = "idle"
    BY <1>2 DEF Bystanders
  <2>2. QED
    BY <2>1 DEF Same, SameOffer, SamePut, SameHold, Offering, HasPut, Holds, Calling
<1>3. QED
  BY <1>1, <1>2

(* A thread outside the labels of a submission or of a task in hand. *)
LEMMA Aloof ==
    ASSUME NEW t, NEW k, pc[t] \notin SubmitLabels \cup TaskInHandLabels,
           pc[t] = "dequeued" => (qpc[t] # "idle" \/ qret[t][1] # "OK")
    PROVE  ~Offering(t, k) /\ ~HasPut(t, k) /\ ~Holds(t, k)
BY DEF Offering, HasPut, Holds, SubmitLabels

(* The same in the next state. *)
LEMMA AloofPrimed ==
    ASSUME NEW t, NEW k, pc'[t] \notin SubmitLabels \cup TaskInHandLabels,
           pc'[t] = "dequeued" => (qpc'[t] # "idle" \/ qret'[t][1] # "OK")
    PROVE  ~Offering(t, k)' /\ ~HasPut(t, k)' /\ ~Holds(t, k)'
BY DEF Offering, HasPut, Holds, SubmitLabels

(* The counter of submissions is touched at the gate only. *)
LEMMA SubmittedFrame ==
    ASSUME TypeOK, [Next]_vars
    PROVE  \/ tally'["submitted"] = tally["submitted"]
           \/ \E t \in Workers \cup Submitters :
                 \E call \in {"submit", "try_submit"} : register_submitter(t, call)
<1>1. tally \in [Tallied -> Nat]
  BY DEF TypeOK
<1>2. ASSUME NEW c \in Tallied, c # "submitted", NEW n \in Nat,
             tally' = [tally EXCEPT ![c] = @ + n]
      PROVE  tally'["submitted"] = tally["submitted"]
  BY <1>1, <1>2 DEF Tallied
<1>3. ASSUME NEW c \in Tallied, c # "submitted", Tally(c)
      PROVE  tally'["submitted"] = tally["submitted"]
  BY <1>1, <1>3 DEF Tally, Tallied
<1>4. CASE StartCreates
  BY <1>3, <1>4 DEF StartCreates, Tallied
<1>5. CASE JoinWorker
  BY <1>3, <1>5 DEF JoinWorker, CountJoinFailure, NoJoinFailure, Tallied
<1>6. ASSUME NEW w \in Workers, CallbackReturns(w)
      PROVE  tally'["submitted"] = tally["submitted"]
  BY <1>3, <1>6 DEF CallbackReturns, Tallied
<1>7. ASSUME NEW w \in Workers, WorkerExits(w)
      PROVE  tally'["submitted"] = tally["submitted"]
  <2>1. active_worker_count \in Nat
    BY DEF TypeOK
  <2>2. PICK n \in 0..2 : tally' = [tally EXCEPT !["runtime_failures"] = @ + n]
    BY <1>7, <2>1, ExitFacts
  <2>3. n \in Nat
    OBVIOUS
  <2>4. QED
    BY <1>2, <2>2, <2>3 DEF Tallied
<1>8. ASSUME NEW w \in Workers, WorkerExecutes(w)
      PROVE  tally'["submitted"] = tally["submitted"]
  BY <1>8 DEF WorkerExecutes
<1>9. ASSUME NEW t \in Workers \cup Submitters, deregister_submitter(t)
      PROVE  tally'["submitted"] = tally["submitted"]
  BY <1>9 DEF deregister_submitter
<1>10. QED
  BY <1>4, <1>5, <1>6, <1>7, <1>8, <1>9, HistoryFrame DEF history

-----------------------------------------------------------------------------
(* Main moves no task. *)
LEMMA MainMoves ==
    ASSUME BaseInv, [Next]_vars,
           MainOnly \/ StartAborts \/ ShutdownQueue \/ UNCHANGED vars
    PROVE  Elsewhere(Main) /\ Quiet(Main)
<1> USE ThreadKinds
<1>1. TypeOK /\ TypeOK' /\ QueueInv
  BY TypeStep DEF BaseInv
<1>2. /\ Bystanders(Main) /\ UNCHANGED <<queue, task>>
      /\ \A u \in Threads : u # Main => pc'[u] = pc[u]
  <2>1. CASE MainOnly
    BY <1>1, <2>1, MainOnlyFrame, BystandersQuiet DEF queueVars
  <2>2. CASE StartAborts \/ ShutdownQueue
    <3>1. /\ Q!concurrent_task_queue_shutdown(Main) /\ task' = task
          /\ \E label : Goto(Main, label)
      BY <2>2 DEF StartAborts, ShutdownQueue, BeginRelease
    <3>2. QED
      BY <1>1, <3>1, ShutdownFacts, GotoFacts
  <2>3. CASE UNCHANGED vars
    BY <2>3, BystandersQuiet DEF vars, queueVars
  <2>4. QED
    BY <2>1, <2>2, <2>3
<1>3. Elsewhere(Main)
  BY <1>1, <1>2, ElsewhereFrom
<1>4. UNCHANGED <<outcome, executed>>
  <2>1. CASE JoinWorker
    BY <1>1, <2>1, JoinFacts
  <2>2. CASE MainOnly /\ ~JoinWorker
    BY <2>2
       DEF MainOnly, LifecycleCallReturnsAtOnce, Refused, StartBegins, ShutdownBegins,
           JoinWaits, scheduler_destroy, StartAllocates, StartPublishes, StartFails,
           StartWaits, FinishRelease, ShutdownWaits, JoinPublishes, JoinWaitFails,
           MainSpuriousWakeup, history
  <2>3. CASE StartAborts \/ ShutdownQueue \/ UNCHANGED vars
    BY <2>3 DEF StartAborts, ShutdownQueue, vars, history
  <2>4. QED
    BY <2>1, <2>2, <2>3
<1>5. tally'["submitted"] = tally["submitted"]
  <2>1. ASSUME NEW t \in Workers \cup Submitters, NEW call, register_submitter(t, call)
        PROVE  FALSE
    <3>1. tally' # tally
      <4>1. /\ tally' = [tally EXCEPT !["submitted"] = @ + 1]
        BY <2>1 DEF register_submitter, Tally
      <4>2. tally["submitted"] \in Nat /\ tally \in [Tallied -> Nat] /\ "submitted" \in Tallied
        BY <1>1 DEF TypeOK, Tallied
      <4>3. tally'["submitted"] = tally["submitted"] + 1
        BY <4>1, <4>2
      <4>4. QED
        BY <4>2, <4>3
    <3>2. UNCHANGED workerVars
      BY <2>1 DEF register_submitter
    <3>3. UNCHANGED tally \/ JoinWorker
      BY DEF MainOnly, LifecycleCallReturnsAtOnce, Refused, StartBegins, ShutdownBegins,
           JoinWaits, scheduler_destroy, StartAllocates, StartPublishes, StartFails,
           StartWaits, FinishRelease, ShutdownWaits, JoinPublishes, JoinWaitFails,
           MainSpuriousWakeup, history, StartAborts, ShutdownQueue, vars
    <3>4. CASE JoinWorker
      <4>1. index' = index + 1
        BY <1>1, <3>4, JoinFacts
      <4>2. index' = index
        BY <2>1 DEF register_submitter, joinVars
      <4>3. QED
        BY <1>1, <4>1, <4>2 DEF TypeOK
    <3>5. QED
      BY <3>1, <3>3, <3>4
  <2>2. QED
    BY <1>1, <2>1, SubmittedFrame
<1>6. Same(Main)
  <2>1. pc[Main] \in MainLabels /\ pc'[Main] \in MainLabels
    BY <1>1 DEF TypeOK
  <2>2. QED
    BY <2>1, Aloof, AloofPrimed
       DEF Same, SameOffer, SamePut, SameHold, Calling, MainLabels, SubmitLabels,
           TaskInHandLabels
<1>7. QED
  BY <1>2, <1>3, <1>4, <1>5, <1>6 DEF Quiet

(* Nor does the creation of a worker. *)
LEMMA CreateMoves ==
    ASSUME BaseInv, [Next]_vars, StartCreates
    PROVE  \E t \in Threads : Elsewhere(t) /\ Quiet(t)
<1> USE ThreadKinds
<1>1. TypeOK /\ TypeOK' /\ Handles
  BY TypeStep DEF BaseInv
<1>0. PICK n \in Workers : n = started_worker_count + 1
  BY <1>1, CreateFacts
<1>2. n \in Workers /\ \A u \in Threads : u # n /\ u # Main => pc'[u] = pc[u]
  BY <1>1, <1>0, CreateFacts
<1>3. pc[n] \in {"none", "exited"}
  BY <1>1, <1>0 DEF Handles, TypeOK
<1>4. pc'[n] \in {pc[n], "entry"}
  BY <1>1, <1>0, CreateFacts
<1>5. UNCHANGED <<queueVars, task, outcome, executed>>
  BY DEF StartCreates
<1>6. Elsewhere(n)
  BY <1>1, <1>2, <1>5, ElsewhereFrom, BystandersQuiet
<1>7. Same(n)
  <2>1. \A j \in Tasks : ~Offering(n, j) /\ ~HasPut(n, j) /\ ~Holds(n, j)
    BY <1>3, Aloof DEF SubmitLabels, TaskInHandLabels
  <2>2. \A j \in Tasks : ~Offering(n, j)' /\ ~HasPut(n, j)' /\ ~Holds(n, j)'
    BY <1>3, <1>4, AloofPrimed DEF SubmitLabels, TaskInHandLabels
  <2>3. ~Calling(n) /\ ~Calling(n)'
    BY <1>3, <1>4 DEF Calling, SubmitLabels
  <2>4. QED
    BY <2>1, <2>2, <2>3 DEF Same, SameOffer, SamePut, SameHold
<1>8. tally'["submitted"] = tally["submitted"]
  <2>1. tally' = tally \/ Tally("startup_failures")
    BY DEF StartCreates
  <2>2. QED
    BY <1>1, <2>1 DEF Tally, TypeOK, Tallied
<1>9. Quiet(n)
  BY <1>5, <1>7, <1>8 DEF Quiet, queueVars
<1>10. QED
  BY <1>2, <1>6, <1>9

(* The result of a submission, and what is recorded of it. *)
LEMMA DeregisterAccounts ==
    ASSUME BaseInv, NEW t \in Workers \cup Submitters, deregister_submitter(t)
    PROVE  \E code \in {"OK"} \cup Refusals :
              /\ code = "OK" <=> qret[t][1] = "OK"
              /\ outcome' = [outcome EXCEPT ![task[t]] =
                                IF active_submitter_count = 0 THEN "SYSTEM" ELSE code]
              /\ IF code = "OK"
                 THEN /\ accepted_count' = Increment(accepted_count)
                      /\ UNCHANGED rejected_count
                 ELSE /\ rejected_count' = Increment(rejected_count)
                      /\ UNCHANGED accepted_count
              /\ lifecycle_accounting_overflow' =
                    (\/ lifecycle_accounting_overflow
                     \/ Overflows(IF code = "OK" THEN accepted_count ELSE rejected_count))
BY DeregisterFacts, Zenon

(* The result is OK exactly when the queue has taken the task. *)
LEMMA DeregisterCode ==
    ASSUME BaseInv, NEW t \in Workers \cup Submitters, deregister_submitter(t)
    PROVE  \E code \in {"OK"} \cup Refusals :
              /\ code = "OK" <=> qret[t][1] = "OK"
              /\ outcome' = [outcome EXCEPT ![task[t]] =
                                IF active_submitter_count = 0 THEN "SYSTEM" ELSE code]
BY DeregisterAccounts

(* At the gate. *)
LEMMA GateMoves ==
    ASSUME LifeInv, [Next]_vars, NEW t \in Workers \cup Submitters,
           (\E call \in {"submit", "try_submit"} : register_submitter(t, call))
               \/ deregister_submitter(t)
    PROVE  Elsewhere(t) /\ Moves(t)
<1> USE ThreadKinds
<1>1. BaseInv /\ TypeOK /\ TypeOK' /\ QueueUse /\ Gate
  BY TypeStep DEF LifeInv, BaseInv
<1>2. UNCHANGED queueVars
  BY DEF register_submitter, deregister_submitter
<1>3. ASSUME NEW call \in {"submit", "try_submit"}, register_submitter(t, call)
      PROVE  Elsewhere(t) /\ Moves(t)
  <2> DEFINE k == tally["submitted"] + 1
  <2>1. k \in Tasks /\ pc[t] = Home(t) /\ UNCHANGED executed /\ tally["submitted"] \in Nat
        /\ tally' = [tally EXCEPT !["submitted"] = k]
    BY <1>1, <1>3, RegisterFacts
  <2>2. tally'["submitted"] = k
    BY <1>1, <2>1 DEF TypeOK, Tallied
  <2>3. implementation
    BY <1>3 DEF register_submitter
  <2>4. CASE /\ state = "RUNNING" /\ pc' = [pc EXCEPT ![t] = call]
             /\ task' = [task EXCEPT ![t] = k] /\ outcome' = outcome
    <3>1. /\ pc'[t] = call /\ task'[t] = k
          /\ \A u \in Threads : u # t => pc'[u] = pc[u] /\ task'[u] = task[u]
      BY <1>1, <2>4 DEF TypeOK
    <3>2. Elsewhere(t)
      BY <1>1, <1>2, <3>1, ElsewhereFrom, BystandersQuiet
    <3>3. \A j \in Tasks : ~Offering(t, j) /\ ~HasPut(t, j) /\ ~Holds(t, j)
      BY <2>1, Aloof DEF Home, SubmitLabels, TaskInHandLabels
    <3>4. \A j \in Tasks : (Offering(t, j)' <=> j = k) /\ ~HasPut(t, j)' /\ ~Holds(t, j)'
      BY <3>1 DEF Offering, HasPut, Holds, SubmitLabels, TaskInHandLabels
    <3>5. Calling(t)' <=> Calling(t)
      BY <2>1, <3>1 DEF Calling, Home, SubmitLabels
    <3> HIDE DEF k
    <3>6. Offers(t, k)
      BY <1>2, <2>1, <2>2, <2>4, <3>3, <3>4, <3>5 DEF Offers, SamePut, SameHold, queueVars, k
    <3>7. QED
      BY <2>1, <3>2, <3>6 DEF Moves
  <2>5. CASE /\ state # "RUNNING" /\ UNCHANGED <<pc, task>>
             /\ \E code \in Refusals : outcome' = [outcome EXCEPT ![k] = code]
    <3>1. Elsewhere(t)
      BY <1>1, <1>2, <2>5, ElsewhereFrom, BystandersQuiet
    <3>2. Same(t)
      BY <1>2, <2>5 DEF queueVars, Same, SameOffer, SamePut, SameHold, Offering, HasPut,
                        Holds, Calling
    <3> HIDE DEF k
    <3>3. Refuses(t, k)
      BY <1>2, <2>1, <2>2, <2>3, <2>5, <3>2 DEF Refuses, queueVars, k
    <3>4. QED
      BY <2>1, <3>1, <3>3 DEF Moves
  <2>6. QED
    BY <1>1, <1>3, <2>4, <2>5, RegisterFacts
<1>4. CASE deregister_submitter(t)
  <2> DEFINE k == task[t]
  <2>1. /\ pc[t] \in {"submitted", "try_submitted"} /\ qpc[t] = "idle" /\ k \in Tasks
        /\ pc'[t] = Home(t) /\ task' = [task EXCEPT ![t] = NULL]
        /\ \A u \in Threads : u # t /\ u # Main => pc'[u] = pc[u]
        /\ UNCHANGED <<executed, tally>>
    BY <1>1, <1>4, DeregisterFacts
  <2>2. active_submitter_count # 0
    <3>1. t \in Registered
      BY <2>1 DEF Registered, SubmitLabels
    <3>2. QED
      BY <1>1, <3>1, RegisteredFinite, FS_EmptySet DEF Gate
  <2>3. PICK code \in {"OK"} \cup Refusals :
            (code = "OK" <=> qret[t][1] = "OK") /\ outcome' = [outcome EXCEPT ![k] = code]
    <3>1. PICK code \in {"OK"} \cup Refusals :
             /\ code = "OK" <=> qret[t][1] = "OK"
             /\ outcome' = [outcome EXCEPT ![task[t]] =
                               IF active_submitter_count = 0 THEN "SYSTEM" ELSE code]
      BY <1>1, <1>4, DeregisterCode
    <3>2. outcome' = [outcome EXCEPT ![k] = code]
      BY <2>2, <3>1
    <3>3. QED
      BY <3>1, <3>2
  <2>4. HasPut(t, k) <=> code = "OK"
    BY <2>1, <2>3 DEF HasPut
  <2>5. Elsewhere(t)
    BY <1>1, <1>2, <2>1, ElsewhereFrom, BystandersQuiet DEF TypeOK
  <2>6. \A j \in Tasks : (Offering(t, j) <=> j = k) /\ ~Holds(t, j)
    BY <2>1 DEF Offering, Holds, SubmitLabels, TaskInHandLabels
  <2>7. \A j \in Tasks : ~Offering(t, j)' /\ ~HasPut(t, j)' /\ ~Holds(t, j)'
    BY <2>1, AloofPrimed DEF Home, SubmitLabels, TaskInHandLabels
  <2>8. Calling(t)' <=> Calling(t)
    BY <2>1 DEF Calling, Home, SubmitLabels
  <2> HIDE DEF k
  <2>9. AnswersTask(t, k)
    BY <1>2, <2>1, <2>3, <2>4, <2>6, <2>7, <2>8 DEF AnswersTask, SameHold, queueVars
  <2>10. QED
    BY <2>1, <2>5, <2>9 DEF Moves
<1>5. QED
  BY <1>3, <1>4

(* Inside the queue: what a call leaves behind for its caller. *)
LEMMA ProducerMoves ==
    ASSUME BaseInv, TypeOK', NEW t \in Workers \cup Submitters, NEW k \in Tasks,
           task[t] = k, task'[t] = k, pc[t] \in SubmitLabels, pc'[t] \in SubmitLabels,
           pc[t] \in {"submitted", "try_submitted"} => qpc[t] # "idle",
           UNCHANGED <<outcome, executed, tally>>,
           \/ qpc'[t] # "idle" /\ queue' = queue
           \/ qret'[t][1] # "OK" /\ queue' = queue
           \/ Puts(t, k) /\ pc'[t] \in {"submitted", "try_submitted"}
    PROVE  Quiet(t) \/ PutsTask(t, k)
<1>1. \A j \in Tasks : (Offering(t, j) <=> j = k) /\ (Offering(t, j)' <=> j = k)
  BY DEF Offering
<1>2. \A j \in Tasks : ~Holds(t, j) /\ ~Holds(t, j)' /\ ~HasPut(t, j)
  BY DEF Holds, HasPut, SubmitLabels, TaskInHandLabels
<1>3. Calling(t)' <=> Calling(t)
  BY DEF Calling
<1>4. CASE (qpc'[t] # "idle" \/ qret'[t][1] # "OK") /\ queue' = queue
  <2>1. \A j \in Tasks : ~HasPut(t, j)'
    BY <1>4 DEF HasPut
  <2>2. QED
    BY <1>1, <1>2, <1>3, <1>4, <2>1 DEF Quiet, Same, SameOffer, SamePut, SameHold
<1>5. CASE Puts(t, k) /\ pc'[t] \in {"submitted", "try_submitted"}
  <2>1. \A j \in Tasks : HasPut(t, j)' <=> j = k
    BY <1>5 DEF HasPut, Puts
  <2>2. QED
    BY <1>1, <1>2, <1>3, <1>5, <2>1 DEF PutsTask, SameOffer, SameHold, Puts
<1>6. QED
  BY <1>4, <1>5

(* The same for a worker that dequeues. *)
LEMMA ConsumerMoves ==
    ASSUME BaseInv, TypeOK', NEW w \in Workers,
           pc[w] = "dequeue" \/ (pc[w] = "dequeued" /\ qpc[w] # "idle"),
           pc'[w] = "dequeued",
           UNCHANGED <<outcome, executed, tally>>,
           \/ qpc'[w] # "idle" /\ queue' = queue
           \/ qret'[w][1] # "OK" /\ queue' = queue
           \/ Takes(w)
    PROVE  Quiet(w) \/ TakesTask(w)
<1>1. \A j \in Tasks : ~Offering(w, j) /\ ~HasPut(w, j) /\ ~Holds(w, j)
  BY Aloof DEF SubmitLabels, TaskInHandLabels
<1>2. \A j \in Tasks : ~Offering(w, j)' /\ ~HasPut(w, j)'
  BY DEF Offering, HasPut, SubmitLabels
<1>3. ~Calling(w) /\ ~Calling(w)'
  BY DEF Calling, SubmitLabels
<1>4. CASE (qpc'[w] # "idle" \/ qret'[w][1] # "OK") /\ queue' = queue
  <2>1. \A j \in Tasks : ~Holds(w, j)'
    BY <1>4 DEF Holds, TaskInHandLabels
  <2>2. QED
    BY <1>1, <1>2, <1>3, <1>4, <2>1 DEF Quiet, Same, SameOffer, SamePut, SameHold
<1>5. CASE Takes(w)
  <2>1. \A j \in Tasks : Holds(w, j)' <=> j = Head(queue)
    BY <1>5 DEF Holds, Takes, TaskInHandLabels
  <2>2. QED
    BY <1>1, <1>2, <1>3, <1>5, <2>1 DEF TakesTask, SameOffer, SamePut, Takes
<1>6. QED
  BY <1>4, <1>5

-----------------------------------------------------------------------------
(* A caller that sleeps or is refused has moved no task. *)
LEMMA AsleepFacts ==
    ASSUME NEW t, NEW label, Asleep(t, label), label # "idle"
    PROVE  qpc'[t] # "idle" /\ queue' = queue
BY DEF Asleep

(* The same for a caller that is answered at once. *)
LEMMA AnswersFacts ==
    ASSUME NEW t, NEW code, Answers(t, code), code # "OK"
    PROVE  qret'[t][1] # "OK" /\ queue' = queue
BY DEF Answers

(* A step of a thread inside the queue, or on its way in. *)
LEMMA QueueMoves ==
    ASSUME LifeInv, [Next]_vars, NEW t \in Workers \cup Submitters,
           \/ SubmitToQueue(t) \/ QueueResumes(t) \/ QueueWaitEnds(t)
           \/ t \in Workers /\ WorkerDequeue(t)
    PROVE  Elsewhere(t) /\ Moves(t)
<1> USE ThreadKinds
<1>1. BaseInv /\ TypeOK /\ TypeOK' /\ QueueUse /\ QueueInv
  BY TypeStep DEF LifeInv, BaseInv
<1>2. UNCHANGED <<outcome, executed, tally, task>>
  BY DEF SubmitToQueue, QueueResumes, QueueWaitEnds, WorkerDequeue, history
<1>3. ASSUME Bystanders(t), \A u \in Threads : u # t /\ u # Main => pc'[u] = pc[u]
      PROVE  Elsewhere(t)
  BY <1>1, <1>2, <1>3, ElsewhereFrom
<1>4. ASSUME NEW label, Goto(t, label)
      PROVE  pc'[t] = label /\ \A u \in Threads : u # t => pc'[u] = pc[u]
  BY <1>1, <1>4, GotoFacts
<1>5. CASE SubmitToQueue(t)
  <2>1. task[t] \in Tasks /\ pc[t] \in {"submit", "try_submit"} /\ pc[t] \in SubmitLabels
    BY <1>1, <1>5 DEF SubmitToQueue, QueueUse, SubmitLabels
  <2>2. PICK k \in Tasks : k = task[t]
    BY <2>1
  <2>3. /\ Bystanders(t) /\ pc'[t] \in {"submitted", "try_submitted"}
        /\ \A u \in Threads : u # t => pc'[u] = pc[u]
        /\ \/ qpc'[t] # "idle" /\ queue' = queue
           \/ qret'[t][1] # "OK" /\ queue' = queue
           \/ Puts(t, k)
    <3>1. CASE Q!concurrent_task_queue_enqueue(t, k) /\ Goto(t, "submitted")
      BY <1>1, <1>4, <3>1, EnqueueFacts, AsleepFacts, AnswersFacts
    <3>2. CASE Q!concurrent_task_queue_try_enqueue(t, k) /\ Goto(t, "try_submitted")
      BY <1>1, <1>4, <3>2, TryEnqueueFacts, AnswersFacts
    <3>3. QED
      BY <1>5, <2>2, <3>1, <3>2 DEF SubmitToQueue
  <2>4. Quiet(t) \/ PutsTask(t, k)
    <3>1. task'[t] = k /\ task[t] = k
      BY <1>2, <2>2
    <3>2. pc'[t] \in SubmitLabels /\ (pc[t] \in {"submitted", "try_submitted"} => qpc[t] # "idle")
      BY <2>1, <2>3 DEF SubmitLabels
    <3>3. QED
      BY <1>1, <1>2, <2>1, <2>3, <3>1, <3>2, ProducerMoves
  <2>5. QED
    BY <1>3, <2>3, <2>4 DEF Moves
<1>6. ASSUME pc' = pc, qpc[t] \in Q!ProducerStates, NEW k \in Tasks, k = qarg[t], Bystanders(t),
             \/ qpc'[t] # "idle" /\ queue' = queue
             \/ qret'[t][1] # "OK" /\ queue' = queue
             \/ Puts(t, k)
      PROVE  Elsewhere(t) /\ Moves(t)
  <2>1. pc[t] = "submitted" /\ k = task[t] /\ qpc[t] # "idle"
    BY <1>1, <1>6 DEF QueueUse, Q!ProducerStates
  <2>2. Quiet(t) \/ PutsTask(t, k)
    BY <1>1, <1>2, <1>6, <2>1, ProducerMoves DEF SubmitLabels
  <2>3. QED
    BY <1>3, <1>6, <2>2 DEF Moves
<1>7. ASSUME pc' = pc, qpc[t] \in Q!ConsumerStates, Bystanders(t),
             \/ qpc'[t] # "idle" /\ queue' = queue
             \/ qret'[t][1] # "OK" /\ queue' = queue
             \/ Takes(t)
      PROVE  Elsewhere(t) /\ Moves(t)
  <2>1. pc[t] = "dequeued" /\ qpc[t] # "idle"
    BY <1>1, <1>7 DEF QueueUse, Q!ConsumerStates
  <2>2. t \in Workers
    BY <1>1, <2>1 DEF TypeOK, SubmitLabels
  <2>3. Quiet(t) \/ TakesTask(t)
    BY <1>1, <1>2, <1>7, <2>1, <2>2, ConsumerMoves
  <2>4. QED
    BY <1>3, <1>7, <2>3 DEF Moves
<1>8. CASE QueueResumes(t)
  <2>1. pc' = pc /\ Q!Resume(t)
    BY <1>8 DEF QueueResumes
  <2>2. CASE qpc[t] \in Q!ProducerStates /\ qarg[t] \in Tasks
    <3>1. PICK k \in Tasks : k = qarg[t]
      BY <2>2
    <3>2. /\ Bystanders(t)
          /\ \/ qpc'[t] # "idle" /\ queue' = queue
             \/ qret'[t][1] # "OK" /\ queue' = queue
             \/ Puts(t, k)
      BY <1>1, <2>1, <2>2, <3>1, ResumeFacts, AsleepFacts, AnswersFacts
         DEF Q!ProducerStates, Q!ConsumerStates
    <3>3. QED
      BY <1>6, <2>1, <2>2, <3>1, <3>2
  <2>3. CASE qpc[t] \in Q!ConsumerStates
    <3>1. /\ Bystanders(t)
          /\ \/ qpc'[t] # "idle" /\ queue' = queue
             \/ qret'[t][1] # "OK" /\ queue' = queue
             \/ Takes(t)
      BY <1>1, <2>1, <2>3, ResumeFacts, AsleepFacts, AnswersFacts
         DEF Q!ProducerStates, Q!ConsumerStates
    <3>2. QED
      BY <1>7, <2>1, <2>3, <3>1
  <2>4. QED
    BY <1>1, <2>1, <2>2, <2>3, ResumeFacts
<1>9. CASE QueueWaitEnds(t)
  <2>1. pc' = pc /\ (Q!SpuriousWakeup(t) \/ Q!WaitFails(t))
    BY <1>9 DEF QueueWaitEnds
  <2>2. /\ Bystanders(t) /\ queue' = queue /\ qpc'[t] # "idle"
        /\ qpc[t] \in Q!ProducerStates \cup Q!ConsumerStates
    BY <1>1, <2>1, WaitEndsFacts DEF Q!ProducerStates, Q!ConsumerStates
  <2>3. qpc[t] \in Q!ProducerStates => qarg[t] \in Tasks
    BY <1>1 DEF QueueInv, Q!TypeOK
  <2>4. QED
    BY <1>6, <1>7, <2>1, <2>2, <2>3
<1>10. CASE t \in Workers /\ WorkerDequeue(t)
  <2>1. pc[t] = "dequeue" /\ Q!concurrent_task_queue_dequeue(t) /\ Goto(t, "dequeued")
    BY <1>10 DEF WorkerDequeue
  <2>2. /\ Bystanders(t)
        /\ \/ qpc'[t] # "idle" /\ queue' = queue
           \/ qret'[t][1] # "OK" /\ queue' = queue
           \/ Takes(t)
    BY <1>1, <2>1, DequeueFacts, AsleepFacts, AnswersFacts
  <2>3. pc'[t] = "dequeued" /\ \A u \in Threads : u # t => pc'[u] = pc[u]
    BY <1>4, <2>1
  <2>4. Quiet(t) \/ TakesTask(t)
    BY <1>1, <1>2, <1>10, <2>1, <2>2, <2>3, ConsumerMoves
  <2>5. QED
    BY <1>3, <2>2, <2>3, <2>4 DEF Moves
<1>11. QED
  BY <1>5, <1>8, <1>9, <1>10

(* The other steps of a worker. *)
LEMMA WorkerMoves ==
    ASSUME LifeInv, [Next]_vars, NEW w \in Workers, scheduler_worker_entry(w), ~WorkerDequeue(w)
    PROVE  Elsewhere(w) /\ Moves(w)
<1> USE ThreadKinds
<1>1. BaseInv /\ TypeOK /\ TypeOK' /\ QueueUse /\ QueueInv
  BY TypeStep DEF LifeInv, BaseInv
<1>2. \A u \in Threads : u # w /\ u # Main => pc'[u] = pc[u]
  BY <1>1, OtherFrame DEF OtherStep
<1>3. tally'["submitted"] = tally["submitted"]
  <2>1. ASSUME NEW t \in Workers \cup Submitters, NEW call \in {"submit", "try_submit"},
               register_submitter(t, call)
        PROVE  FALSE
    <3>1. tally["submitted"] \in Nat /\ tally' = [tally EXCEPT !["submitted"] = tally["submitted"] + 1]
      BY <1>1, <2>1, RegisterFacts
    <3>2. tally'["submitted"] # tally["submitted"]
      BY <1>1, <3>1 DEF TypeOK, Tallied
    <3>3. UNCHANGED workerVars /\ UNCHANGED contextVars
      BY <2>1 DEF register_submitter
    <3>4. CASE UNCHANGED tally
      BY <3>2, <3>4
    <3>5. CASE CallbackReturns(w)
      <4>1. PICK c \in {"succeeded", "failed"} : Tally(c)
        BY <3>5 DEF CallbackReturns
      <4>2. QED
        BY <1>1, <3>2, <4>1 DEF Tally, TypeOK, Tallied
    <3>6. CASE WorkerExits(w)
      <4>1. PICK n \in 0..2 : tally' = [tally EXCEPT !["runtime_failures"] = @ + n]
        BY <1>1, <3>6, ExitFacts DEF TypeOK
      <4>2. QED
        BY <1>1, <3>2, <4>1 DEF TypeOK, Tallied
    <3>7. QED
      BY <3>4, <3>5, <3>6
         DEF scheduler_worker_entry, WorkerReady, WorkerCountsDequeue, WorkerCountsStart,
             WorkerExecutes, WorkerCountsStop, WorkerQueueFailure, WorkerDequeue, history
  <2>2. QED
    BY <1>1, <2>1, SubmittedFrame
<1>4. Bystanders(w)
  <2>1. CASE WorkerQueueFailure(w)
    BY <1>1, <2>1, ShutdownFacts DEF WorkerQueueFailure
  <2>2. CASE ~WorkerQueueFailure(w)
    <3>1. UNCHANGED queueVars
      BY <2>2
         DEF scheduler_worker_entry, WorkerReady, WorkerCountsDequeue, WorkerCountsStart,
             WorkerExecutes, WorkerCountsStop, CallbackReturns, WorkerExits,
             record_worker_exit
    <3>2. QED
      BY <3>1, BystandersQuiet
  <2>3. QED
    BY <2>1, <2>2
<1>5. \A u \in Threads : u # w => task'[u] = task[u]
  BY <1>1
     DEF scheduler_worker_entry, WorkerReady, WorkerCountsDequeue, WorkerCountsStart,
         WorkerExecutes, WorkerCountsStop, CallbackReturns, WorkerExits,
         record_worker_exit, WorkerQueueFailure, TypeOK
<1>6. Elsewhere(w)
  BY <1>1, <1>2, <1>4, <1>5, ElsewhereFrom
<1>7. ASSUME NEW label, Goto(w, label) PROVE pc'[w] = label
  BY <1>1, <1>7, GotoFacts
<1>8. ASSUME UNCHANGED <<queue, outcome, executed>>,
             \A j \in Tasks : ~Offering(w, j) /\ ~HasPut(w, j) /\ ~Holds(w, j),
             \A j \in Tasks : ~Offering(w, j)' /\ ~HasPut(w, j)' /\ ~Holds(w, j)',
             Calling(w)' => Calling(w)
      PROVE  Moves(w)
  BY <1>3, <1>8 DEF Moves, Quiet, CallEnds, Same, SameOffer, SamePut, SameHold
<1>9. CASE WorkerReady(w) \/ WorkerExits(w) \/ WorkerQueueFailure(w) \/ WorkerCountsStop(w)
  <2>1. /\ pc[w] \in {"entry", "dequeued", "abandon", "count_stopped"}
        /\ pc[w] = "dequeued" => qret[w][1] # "OK"
    BY <1>9 DEF WorkerReady, WorkerExits, WorkerQueueFailure, WorkerCountsStop
  <2>2. pc'[w] \in {"dequeue", "exited", "abandon"}
    <3>1. CASE WorkerReady(w)
      BY <1>1, <3>1 DEF WorkerReady, TypeOK
    <3>2. CASE WorkerExits(w) \/ WorkerQueueFailure(w) \/ WorkerCountsStop(w)
      BY <1>7, <3>2 DEF WorkerExits, WorkerQueueFailure, WorkerCountsStop, record_worker_exit
    <3>3. QED
      BY <1>9, <3>1, <3>2
  <2>3. UNCHANGED <<queue, outcome, executed>>
    BY <1>9
       DEF WorkerReady, WorkerExits, WorkerQueueFailure, WorkerCountsStop,
           record_worker_exit, history, queueVars, Q!concurrent_task_queue_shutdown
  <2>4. \A j \in Tasks : ~Offering(w, j) /\ ~HasPut(w, j) /\ ~Holds(w, j)
    BY <2>1, Aloof DEF SubmitLabels, TaskInHandLabels
  <2>5. \A j \in Tasks : ~Offering(w, j)' /\ ~HasPut(w, j)' /\ ~Holds(w, j)'
    BY <2>2, AloofPrimed DEF SubmitLabels, TaskInHandLabels
  <2>6. ~Calling(w)'
    BY <2>2 DEF Calling, SubmitLabels
  <2>7. QED
    BY <1>6, <1>8, <2>3, <2>4, <2>5, <2>6
<1>10. CASE CallbackReturns(w)
  <2>1. pc[w] = "callback" /\ pc'[w] = "count_stopped" /\ UNCHANGED <<queue, outcome, executed>>
    BY <1>7, <1>10 DEF CallbackReturns, queueVars
  <2>2. \A j \in Tasks : ~Offering(w, j) /\ ~HasPut(w, j) /\ ~Holds(w, j)
    BY <2>1, Aloof DEF SubmitLabels, TaskInHandLabels
  <2>3. \A j \in Tasks : ~Offering(w, j)' /\ ~HasPut(w, j)' /\ ~Holds(w, j)'
    BY <2>1, AloofPrimed DEF SubmitLabels, TaskInHandLabels
  <2>4. ~Calling(w)'
    BY <2>1 DEF Calling, SubmitLabels
  <2>5. QED
    BY <1>6, <1>8, <2>1, <2>2, <2>3, <2>4
<1>11. CASE WorkerCountsDequeue(w) \/ WorkerCountsStart(w)
  <2>1. UNCHANGED <<queueVars, outcome, executed>>
    BY <1>11 DEF WorkerCountsDequeue, WorkerCountsStart, history
  <2>2. pc'[w] \in TaskInHandLabels
    BY <1>7, <1>11 DEF WorkerCountsDequeue, WorkerCountsStart, TaskInHandLabels
  <2>3. \/ pc[w] = "dequeued" /\ qpc[w] = "idle" /\ qret[w] = <<"OK", task'[w]>>
        \/ pc[w] \in TaskInHandLabels /\ task'[w] = task[w]
    <3>1. CASE WorkerCountsDequeue(w)
      <4>1. qret[w][1] = "OK" /\ task'[w] = qret[w][2] /\ pc[w] = "dequeued" /\ qpc[w] = "idle"
        BY <1>1, <3>1 DEF WorkerCountsDequeue, TypeOK
      <4>2. qret[w] \in Q!Codes \X (Tasks \cup {NULL})
        BY <1>1 DEF QueueInv, Q!TypeOK
      <4>3. QED
        BY <4>1, <4>2
    <3>2. CASE WorkerCountsStart(w)
      BY <3>2 DEF WorkerCountsStart, TaskInHandLabels
    <3>3. QED
      BY <1>11, <3>1, <3>2
  <2>4. \A j \in Tasks : ~Offering(w, j) /\ ~HasPut(w, j) /\ ~Offering(w, j)' /\ ~HasPut(w, j)'
    BY <2>2, <2>3 DEF Offering, HasPut, SubmitLabels, TaskInHandLabels
  <2>5. \A j \in Tasks : Holds(w, j) <=> j = task'[w]
    BY <2>3 DEF Holds, TaskInHandLabels
  <2>6. \A j \in Tasks : Holds(w, j)' <=> j = task'[w]
    BY <2>2 DEF Holds, TaskInHandLabels
  <2>7. ~Calling(w) /\ ~Calling(w)'
    BY <2>2, <2>3 DEF Calling, SubmitLabels, TaskInHandLabels
  <2>8. QED
    BY <1>3, <1>6, <2>1, <2>4, <2>5, <2>6, <2>7
       DEF Moves, Quiet, Same, SameOffer, SamePut, SameHold, queueVars
<1>12. CASE WorkerExecutes(w)
  <2>1. task[w] \in Tasks /\ pc[w] = "execute"
    BY <1>1, <1>12 DEF WorkerExecutes, QueueUse, TaskInHandLabels
  <2>2. PICK k \in Tasks : k = task[w]
    BY <2>1
  <2>3. /\ pc'[w] = "callback" /\ UNCHANGED <<queue, outcome>>
        /\ executed' = [executed EXCEPT ![k] = @ + 1]
    BY <1>7, <1>12, <2>2 DEF WorkerExecutes, queueVars
  <2>4. \A j \in Tasks : ~Offering(w, j) /\ ~HasPut(w, j) /\ (Holds(w, j) <=> j = k)
    BY <2>1, <2>2 DEF Offering, HasPut, Holds, SubmitLabels, TaskInHandLabels
  <2>5. \A j \in Tasks : ~Offering(w, j)' /\ ~HasPut(w, j)' /\ ~Holds(w, j)'
    BY <2>3, AloofPrimed DEF SubmitLabels, TaskInHandLabels
  <2>6. ~Calling(w) /\ Calling(w)'
    BY <2>1, <2>3 DEF Calling, SubmitLabels
  <2>7. RunsTask(w, k)
    BY <1>3, <2>3, <2>4, <2>5, <2>6 DEF RunsTask, SameOffer, SamePut
  <2>8. QED
    BY <1>6, <2>7 DEF Moves
<1>13. QED
  BY <1>6, <1>9, <1>10, <1>11, <1>12 DEF scheduler_worker_entry

(* Every step moves at most one task, in one of these ways. *)
LEMMA TaskStep ==
    ASSUME LifeInv, [Next]_vars
    PROVE  \/ MainOnly /\ Elsewhere(Main) /\ Quiet(Main)
           \/ /\ UNCHANGED <<state, implementation>>
              /\ \E t \in Threads : Elsewhere(t) /\ Moves(t)
<1> USE ThreadKinds
<1>1. BaseInv
  BY DEF LifeInv
<1>2. CASE MainOnly
  BY <1>1, <1>2, MainMoves
<1>3. CASE StartAborts \/ ShutdownQueue \/ UNCHANGED vars
  <2>1. Elsewhere(Main) /\ Quiet(Main)
    BY <1>1, <1>3, MainMoves
  <2>2. UNCHANGED <<state, implementation>>
    BY <1>3 DEF StartAborts, ShutdownQueue, vars, lifecycleVars
  <2>3. QED
    BY <2>1, <2>2 DEF Moves
<1>4. CASE StartCreates
  <2>1. \E t \in Threads : Elsewhere(t) /\ Quiet(t)
    BY <1>1, <1>4, CreateMoves
  <2>2. UNCHANGED <<state, implementation>>
    BY <1>4 DEF StartCreates, lifecycleVars
  <2>3. QED
    BY <2>1, <2>2 DEF Moves
<1>5. ASSUME NEW t \in Workers \cup Submitters, OtherStep(t)
      PROVE  UNCHANGED <<state, implementation>> /\ Elsewhere(t) /\ Moves(t)
  <2>1. UNCHANGED <<state, implementation>>
    BY <1>1, <1>5, OtherFrame
  <2>2. Elsewhere(t) /\ Moves(t)
    BY <1>5, GateMoves, QueueMoves, WorkerMoves DEF OtherStep
  <2>3. QED
    BY <2>1, <2>2
<1>6. QED
  BY <1>2, <1>3, <1>4, <1>5, NextSplit

-----------------------------------------------------------------------------
(* The k-th submission is of Task k: it is answered, or exactly one thread *)
(* is submitting it.                                                       *)
Submissions ==
    /\ \A k \in Tasks :
          /\ k > tally["submitted"] => outcome[k] = "none"
          /\ k <= tally["submitted"] =>
                outcome[k] # "none" \/ \E t \in Threads : Offering(t, k)
    /\ \A t \in Threads, k \in Tasks :
          Offering(t, k) => /\ k <= tally["submitted"] /\ outcome[k] = "none"
                            /\ \A u \in Threads : Offering(u, k) => u = t

InQueue(k) == \E i \in 1..Len(queue) : queue[i] = k
Held(k) == \E w \in Workers : Holds(w, k)
Taken(k) == outcome[k] = "OK" \/ \E t \in Threads : HasPut(t, k)

(* A task is in one place at a time, and in one exactly when the queue has *)
(* taken it.                                                               *)
Place ==
    /\ \A i, j \in 1..Len(queue) : queue[i] = queue[j] => i = j
    /\ \A k \in Tasks :
          /\ \A v, w \in Workers : Holds(v, k) /\ Holds(w, k) => v = w
          /\ executed[k] \in {0, 1}
          /\ Held(k) => ~InQueue(k)
          /\ executed[k] = 1 => ~InQueue(k) /\ ~Held(k)
          /\ Taken(k) <=> InQueue(k) \/ Held(k) \/ executed[k] = 1

(* Submissions are numbered, and each is answered once. *)
LEMMA SubmissionsKept ==
    ASSUME LifeInv, Submissions, [Next]_vars
    PROVE  Submissions'
<1>1. TypeOK /\ TypeOK'
  BY TypeStep DEF LifeInv, BaseInv
<1>2. tally["submitted"] \in Nat /\ outcome \in [Tasks -> SchedulerCodes]
  BY <1>1 DEF TypeOK, Tallied
<1>3. "none" \notin {"OK"} \cup Refusals
  BY DEF Refusals
<1>4. PICK t \in Threads : Elsewhere(t) /\ Moves(t)
  BY TaskStep, ThreadKinds DEF Moves
<1>5. \A u \in Threads, k \in Tasks : u # t => (Offering(u, k)' <=> Offering(u, k))
  BY <1>4 DEF Elsewhere, Same, SameOffer
<1>6. ASSUME outcome' = outcome, tally'["submitted"] = tally["submitted"], SameOffer(t)
      PROVE  Submissions'
  <2>1. \A u \in Threads, k \in Tasks : Offering(u, k)' <=> Offering(u, k)
    BY <1>5, <1>6 DEF SameOffer
  <2>2. QED
    BY <1>6, <2>1 DEF Submissions
<1>7. ASSUME NEW k \in Tasks, Offers(t, k)
      PROVE  Submissions'
  <2>1. /\ k = tally["submitted"] + 1 /\ tally'["submitted"] = k /\ outcome' = outcome
        /\ \A j \in Tasks : ~Offering(t, j) /\ (Offering(t, j)' <=> j = k)
    BY <1>7 DEF Offers
  <2>2. \A u \in Threads : ~Offering(u, k) /\ outcome[k] = "none"
    BY <1>2, <2>1 DEF Submissions, Tasks
  <2>3. ASSUME NEW j \in Tasks
        PROVE  /\ j > tally'["submitted"] => outcome'[j] = "none"
               /\ j <= tally'["submitted"] =>
                     outcome'[j] # "none" \/ \E u \in Threads : Offering(u, j)'
    BY <1>2, <1>5, <2>1 DEF Submissions, Tasks
  <2>4. ASSUME NEW u \in Threads, NEW j \in Tasks, Offering(u, j)'
        PROVE  /\ j <= tally'["submitted"] /\ outcome'[j] = "none"
               /\ \A v \in Threads : Offering(v, j)' => v = u
    BY <1>2, <1>5, <2>1, <2>2, <2>4 DEF Submissions, Tasks
  <2>5. QED
    BY <2>3, <2>4 DEF Submissions
<1>8. ASSUME NEW k \in Tasks, Refuses(t, k)
      PROVE  Submissions'
  <2>1. k = tally["submitted"] + 1 /\ tally'["submitted"] = k /\ SameOffer(t)
    BY <1>8 DEF Refuses, Same
  <2>2. PICK code \in Refusals : outcome' = [outcome EXCEPT ![k] = code]
    BY <1>8 DEF Refuses
  <2>3. outcome'[k] # "none" /\ \A j \in Tasks : j # k => outcome'[j] = outcome[j]
    BY <1>2, <1>3, <2>2
  <2>4. \A u \in Threads, j \in Tasks : Offering(u, j)' <=> Offering(u, j)
    BY <1>5, <2>1 DEF SameOffer
  <2>5. ASSUME NEW u \in Threads, NEW j \in Tasks, Offering(u, j) PROVE j # k
    BY <1>2, <2>1, <2>5 DEF Submissions, Tasks
  <2>6. ASSUME NEW j \in Tasks
        PROVE  /\ j > tally'["submitted"] => outcome'[j] = "none"
               /\ j <= tally'["submitted"] =>
                     outcome'[j] # "none" \/ \E u \in Threads : Offering(u, j)'
    BY <1>2, <2>1, <2>3, <2>4 DEF Submissions, Tasks
  <2>7. ASSUME NEW u \in Threads, NEW j \in Tasks, Offering(u, j)'
        PROVE  /\ j <= tally'["submitted"] /\ outcome'[j] = "none"
               /\ \A v \in Threads : Offering(v, j)' => v = u
    BY <1>2, <2>1, <2>3, <2>4, <2>5, <2>7 DEF Submissions, Tasks
  <2>8. QED
    BY <2>6, <2>7 DEF Submissions
<1>9. ASSUME NEW k \in Tasks, AnswersTask(t, k)
      PROVE  Submissions'
  <2>1. /\ tally'["submitted"] = tally["submitted"]
        /\ \A j \in Tasks : (Offering(t, j) <=> j = k) /\ ~Offering(t, j)'
    BY <1>9 DEF AnswersTask
  <2>2. PICK code \in {"OK"} \cup Refusals : outcome' = [outcome EXCEPT ![k] = code]
    BY <1>9 DEF AnswersTask
  <2>3. outcome'[k] # "none" /\ \A j \in Tasks : j # k => outcome'[j] = outcome[j]
    BY <1>2, <1>3, <2>2
  <2>4. \A u \in Threads : Offering(u, k) => u = t
    BY <2>1 DEF Submissions
  <2>5. \A u \in Threads, j \in Tasks : Offering(u, j)' <=> Offering(u, j) /\ j # k
    BY <1>5, <2>1, <2>4
  <2>6. k <= tally["submitted"]
    BY <2>1 DEF Submissions
  <2>7. ASSUME NEW j \in Tasks
        PROVE  /\ j > tally'["submitted"] => outcome'[j] = "none"
               /\ j <= tally'["submitted"] =>
                     outcome'[j] # "none" \/ \E u \in Threads : Offering(u, j)'
    BY <1>2, <2>1, <2>3, <2>5, <2>6 DEF Submissions, Tasks
  <2>8. ASSUME NEW u \in Threads, NEW j \in Tasks, Offering(u, j)'
        PROVE  /\ j <= tally'["submitted"] /\ outcome'[j] = "none"
               /\ \A v \in Threads : Offering(v, j)' => v = u
    BY <2>1, <2>3, <2>5, <2>8 DEF Submissions
  <2>9. QED
    BY <2>7, <2>8 DEF Submissions
<1>10. QED
  BY <1>4, <1>6, <1>7, <1>8, <1>9
     DEF Moves, Quiet, CallEnds, PutsTask, TakesTask, RunsTask, Same

(* Who has put a task was offering it. *)
LEMMA PutImpliesOffer ==
    ASSUME NEW t, NEW k, HasPut(t, k)
    PROVE  Offering(t, k)
BY DEF HasPut, Offering, SubmitLabels

(* Every move takes a task from one place to the next. *)
LEMMA PlaceKept ==
    ASSUME LifeInv, Submissions, Place, [Next]_vars
    PROVE  Place'
<1> USE ThreadKinds
<1>1. TypeOK /\ QueueInv
  BY DEF LifeInv, BaseInv
<1>2. /\ executed \in [Tasks -> Nat] /\ outcome \in [Tasks -> SchedulerCodes]
      /\ queue \in Seq(Tasks) /\ tally["submitted"] \in Nat
  BY <1>1 DEF TypeOK, QueueInv, Q!TypeOK, Tallied
<1>3. PICK t \in Threads : Elsewhere(t) /\ Moves(t)
  BY TaskStep DEF Moves
<1>4. \A u \in Threads, k \in Tasks : u # t =>
          (HasPut(u, k)' <=> HasPut(u, k)) /\ (Holds(u, k)' <=> Holds(u, k))
  BY <1>3 DEF Elsewhere, Same, SamePut, SameHold
<1>5. ASSUME UNCHANGED <<queue, outcome, executed>>, SamePut(t), SameHold(t)
      PROVE  Place'
  <2>1. \A u \in Threads, k \in Tasks :
            (HasPut(u, k)' <=> HasPut(u, k)) /\ (Holds(u, k)' <=> Holds(u, k))
    BY <1>4, <1>5 DEF SamePut, SameHold
  <2>2. \A k \in Tasks : (InQueue(k)' <=> InQueue(k)) /\ (Held(k)' <=> Held(k))
                         /\ (Taken(k)' <=> Taken(k))
    BY <1>5, <2>1 DEF InQueue, Held, Taken
  <2>3. QED
    BY <1>5, <2>1, <2>2 DEF Place
<1>6. ASSUME UNCHANGED <<queue, executed>>, SameHold(t),
             \A k \in Tasks : Taken(k)' <=> Taken(k)
      PROVE  Place'
  <2>1. \A u \in Threads, k \in Tasks : Holds(u, k)' <=> Holds(u, k)
    BY <1>4, <1>6 DEF SameHold
  <2>2. \A k \in Tasks : (InQueue(k)' <=> InQueue(k)) /\ (Held(k)' <=> Held(k))
    BY <1>6, <2>1 DEF InQueue, Held
  <2>3. QED
    BY <1>6, <2>1, <2>2 DEF Place
<1>7. ASSUME NEW k \in Tasks, Refuses(t, k)
      PROVE  Place'
  <2>1. /\ k = tally["submitted"] + 1 /\ SamePut(t) /\ SameHold(t)
        /\ UNCHANGED <<queue, executed>>
    BY <1>7 DEF Refuses, Same
  <2>2. PICK code \in Refusals : outcome' = [outcome EXCEPT ![k] = code]
    BY <1>7 DEF Refuses
  <2>3. outcome'[k] # "OK" /\ outcome[k] = "none"
        /\ \A j \in Tasks : j # k => outcome'[j] = outcome[j]
    BY <1>2, <2>1, <2>2 DEF Submissions, Refusals, Tasks
  <2>4. \A u \in Threads, j \in Tasks : HasPut(u, j)' <=> HasPut(u, j)
    BY <1>4, <2>1 DEF SamePut
  <2>5. \A j \in Tasks : Taken(j)' <=> Taken(j)
    BY <2>3, <2>4 DEF Taken
  <2>6. QED
    BY <1>6, <2>1, <2>5
<1>8. ASSUME NEW k \in Tasks, AnswersTask(t, k)
      PROVE  Place'
  <2>1. /\ UNCHANGED <<queue, executed>> /\ SameHold(t)
        /\ \A j \in Tasks : (Offering(t, j) <=> j = k) /\ ~HasPut(t, j)'
    BY <1>8 DEF AnswersTask
  <2>2. PICK code \in {"OK"} \cup Refusals : outcome' = [outcome EXCEPT ![k] = code]
                                             /\ (code = "OK" <=> HasPut(t, k))
    BY <1>8 DEF AnswersTask
  <2>3. outcome'[k] = code /\ outcome[k] = "none"
        /\ \A j \in Tasks : j # k => outcome'[j] = outcome[j]
    BY <1>2, <2>1, <2>2 DEF Submissions
  <2>4. \A u \in Threads : HasPut(u, k) => u = t
    BY <2>1, PutImpliesOffer DEF Submissions
  <2>5. \A j \in Tasks : HasPut(t, j) => j = k
    BY <2>1, PutImpliesOffer
  <2>6. Taken(k)' <=> Taken(k)
    <3>1. Taken(k)' <=> code = "OK"
      BY <1>4, <2>1, <2>3, <2>4 DEF Taken
    <3>2. Taken(k) <=> HasPut(t, k)
      BY <2>3, <2>4 DEF Taken
    <3>3. QED
      BY <2>2, <3>1, <3>2
  <2>7. ASSUME NEW j \in Tasks, j # k PROVE Taken(j)' <=> Taken(j)
    BY <1>4, <2>1, <2>3, <2>5, <2>7 DEF Taken
  <2>8. QED
    BY <1>6, <2>1, <2>6, <2>7
<1>9. ASSUME NEW k \in Tasks, PutsTask(t, k)
      PROVE  Place'
  <2>1. /\ UNCHANGED <<outcome, executed>> /\ queue' = Append(queue, k)
        /\ Offering(t, k) /\ SameHold(t)
        /\ \A j \in Tasks : ~HasPut(t, j) /\ (HasPut(t, j)' <=> j = k)
    BY <1>9 DEF PutsTask
  <2>2. ~Taken(k)
    <3>1. outcome[k] = "none" /\ \A u \in Threads : Offering(u, k) => u = t
      BY <2>1 DEF Submissions
    <3>2. QED
      BY <2>1, <3>1, PutImpliesOffer DEF Taken
  <2>3. ~InQueue(k) /\ ~Held(k) /\ executed[k] = 0
    BY <2>2 DEF Place
  <2>4. Len(queue') = Len(queue) + 1 /\ queue'[Len(queue) + 1] = k
        /\ \A i \in 1..Len(queue) : queue'[i] = queue[i]
    BY <1>2, <2>1
  <2>5. Len(queue) \in Nat
    BY <1>2
  <2>6. \A j \in Tasks : InQueue(j)' <=> InQueue(j) \/ j = k
    BY <2>4, <2>5 DEF InQueue
  <2>7. \A u \in Threads, j \in Tasks : Holds(u, j)' <=> Holds(u, j)
    BY <1>4, <2>1 DEF SameHold
  <2>8. \A j \in Tasks : Held(j)' <=> Held(j)
    BY <2>7 DEF Held
  <2>9. \A j \in Tasks : Taken(j)' <=> Taken(j) \/ j = k
    BY <1>4, <2>1 DEF Taken
  <2>10. ASSUME NEW i \in 1..Len(queue'), NEW j \in 1..Len(queue'), queue'[i] = queue'[j]
         PROVE  i = j
    BY <2>3, <2>4, <2>5, <2>10 DEF Place, InQueue
  <2>11. ASSUME NEW j \in Tasks
         PROVE  /\ \A v, w \in Workers : Holds(v, j)' /\ Holds(w, j)' => v = w
                /\ executed'[j] \in {0, 1}
                /\ Held(j)' => ~InQueue(j)'
                /\ executed'[j] = 1 => ~InQueue(j)' /\ ~Held(j)'
                /\ Taken(j)' <=> InQueue(j)' \/ Held(j)' \/ executed'[j] = 1
    BY <2>1, <2>3, <2>6, <2>7, <2>8, <2>9 DEF Place
  <2>12. QED
    BY <2>10, <2>11 DEF Place
<1>10. CASE TakesTask(t)
  <2>1. /\ UNCHANGED <<outcome, executed>> /\ queue # <<>> /\ queue' = Tail(queue)
        /\ t \in Workers /\ SamePut(t)
        /\ \A j \in Tasks : ~Holds(t, j) /\ (Holds(t, j)' <=> j = Head(queue))
    BY <1>10 DEF TakesTask
  <2>2. PICK h \in Tasks : h = Head(queue) /\ h = queue[1]
    <3>1. Len(queue) \in Nat \ {0}
      BY <1>2, <2>1
    <3>2. queue[1] \in Tasks
      BY <1>2, <3>1
    <3>3. Head(queue) = queue[1]
      BY <1>2, <3>1
    <3>4. QED
      BY <3>2, <3>3
  <2>3. /\ Len(queue) \in Nat \ {0} /\ Len(queue') = Len(queue) - 1
        /\ \A i \in 1..Len(queue') : queue'[i] = queue[i + 1]
    BY <1>2, <2>1
  <2>4. InQueue(h) /\ ~Held(h) /\ executed[h] = 0
    <3>1. InQueue(h)
      BY <2>2, <2>3 DEF InQueue
    <3>2. QED
      BY <3>1 DEF Place
  <2>5. \A j \in Tasks : InQueue(j)' <=> InQueue(j) /\ j # h
    <3>1. ASSUME NEW j \in Tasks, InQueue(j)' PROVE InQueue(j) /\ j # h
      <4>1. PICK i \in 1..Len(queue') : queue'[i] = j
        BY <3>1 DEF InQueue
      <4>2. i + 1 \in 1..Len(queue) /\ queue[i + 1] = j /\ i + 1 # 1 /\ 1 \in 1..Len(queue)
        BY <2>3, <4>1
      <4>3. j # h
        BY <2>2, <4>2 DEF Place
      <4>4. QED
        BY <4>2, <4>3 DEF InQueue
    <3>2. ASSUME NEW j \in Tasks, InQueue(j), j # h PROVE InQueue(j)'
      <4>1. PICK i \in 1..Len(queue) : queue[i] = j
        BY <3>2 DEF InQueue
      <4>2. i # 1
        BY <2>2, <3>2, <4>1
      <4>3. i - 1 \in 1..Len(queue') /\ queue'[i - 1] = queue[(i - 1) + 1]
        BY <2>3, <4>1, <4>2
      <4>4. queue'[i - 1] = j
        BY <4>1, <4>3
      <4>5. QED
        BY <4>3, <4>4 DEF InQueue
    <3>3. QED
      BY <3>1, <3>2
  <2>6. \A u \in Threads, j \in Tasks : Holds(u, j)' <=> Holds(u, j) \/ (u = t /\ j = h)
    BY <1>4, <2>1, <2>2
  <2>7. \A j \in Tasks : Held(j)' <=> Held(j) \/ j = h
    BY <2>1, <2>6 DEF Held
  <2>8. \A j \in Tasks : Taken(j)' <=> Taken(j)
    BY <1>4, <2>1 DEF Taken, SamePut
  <2>9. ASSUME NEW i \in 1..Len(queue'), NEW j \in 1..Len(queue'), queue'[i] = queue'[j]
        PROVE  i = j
    <3>1. i + 1 \in 1..Len(queue) /\ j + 1 \in 1..Len(queue) /\ queue[i + 1] = queue[j + 1]
      BY <2>3, <2>9
    <3>2. i + 1 = j + 1
      BY <3>1 DEF Place
    <3>3. QED
      BY <3>2
  <2>10. ASSUME NEW j \in Tasks
         PROVE  /\ \A v, w \in Workers : Holds(v, j)' /\ Holds(w, j)' => v = w
                /\ executed'[j] \in {0, 1}
                /\ Held(j)' => ~InQueue(j)'
                /\ executed'[j] = 1 => ~InQueue(j)' /\ ~Held(j)'
                /\ Taken(j)' <=> InQueue(j)' \/ Held(j)' \/ executed'[j] = 1
    <3>1. \A v, w \in Workers : Holds(v, j)' /\ Holds(w, j)' => v = w
      BY <2>4, <2>6 DEF Held, Place
    <3>2. QED
      BY <2>1, <2>4, <2>5, <2>7, <2>8, <3>1 DEF Place
  <2>11. QED
    BY <2>9, <2>10 DEF Place
<1>11. ASSUME NEW k \in Tasks, RunsTask(t, k)
       PROVE  Place'
  <2>1. /\ UNCHANGED <<outcome, queue>> /\ t \in Workers /\ SamePut(t)
        /\ executed' = [executed EXCEPT ![k] = @ + 1]
        /\ \A j \in Tasks : (Holds(t, j) <=> j = k) /\ ~Holds(t, j)'
    BY <1>11 DEF RunsTask
  <2>2. Held(k) /\ ~InQueue(k) /\ executed[k] = 0
    <3>1. Held(k)
      BY <2>1 DEF Held
    <3>2. QED
      BY <3>1 DEF Place
  <2>3. executed'[k] = 1 /\ \A j \in Tasks : j # k => executed'[j] = executed[j]
    BY <1>2, <2>1, <2>2
  <2>4. \A u \in Workers, j \in Tasks : Holds(u, j)' <=> Holds(u, j) /\ j # k
    BY <1>4, <2>1 DEF Place
  <2>5. \A j \in Tasks : Held(j)' <=> Held(j) /\ j # k
    BY <2>4 DEF Held
  <2>6. \A j \in Tasks : (InQueue(j)' <=> InQueue(j)) /\ (Taken(j)' <=> Taken(j))
    BY <1>4, <2>1 DEF InQueue, Taken, SamePut
  <2>7. ASSUME NEW j \in Tasks
        PROVE  /\ \A v, w \in Workers : Holds(v, j)' /\ Holds(w, j)' => v = w
               /\ executed'[j] \in {0, 1}
               /\ Held(j)' => ~InQueue(j)'
               /\ executed'[j] = 1 => ~InQueue(j)' /\ ~Held(j)'
               /\ Taken(j)' <=> InQueue(j)' \/ Held(j)' \/ executed'[j] = 1
    BY <2>2, <2>3, <2>4, <2>5, <2>6 DEF Place
  <2>8. QED
    BY <2>1, <2>7 DEF Place
<1>12. QED
  BY <1>3, <1>5, <1>7, <1>8, <1>9, <1>10, <1>11
     DEF Moves, Quiet, CallEnds, Offers, Same

-----------------------------------------------------------------------------
(* The submissions that were answered, counted. *)
LEMMA TasksFinite ==
    /\ IsFiniteSet(Tasks)
    /\ \A S \in SUBSET Tasks : IsFiniteSet(S) /\ Cardinality(S) \in Nat
<1>1. IsFiniteSet(Tasks)
  BY FS_Interval, SchedulerAssumption DEF Tasks
<1>2. QED
  BY <1>1, FS_Subset, FS_CardinalityType

(* The answers can be counted. *)
LEMMA AnsweredType ==
    ASSUME NEW codes PROVE Answered(codes) \in Nat
BY TasksFinite DEF Answered

(* One more task in a set that a history of results selects. *)
LEMMA OneMore ==
    ASSUME NEW f, NEW g, NEW k \in Tasks, NEW codes,
           f[k] \notin codes, \A j \in Tasks : j # k => g[j] = f[j]
    PROVE  Cardinality({j \in Tasks : g[j] \in codes}) =
               IF g[k] \in codes THEN Cardinality({j \in Tasks : f[j] \in codes}) + 1
               ELSE Cardinality({j \in Tasks : f[j] \in codes})
<1> DEFINE S == {j \in Tasks : f[j] \in codes}
           T == {j \in Tasks : g[j] \in codes}
<1>1. k \notin S /\ IsFiniteSet(S)
  BY TasksFinite
<1>2. CASE g[k] \in codes
  <2>1. T = S \cup {k}
    BY <1>2
  <2>2. Cardinality(T) = Cardinality(S) + 1
    <3> HIDE DEF S, T
    <3> QED
      BY <1>1, <2>1, FS_AddElement
  <2>3. QED
    BY <1>2, <2>2
<1>3. CASE g[k] \notin codes
  <2>1. T = S
    BY <1>3
  <2>2. QED
    BY <1>3, <2>1
<1>4. QED
  BY <1>2, <1>3

(* What an answer to a submission adds to the counts of answers. *)
LEMMA AnswerStep ==
    ASSUME outcome \in [Tasks -> SchedulerCodes], NEW k \in Tasks, outcome[k] = "none",
           NEW code \in {"OK"} \cup Refusals, outcome' = [outcome EXCEPT ![k] = code]
    PROVE  /\ Answered({"OK"} \cup Refusals)' = Answered({"OK"} \cup Refusals) + 1
           /\ Answered({"OK"})' = IF code = "OK" THEN Answered({"OK"}) + 1 ELSE Answered({"OK"})
           /\ Answered(Refusals)' = IF code = "OK" THEN Answered(Refusals)
                                    ELSE Answered(Refusals) + 1
<1>1. outcome'[k] = code /\ \A j \in Tasks : j # k => outcome'[j] = outcome[j]
  OBVIOUS
<1>2. "none" \notin {"OK"} /\ "none" \notin Refusals /\ "OK" \notin Refusals
  BY DEF Refusals
<1>3. Cardinality({j \in Tasks : outcome'[j] \in {"OK"} \cup Refusals})
          = Cardinality({j \in Tasks : outcome[j] \in {"OK"} \cup Refusals}) + 1
  <2> DEFINE All == {"OK"} \cup Refusals
  <2>1. outcome[k] \notin All /\ outcome'[k] \in All
    BY <1>1, <1>2
  <2> HIDE DEF All
  <2>2. Cardinality({j \in Tasks : outcome'[j] \in All})
          = Cardinality({j \in Tasks : outcome[j] \in All}) + 1
    BY <1>1, <2>1, OneMore
  <2>3. QED
    BY <2>2 DEF All
<1>4. Cardinality({j \in Tasks : outcome'[j] \in {"OK"}})
          = IF code = "OK" THEN Cardinality({j \in Tasks : outcome[j] \in {"OK"}}) + 1
            ELSE Cardinality({j \in Tasks : outcome[j] \in {"OK"}})
  <2> DEFINE Ok == {"OK"}
  <2>1. outcome[k] \notin Ok /\ (outcome'[k] \in Ok <=> code = "OK")
    BY <1>1
  <2> HIDE DEF Ok
  <2>2. Cardinality({j \in Tasks : outcome'[j] \in Ok})
          = IF code = "OK" THEN Cardinality({j \in Tasks : outcome[j] \in Ok}) + 1
            ELSE Cardinality({j \in Tasks : outcome[j] \in Ok})
    BY <1>1, <2>1, OneMore
  <2>3. QED
    BY <2>2 DEF Ok
<1>5. Cardinality({j \in Tasks : outcome'[j] \in Refusals})
          = IF code = "OK" THEN Cardinality({j \in Tasks : outcome[j] \in Refusals})
            ELSE Cardinality({j \in Tasks : outcome[j] \in Refusals}) + 1
  <2>1. outcome[k] \notin Refusals /\ (outcome'[k] \in Refusals <=> code # "OK")
    BY <1>1, <1>2
  <2>2. QED
    BY <1>1, <2>1, OneMore
<1>6. QED
  BY <1>3, <1>4, <1>5 DEF Answered

(* A saturating counter of n events, after one more. *)
LEMMA SaturatedStep ==
    ASSUME NEW n \in Nat
    PROVE  /\ Saturated(n + 1) = Increment(Saturated(n))
           /\ Overflows(Saturated(n)) <=> n >= CounterMax
BY SchedulerAssumption DEF Saturated, Increment, Overflows

(* Registering and deregistering keep the accounts of submissions. *)
LEMMA AccountedKept ==
    ASSUME LifeInv, Submissions, SubmissionsAccounted, [Next]_vars
    PROVE  SubmissionsAccounted'
<1> USE ThreadKinds
<1>1. BaseInv /\ TypeOK /\ TypeOK' /\ Gate /\ Gate'
  BY TypeStep, StepLife DEF LifeInv, BaseInv
<1>2. outcome \in [Tasks -> SchedulerCodes] /\ tally \in [Tallied -> Nat] /\ "submitted" \in Tallied
  BY <1>1 DEF TypeOK, Tallied
<1>3. /\ tally["submitted"] \in Nat /\ active_submitter_count \in Nat
      /\ active_submitter_count' \in Nat /\ CounterMax \in Nat
  BY <1>1, <1>2, SchedulerAssumption DEF TypeOK
<1> DEFINE All == {"OK"} \cup Refusals
           n == tally["submitted"]
           a == Answered({"OK"})
           r == Answered(Refusals)
<1>4. a \in Nat /\ r \in Nat /\ Answered(All) \in Nat
  BY AnsweredType
<1>5. a <= Answered(All) /\ r <= Answered(All)
  <2>1. \A C \in SUBSET All : {k \in Tasks : outcome[k] \in C} \subseteq {k \in Tasks : outcome[k] \in All}
    OBVIOUS
  <2>2. \A C \in SUBSET All : Answered(C) <= Answered(All)
    BY <2>1, TasksFinite, FS_Subset DEF Answered
  <2>3. QED
    BY <2>2
<1>6. /\ n = Answered(All) + active_submitter_count
      /\ submitted_count = Saturated(n) /\ accepted_count = Saturated(a)
      /\ rejected_count = Saturated(r)
      /\ lifecycle_accounting_overflow <=> n > CounterMax
  BY DEF SubmissionsAccounted
<1>7. active_submitter_count' = Cardinality(Registered')
  BY <1>1 DEF Gate
<1>8. CASE UNCHANGED <<active_submitter_count, submissionVars, outcome>>
           /\ tally'["submitted"] = tally["submitted"]
  BY <1>7, <1>8 DEF SubmissionsAccounted, Answered, submissionVars
<1>9. ASSUME NEW t \in Workers \cup Submitters, NEW call \in {"submit", "try_submit"},
             register_submitter(t, call)
      PROVE  SubmissionsAccounted'
  <2>1. /\ n + 1 \in Tasks /\ tally' = [tally EXCEPT !["submitted"] = n + 1]
        /\ accepted_count' = accepted_count
    BY <1>1, <1>9, RegisterFacts
  <2>2. tally'["submitted"] = n + 1
    BY <1>2, <2>1
  <2>3. /\ submitted_count' = Increment(submitted_count)
        /\ lifecycle_accounting_overflow' =
             (\/ lifecycle_accounting_overflow \/ Overflows(submitted_count)
              \/ ~GateOpen /\ Overflows(rejected_count))
    BY <1>9, Zenon DEF register_submitter
  <2>4. submitted_count' = Saturated(n + 1)
    BY <1>3, <1>6, <2>3, SaturatedStep
  <2>5. lifecycle_accounting_overflow' <=> n + 1 > CounterMax
    <3>1. Overflows(submitted_count) <=> n >= CounterMax
      BY <1>3, <1>6, SaturatedStep
    <3>2. Overflows(rejected_count) => n >= CounterMax
      BY <1>3, <1>4, <1>5, <1>6, SaturatedStep
    <3>3. n + 1 > CounterMax <=> n >= CounterMax
      BY <1>3
    <3>4. n > CounterMax => n >= CounterMax
      BY <1>3
    <3> HIDE DEF n
    <3>5. QED
      BY <1>6, <2>3, <3>1, <3>2, <3>3, <3>4
  <2>6. CASE UNCHANGED <<outcome, rejected_count>>
             /\ active_submitter_count' = active_submitter_count + 1
    <3>1. Answered(All)' = Answered(All) /\ Answered({"OK"})' = a /\ Answered(Refusals)' = r
      BY <2>6 DEF Answered
    <3>2. tally'["submitted"] = Answered(All)' + active_submitter_count'
      BY <1>3, <1>4, <1>6, <2>2, <2>6, <3>1
    <3>3. QED
      BY <1>6, <1>7, <2>1, <2>2, <2>4, <2>5, <2>6, <3>1, <3>2 DEF SubmissionsAccounted
  <2>7. CASE /\ UNCHANGED active_submitter_count
             /\ rejected_count' = Increment(rejected_count)
             /\ \E code \in Refusals : outcome' = [outcome EXCEPT ![n + 1] = code]
    <3>1. PICK code \in Refusals : outcome' = [outcome EXCEPT ![n + 1] = code]
      BY <2>7
    <3>2. outcome[n + 1] = "none" /\ "none" \notin All /\ code # "OK"
      BY <1>3, <2>1 DEF Submissions, Refusals
    <3>3. /\ Answered(All)' = Answered(All) + 1
          /\ Answered({"OK"})' = a /\ Answered(Refusals)' = r + 1
      BY <1>2, <2>1, <3>1, <3>2, AnswerStep
    <3>4. tally'["submitted"] = Answered(All)' + active_submitter_count'
      BY <1>3, <1>4, <1>6, <2>2, <2>7, <3>3
    <3>5. rejected_count' = Saturated(r + 1)
      BY <1>4, <1>6, <2>7, SaturatedStep
    <3>6. QED
      BY <1>6, <1>7, <2>1, <2>2, <2>4, <2>5, <3>3, <3>4, <3>5 DEF SubmissionsAccounted
  <2>8. QED
    BY <1>1, <1>9, <2>6, <2>7, RegisterFacts
<1>10. ASSUME NEW t \in Workers \cup Submitters, deregister_submitter(t)
       PROVE  SubmissionsAccounted'
  <2>1. /\ task[t] \in Tasks /\ UNCHANGED <<tally, submitted_count>>
        /\ pc[t] \in SubmitLabels
    BY <1>1, <1>10, DeregisterFacts DEF SubmitLabels
  <2>2. active_submitter_count # 0 /\ active_submitter_count' = active_submitter_count - 1
    <3>1. t \in Registered
      BY <2>1 DEF Registered
    <3>2. active_submitter_count # 0
      BY <1>1, <3>1, RegisteredFinite, FS_EmptySet DEF Gate
    <3>3. QED
      BY <1>1, <1>10, <3>2, DeregisterFacts
  <2>3. PICK k \in Tasks : k = task[t]
    BY <2>1
  <2>4. outcome[k] = "none"
    BY <2>1, <2>3 DEF Submissions, Offering
  <2>5. PICK code \in All :
           /\ outcome' = [outcome EXCEPT ![task[t]] =
                             IF active_submitter_count = 0 THEN "SYSTEM" ELSE code]
           /\ IF code = "OK"
              THEN /\ accepted_count' = Increment(accepted_count)
                   /\ UNCHANGED rejected_count
              ELSE /\ rejected_count' = Increment(rejected_count)
                   /\ UNCHANGED accepted_count
           /\ lifecycle_accounting_overflow' =
                 (\/ lifecycle_accounting_overflow
                  \/ Overflows(IF code = "OK" THEN accepted_count ELSE rejected_count))
    BY <1>1, <1>10, DeregisterAccounts
  <2>6. outcome' = [outcome EXCEPT ![k] = code]
    BY <2>2, <2>3, <2>5
  <2>7. "none" \notin All
    BY DEF Refusals
  <2>8. Answered(All)' = Answered(All) + 1
    BY <1>2, <2>4, <2>6, <2>7, AnswerStep
  <2>9. tally'["submitted"] = Answered(All)' + active_submitter_count'
    BY <1>3, <1>4, <1>6, <2>1, <2>2, <2>8
  <2>10. submitted_count' = Saturated(tally'["submitted"])
    BY <1>6, <2>1
  <2>11. accepted_count' = Saturated(Answered({"OK"})') /\ rejected_count' = Saturated(Answered(Refusals)')
    <3>1. CASE code = "OK"
      <4>1. code \notin Refusals
        BY <3>1 DEF Refusals
      <4>2. Answered({"OK"})' = a + 1 /\ Answered(Refusals)' = r
        BY <1>2, <2>4, <2>6, <2>7, <3>1, <4>1, AnswerStep
      <4>3. QED
        BY <1>4, <1>6, <2>5, <3>1, <4>2, SaturatedStep
    <3>2. CASE code # "OK"
      <4>1. code \in Refusals
        BY <3>2
      <4>2. Answered({"OK"})' = a /\ Answered(Refusals)' = r + 1
        BY <1>2, <2>4, <2>6, <2>7, <3>2, <4>1, AnswerStep
      <4>3. QED
        BY <1>4, <1>6, <2>5, <3>2, <4>2, SaturatedStep
    <3>3. QED
      BY <3>1, <3>2
  <2>12. lifecycle_accounting_overflow' <=> tally'["submitted"] > CounterMax
    <3>1. n > Answered(All)
      BY <1>3, <1>4, <1>6, <2>2
    <3>2. Overflows(accepted_count) => n > CounterMax
      BY <1>3, <1>4, <1>5, <1>6, <3>1, SaturatedStep
    <3>3. Overflows(rejected_count) => n > CounterMax
      BY <1>3, <1>4, <1>5, <1>6, <3>1, SaturatedStep
    <3>4. QED
      BY <1>6, <2>1, <2>5, <3>2, <3>3
  <2>13. QED
    BY <1>7, <2>9, <2>10, <2>11, <2>12 DEF SubmissionsAccounted
<1>11. CASE /\ ~\E t \in Workers \cup Submitters :
                   \E call \in {"submit", "try_submit"} : register_submitter(t, call)
            /\ ~\E t \in Workers \cup Submitters : deregister_submitter(t)
  <2>1. UNCHANGED outcome
    BY <1>1, <1>11, HistoryFrame, JoinFacts
       DEF history, StartCreates, WorkerExecutes, CallbackReturns, WorkerExits,
           record_worker_exit
  <2>2. UNCHANGED active_submitter_count
    BY <1>1, <1>11, RegisteredStep
  <2>3. UNCHANGED submissionVars
    BY <1>11, LifecycleFrame
       DEF lifecycleVars, scheduler_destroy, Refused, StartBegins, ShutdownBegins, StartAllocates,
           StartPublishes, StartFails, JoinPublishes
  <2>4. tally'["submitted"] = tally["submitted"]
    BY <1>1, <1>11, SubmittedFrame
  <2>5. QED
    BY <1>8, <2>1, <2>2, <2>3, <2>4
<1>12. QED
  BY <1>9, <1>10, <1>11

-----------------------------------------------------------------------------
(* A thread whose wait failed, and a worker that has been told that the    *)
(* queue is shut down and drained.                                         *)
WaitFailed(t) ==
    \/ qpc[t] \in {"enqueue_fail", "dequeue_fail"} \/ pc[t] = "abandon"
    \/ pc[t] = "dequeued" /\ qpc[t] = "idle" /\ qret[t][1] = "SYSTEM"
Finished(t) ==
    \/ pc[t] = "exited"
    \/ pc[t] = "dequeued" /\ qpc[t] = "idle" /\ qret[t][1] = "SHUTDOWN"

(* Unless a wait fails, a worker gives up only when the queue is closed    *)
(* and empty; and only a scheduler that was started and has all its        *)
(* workers has tasks.                                                      *)
Drain ==
    /\ "wait" \notin Faults =>
           /\ \A t \in Threads : ~WaitFailed(t)
           /\ \A w \in Workers : Finished(w) => shutdown_requested /\ queue = <<>>
    /\ queue # <<>> => /\ created_worker_count = WorkerCount
                       /\ state \notin {"INITIALIZED", "STARTING"}

(* A queue that is closed and empty stays so. *)
LEMMA DrainedKept ==
    ASSUME LifeInv, [Next]_vars, shutdown_requested, queue = <<>>
    PROVE  shutdown_requested' /\ queue' = <<>>
<1>1. shutdown_requested'
  BY ShutdownKept DEF LifeInv
<1>2. PICK t \in Threads : Elsewhere(t) /\ Moves(t)
  BY TaskStep, ThreadKinds DEF Moves
<1>3. queue' = queue
  BY <1>2
     DEF Moves, Quiet, CallEnds, Offers, Refuses, PutsTask, AnswersTask, TakesTask, RunsTask
<1>4. QED
  BY <1>1, <1>3

(* How a worker comes to finish, when no wait fails. *)
LEMMA FinishStep ==
    ASSUME LifeInv, [Next]_vars, "wait" \notin Faults, \A t \in Threads : ~WaitFailed(t)
    PROVE  \A t \in Threads :
              /\ ~WaitFailed(t)'
              /\ Finished(t)' => Finished(t) \/ (shutdown_requested' /\ queue' = <<>>)
<1> USE ThreadKinds
<1>1. BaseInv /\ TypeOK /\ TypeOK' /\ QueueUse /\ QueueInv
  BY TypeStep DEF LifeInv, BaseInv
<1> DEFINE P(u) == /\ ~WaitFailed(u)'
                   /\ Finished(u)' => Finished(u) \/ (shutdown_requested' /\ queue' = <<>>)
<1>2. ASSUME NEW u \in Threads, qpc'[u] \notin {"enqueue_fail", "dequeue_fail"},
             pc'[u] \notin {"abandon", "exited", "dequeued"}
      PROVE  P(u)
  BY <1>2 DEF WaitFailed, Finished
<1>3. ASSUME NEW u \in Threads, pc'[u] = pc[u], qret'[u] = qret[u],
             qpc'[u] = "idle" <=> qpc[u] = "idle",
             qpc'[u] \in {"enqueue_fail", "dequeue_fail"} => qpc'[u] = qpc[u]
      PROVE  P(u)
  BY <1>3 DEF WaitFailed, Finished
<1>4. ASSUME NEW t \in Threads, Bystanders(t),
             \A u \in Threads : u # t /\ u # Main => pc'[u] = pc[u],
             NEW u \in Threads, u # t
      PROVE  P(u)
  <2>1. /\ qret'[u] = qret[u] /\ (qpc'[u] = "idle" <=> qpc[u] = "idle")
        /\ qpc'[u] \in {"enqueue_fail", "dequeue_fail"} => qpc'[u] = qpc[u]
    BY <1>4 DEF Bystanders
  <2>2. CASE u = Main
    <3>1. qpc'[u] \notin {"enqueue_fail", "dequeue_fail"}
      BY <2>1 DEF WaitFailed
    <3>2. pc'[u] \notin {"abandon", "exited", "dequeued"}
      BY <1>1, <2>2 DEF TypeOK, MainLabels
    <3>3. QED
      BY <1>2, <3>1, <3>2
  <2>3. CASE u # Main
    BY <1>3, <1>4, <2>1, <2>3
  <2>4. QED
    BY <2>2, <2>3
<1>5. CASE MainOnly \/ StartAborts \/ ShutdownQueue \/ UNCHANGED vars
  <2>1. Bystanders(Main) /\ \A u \in Threads : u # Main => pc'[u] = pc[u]
    <3>1. CASE MainOnly
      BY <1>1, <3>1, MainOnlyFrame, BystandersQuiet
    <3>2. CASE StartAborts \/ ShutdownQueue
      BY <1>1, <3>2, ShutdownFacts, GotoFacts DEF StartAborts, ShutdownQueue, BeginRelease
    <3>3. CASE UNCHANGED vars
      BY <3>3, BystandersQuiet DEF vars
    <3>4. QED
      BY <1>5, <3>1, <3>2, <3>3
  <2>2. qpc'[Main] \notin {"enqueue_fail", "dequeue_fail"}
    <3>1. CASE MainOnly \/ UNCHANGED vars
      <4>1. qpc' = qpc
        BY <1>1, <3>1, MainOnlyFrame DEF queueVars, vars
      <4>2. QED
        BY <4>1 DEF WaitFailed
    <3>2. CASE StartAborts \/ ShutdownQueue
      BY <1>1, <3>2, ShutdownFacts DEF StartAborts, ShutdownQueue
    <3>3. QED
      BY <1>5, <3>1, <3>2
  <2>3. P(Main)
    BY <1>1, <1>2, <2>2 DEF TypeOK, MainLabels
  <2>4. QED
    BY <1>4, <2>1, <2>3
<1>6. CASE StartCreates
  <2>1. UNCHANGED queueVars
    BY <1>6 DEF StartCreates
  <2>2. ASSUME NEW u \in Threads
        PROVE  pc'[u] = pc[u] \/ pc'[u] \notin {"abandon", "exited", "dequeued"}
    BY <1>1, <1>6, CreateFacts
  <2>3. \A u \in Threads : qpc[u] \notin {"enqueue_fail", "dequeue_fail"}
    BY DEF WaitFailed
  <2>4. QED
    BY <1>2, <1>3, <2>1, <2>2, <2>3 DEF queueVars
<1>7. ASSUME NEW t \in Workers \cup Submitters, OtherStep(t)
      PROVE  \A u \in Threads : P(u)
  <2>1. \A u \in Threads : u # t /\ u # Main => pc'[u] = pc[u]
    BY <1>1, <1>7, OtherFrame
  <2>2. qpc[t] \notin {"enqueue_fail", "dequeue_fail"} /\ pc[t] # "abandon"
    BY DEF WaitFailed
  <2>3. ASSUME Bystanders(t), P(t) PROVE \A u \in Threads : P(u)
    BY <1>4, <2>1, <2>3
  <2>4. ASSUME UNCHANGED queueVars,
               pc'[t] = pc[t] \/ pc'[t] \notin {"abandon", "exited", "dequeued"}
        PROVE  \A u \in Threads : P(u)
    <3>1. P(t)
      BY <1>2, <1>3, <2>2, <2>4 DEF queueVars
    <3>2. QED
      BY <2>3, <2>4, <3>1, BystandersQuiet
  <2>5. ASSUME pc'[t] = "dequeued",
               \/ Asleep(t, "dequeue_wait") \/ Takes(t)
               \/ Answers(t, "SHUTDOWN") /\ shutdown_requested /\ queue = <<>>
        PROVE  P(t)
    BY <2>5 DEF WaitFailed, Finished, Asleep, Takes, Answers
  <2>6. ASSUME NEW label, Goto(t, label) PROVE pc'[t] = label
    BY <1>1, <2>6, GotoFacts
  <2>7. CASE \/ \E call \in {"submit", "try_submit"} : register_submitter(t, call)
             \/ deregister_submitter(t)
    <3>1. UNCHANGED queueVars
      BY <2>7 DEF register_submitter, deregister_submitter
    <3>2. pc'[t] = pc[t] \/ pc'[t] \notin {"abandon", "exited", "dequeued"}
      <4>1. CASE deregister_submitter(t)
        BY <1>1, <4>1, DeregisterFacts DEF Home
      <4>2. CASE \E call \in {"submit", "try_submit"} : register_submitter(t, call)
        BY <2>6, <4>2 DEF register_submitter
      <4>3. QED
        BY <2>7, <4>1, <4>2
    <3>3. QED
      BY <2>4, <3>1, <3>2
  <2>8. CASE SubmitToQueue(t)
    <3>1. task[t] \in Tasks
      BY <1>1, <2>8 DEF SubmitToQueue, QueueUse, SubmitLabels
    <3>2. Bystanders(t) /\ qpc'[t] \in {"idle", "enqueue_wait"}
      BY <1>1, <2>8, <3>1, EnqueueFacts, TryEnqueueFacts DEF SubmitToQueue, Asleep, Answers, Puts
    <3>3. pc'[t] \in {"submitted", "try_submitted"}
      BY <2>6, <2>8 DEF SubmitToQueue
    <3>4. P(t)
      BY <1>2, <3>2, <3>3
    <3>5. QED
      BY <2>3, <3>2, <3>4
  <2>9. CASE QueueResumes(t)
    <3>1. pc' = pc /\ Q!Resume(t)
      BY <2>9 DEF QueueResumes
    <3>2. Bystanders(t)
      BY <1>1, <3>1, ResumeFacts
    <3>3. CASE qpc[t] \in Q!ProducerStates
      <4>1. qpc'[t] \in {"idle", "enqueue_wait"}
        BY <1>1, <3>1, <3>3, ResumeFacts
           DEF Asleep, Answers, Puts, Q!ProducerStates, Q!ConsumerStates
      <4>2. pc'[t] = "submitted"
        BY <1>1, <3>1, <3>3 DEF QueueUse
      <4>3. P(t)
        BY <1>2, <4>1, <4>2
      <4>4. QED
        BY <2>3, <3>2, <4>3
    <3>4. CASE qpc[t] \in Q!ConsumerStates
      <4>1. pc'[t] = "dequeued"
        BY <1>1, <3>1, <3>4 DEF QueueUse
      <4>2. \/ Asleep(t, "dequeue_wait") \/ Takes(t)
            \/ Answers(t, "SHUTDOWN") /\ shutdown_requested /\ queue = <<>>
        BY <1>1, <2>2, <3>1, <3>4, ResumeFacts DEF Q!ProducerStates, Q!ConsumerStates
      <4>3. QED
        BY <2>3, <2>5, <3>2, <4>1, <4>2
    <3>5. QED
      BY <1>1, <3>1, <3>3, <3>4, ResumeFacts
  <2>10. CASE QueueWaitEnds(t)
    <3>1. pc' = pc /\ (Q!SpuriousWakeup(t) \/ Q!WaitFails(t))
      BY <2>10 DEF QueueWaitEnds
    <3>2. /\ Bystanders(t) /\ qret' = qret
          /\ qpc[t] # "idle" /\ qpc'[t] \notin {"idle", "enqueue_fail", "dequeue_fail"}
      BY <1>1, <3>1, WaitEndsFacts
    <3>3. P(t)
      BY <1>3, <3>1, <3>2
    <3>4. QED
      BY <2>3, <3>2, <3>3
  <2>11. CASE t \in Workers /\ WorkerDequeue(t)
    <3>1. Q!concurrent_task_queue_dequeue(t) /\ pc'[t] = "dequeued"
      BY <2>6, <2>11 DEF WorkerDequeue
    <3>2. QED
      BY <1>1, <2>3, <2>5, <3>1, DequeueFacts
  <2>12. CASE t \in Workers /\ WorkerQueueFailure(t)
    BY <1>1, <2>12 DEF WorkerQueueFailure, QueueUse, WaitFailed
  <2>13. CASE t \in Workers /\ WorkerExits(t)
    <3>1. Finished(t) /\ UNCHANGED queueVars
      BY <2>2, <2>13 DEF WorkerExits, Finished, record_worker_exit
    <3>2. pc'[t] = "exited"
      BY <2>6, <2>13 DEF WorkerExits, record_worker_exit
    <3>3. P(t)
      BY <2>2, <3>1, <3>2 DEF WaitFailed, queueVars
    <3>4. QED
      BY <2>3, <3>1, <3>3, BystandersQuiet
  <2>14. CASE t \in Workers /\ WorkerReady(t)
    <3>1. UNCHANGED queueVars /\ pc'[t] = "dequeue"
      BY <1>1, <2>14 DEF WorkerReady, TypeOK
    <3>2. QED
      BY <2>4, <3>1
  <2>15. CASE \/ WorkerCountsDequeue(t) \/ WorkerCountsStart(t) \/ WorkerExecutes(t)
              \/ CallbackReturns(t) \/ WorkerCountsStop(t)
    <3>1. UNCHANGED queueVars
      BY <2>15
         DEF WorkerCountsDequeue, WorkerCountsStart, WorkerExecutes, CallbackReturns,
             WorkerCountsStop
    <3>2. pc'[t] \notin {"abandon", "exited", "dequeued"}
      BY <2>6, <2>15
         DEF WorkerCountsDequeue, WorkerCountsStart, WorkerExecutes, CallbackReturns,
             WorkerCountsStop
    <3>3. QED
      BY <2>4, <3>1, <3>2
  <2>16. QED
    BY <1>7, <2>7, <2>8, <2>9, <2>10, <2>11, <2>12, <2>13, <2>14, <2>15
       DEF OtherStep, scheduler_worker_entry
<1>8. \A u \in Threads : P(u)
  BY <1>5, <1>6, <1>7, NextSplit
<1>9. QED
  BY <1>8

(* A queue with tasks has all its workers. *)
LEMMA ManyWorkersKept ==
    ASSUME LifeInv, [Next]_vars,
           queue # <<>> => /\ created_worker_count = WorkerCount
                           /\ state \notin {"INITIALIZED", "STARTING"}
    PROVE  queue' # <<>> => /\ created_worker_count' = WorkerCount
                            /\ state' \notin {"INITIALIZED", "STARTING"}
<1> USE ThreadKinds
<1>1. /\ TypeOK /\ TypeOK' /\ QueueInv /\ Gate /\ Arrays /\ Arrays' /\ Lifecycle
  BY TypeStep, StepLife DEF LifeInv, BaseInv
<1>2. created_worker_count \in Nat /\ WorkerCount \in Nat /\ created_worker_count' \in Nat
  BY <1>1, SchedulerAssumption DEF TypeOK
<1>3. created_worker_count' >= created_worker_count
  <2>1. CASE StartCreates
    BY <1>1, <1>2, <2>1, CreateFacts DEF CountCreated
  <2>2. CASE UNCHANGED created_worker_count
    BY <1>2, <2>2
  <2>3. CASE JoinWorker
    BY <1>1, <2>2, <2>3, JoinFacts
  <2>4. CASE scheduler_destroy \/ StartAllocates \/ FinishRelease
    BY <2>2, <2>4 DEF scheduler_destroy, Refused, StartAllocates, FinishRelease, workerVars
  <2>5. CASE \E w \in Workers : WorkerReady(w) \/ WorkerExits(w)
    BY <2>2, <2>5 DEF WorkerReady, WorkerExits, record_worker_exit
  <2>6. QED
    BY <2>1, <2>2, <2>3, <2>4, <2>5, WorkerFrame DEF workerVars
<1>4. created_worker_count = WorkerCount => created_worker_count' = WorkerCount
  BY <1>1, <1>2, <1>3 DEF Arrays
<1>5. state \notin {"INITIALIZED", "STARTING"} => state' \notin {"INITIALIZED", "STARTING"}
  <2>1. CASE UNCHANGED state
    BY <2>1
  <2>2. CASE StartBegins \/ StartAllocates
    BY <1>1, <2>2 DEF StartBegins, StartAllocates, Lifecycle, StartLabels
  <2>3. CASE \/ StartPublishes \/ StartFails \/ ShutdownBegins \/ JoinPublishes
             \/ scheduler_destroy
    BY <2>3 DEF StartPublishes, StartFails, ShutdownBegins, JoinPublishes,
                scheduler_destroy, Refused, lifecycleVars
  <2>4. CASE \E t \in Workers \cup Submitters :
                 \/ \E call \in {"submit", "try_submit"} : register_submitter(t, call)
                 \/ deregister_submitter(t)
    BY <2>1, <2>4 DEF register_submitter, deregister_submitter
  <2>5. QED
    BY <2>1, <2>2, <2>3, <2>4, LifecycleFrame DEF lifecycleVars
<1>6. PICK t \in Threads : Elsewhere(t) /\ Moves(t)
  BY TaskStep DEF Moves
<1>7. CASE \E k \in Tasks : PutsTask(t, k)
  <2>1. t \in Registered
    BY <1>7 DEF PutsTask, Offering, Registered
  <2>2. created_worker_count = WorkerCount /\ state \notin {"INITIALIZED", "STARTING"}
    BY <1>1, <2>1 DEF Gate, Arrays
  <2>3. QED
    BY <1>4, <1>5, <2>2
<1>8. CASE ~\E k \in Tasks : PutsTask(t, k)
  <2>1. queue' = queue \/ queue # <<>>
    BY <1>6, <1>8
       DEF Moves, Quiet, CallEnds, Offers, Refuses, AnswersTask, TakesTask, RunsTask
  <2>2. QED
    BY <1>4, <1>5, <2>1
<1>9. QED
  BY <1>7, <1>8

(* The drain of the queue, per step. *)
LEMMA DrainKept ==
    ASSUME LifeInv, Drain, [Next]_vars
    PROVE  Drain'
<1>1. queue' # <<>> => /\ created_worker_count' = WorkerCount
                       /\ state' \notin {"INITIALIZED", "STARTING"}
  BY ManyWorkersKept DEF Drain
<1>2. ASSUME "wait" \notin Faults
      PROVE  /\ \A t \in Threads : ~WaitFailed(t)'
             /\ \A w \in Workers : Finished(w)' => shutdown_requested' /\ queue' = <<>>
  BY <1>2, FinishStep, DrainedKept, ThreadKinds DEF Drain
<1>3. QED
  BY <1>1, <1>2 DEF Drain

-----------------------------------------------------------------------------
(* The inductive invariant of the tasks. *)
TasksInv == LifeInv /\ Submissions /\ Place /\ SubmissionsAccounted /\ Drain

(* scheduler_init establishes it. *)
LEMMA InitTasks == Init => TasksInv
<1> SUFFICES ASSUME Init PROVE TasksInv
  OBVIOUS
<1> USE ThreadKinds
<1>1. LifeInv /\ TypeOK
  BY InitLife DEF LifeInv, BaseInv
<1>2. /\ queue = <<>> /\ tally = [c \in Tallied |-> 0] /\ created_worker_count = 0
      /\ outcome = [k \in Tasks |-> "none"] /\ executed = [k \in Tasks |-> 0]
      /\ active_submitter_count = 0 /\ lifecycle_accounting_overflow = FALSE
      /\ submitted_count = 0 /\ accepted_count = 0 /\ rejected_count = 0
  BY DEF Init, Q!Init
<1>3. \A t \in Threads : pc[t] \in {"none", "idle"} /\ qpc[t] = "idle"
  BY DEF Init, Q!Init
<1>4. \A t \in Threads : \A k \in Tasks : ~Offering(t, k) /\ ~HasPut(t, k) /\ ~Holds(t, k)
  BY <1>3 DEF Offering, HasPut, Holds, SubmitLabels, TaskInHandLabels
<1>5. tally["submitted"] = 0
  BY <1>2 DEF Tallied
<1>6. Submissions
  BY <1>2, <1>4, <1>5 DEF Submissions, Tasks
<1>7. Place
  <2>1. \A k \in Tasks : ~InQueue(k) /\ ~Held(k) /\ executed[k] = 0 /\ ~Taken(k)
    BY <1>2, <1>4 DEF InQueue, Held, Taken
  <2>2. QED
    BY <1>2, <1>4, <2>1 DEF Place
<1>8. SubmissionsAccounted
  <2>1. \A codes : "none" \notin codes => Answered(codes) = 0
    <3> SUFFICES ASSUME NEW codes, "none" \notin codes PROVE Answered(codes) = 0
      OBVIOUS
    <3>1. {k \in Tasks : outcome[k] \in codes} = {}
      BY <1>2
    <3>2. QED
      BY <3>1, FS_EmptySet DEF Answered
  <2>2. "none" \notin {"OK"} /\ "none" \notin Refusals /\ "none" \notin {"OK"} \cup Refusals
    BY DEF Refusals
  <2>3. Answered({"OK"}) = 0 /\ Answered(Refusals) = 0 /\ Answered({"OK"} \cup Refusals) = 0
    BY <2>1, <2>2
  <2>4. Saturated(0) = 0 /\ ~(0 > CounterMax)
    BY SchedulerAssumption DEF Saturated
  <2>5. active_submitter_count = Cardinality(Registered)
    BY <1>1 DEF LifeInv, Gate
  <2>6. QED
    BY <1>2, <1>5, <2>3, <2>4, <2>5 DEF SubmissionsAccounted
<1>9. Drain
  BY <1>2, <1>3 DEF Drain, WaitFailed, Finished
<1>10. QED
  BY <1>1, <1>6, <1>7, <1>8, <1>9 DEF TasksInv

(* Every step keeps it. *)
LEMMA StepTasks ==
    ASSUME TasksInv, [Next]_vars
    PROVE  TasksInv'
BY StepLife, SubmissionsKept, PlaceKept, AccountedKept, DrainKept DEF TasksInv

(* The inductive invariant of the tasks holds in every reachable state. *)
THEOREM TasksInvariant == Spec => []TasksInv
<1>1. TasksInv /\ [Next]_vars => TasksInv'
  BY StepTasks
<1>2. QED
  BY InitTasks, <1>1, PTL DEF Spec

(* The gate counts the threads inside it exactly, and every submission is
   counted once, as accepted, rejected or under way, for any number of threads
   and any result of the queue; counters saturate and the flag says when. *)
THEOREM SubmissionCountsExact == Spec => []SubmissionsAccounted
<1>1. TasksInv => SubmissionsAccounted
  BY DEF TasksInv
<1>2. QED
  BY TasksInvariant, <1>1, PTL

(* A set whose elements are all equal has as many elements as it should. *)
LEMMA AtMostOne ==
    ASSUME NEW S, \A x, y \in S : x = y
    PROVE  Cardinality(S) = IF S = {} THEN 0 ELSE 1
<1>1. CASE S = {}
  BY <1>1, FS_EmptySet
<1>2. CASE S # {}
  <2>1. PICK x \in S : TRUE
    BY <1>2
  <2>2. S = {x}
    BY <2>1
  <2>3. QED
    BY <1>2, <2>2, FS_Singleton
<1>3. QED
  BY <1>1, <1>2

(* The counts of EachTaskInOnePlace, by the places. *)
LEMMA PlacesOfTask ==
    ASSUME TasksInv, NEW k \in Tasks
    PROVE  /\ Cardinality(Queued(k)) = IF InQueue(k) THEN 1 ELSE 0
           /\ Cardinality(Holders(k)) = IF Held(k) THEN 1 ELSE 0
           /\ Queued(k) = {} <=> ~InQueue(k)
           /\ Holders(k) = {} <=> ~Held(k)
           /\ Accepted(k) <=> Taken(k)
<1>1. Queued(k) = {} <=> ~InQueue(k)
  BY DEF Queued, InQueue
<1>2. \A i, j \in Queued(k) : i = j
  BY DEF TasksInv, Place, Queued
<1>3. Holders(k) = {w \in Workers : Holds(w, k)}
  BY DEF Holders, Holds
<1>4. Holders(k) = {} <=> ~Held(k)
  BY <1>3 DEF Held
<1>5. \A v, w \in Holders(k) : v = w
  BY <1>3 DEF TasksInv, Place
<1>6. Accepted(k) <=> Taken(k)
  BY DEF Accepted, Taken, HasPut, Registered, SubmitLabels
<1>7. QED
  BY <1>1, <1>2, <1>4, <1>5, <1>6, AtMostOne

(* An accepted task is in the queue, with one worker or called back once, and a
   refused one nowhere, whatever the interleaving and whatever fails. *)
THEOREM EveryTaskInOnePlace == Spec => []EachTaskInOnePlace
<1>1. ASSUME TasksInv PROVE EachTaskInOnePlace
  <2> SUFFICES ASSUME NEW k \in Tasks
               PROVE  Cardinality(Queued(k)) + Cardinality(Holders(k)) + executed[k]
                        = IF Accepted(k) THEN 1 ELSE 0
    BY DEF EachTaskInOnePlace
  <2>1. /\ executed[k] \in {0, 1} /\ (Held(k) => ~InQueue(k))
        /\ executed[k] = 1 => ~InQueue(k) /\ ~Held(k)
        /\ Taken(k) <=> InQueue(k) \/ Held(k) \/ executed[k] = 1
    BY <1>1 DEF TasksInv, Place
  <2>2. QED
    BY <1>1, <2>1, PlacesOfTask
<1>2. QED
  BY TasksInvariant, <1>1, PTL

(* Unless a wait fails, nothing is left in the queue of a stopped scheduler. *)
LEMMA StoppedDrained ==
    ASSUME TasksInv, "wait" \notin Faults, state = "STOPPED" \/ ~implementation
    PROVE  queue = <<>>
<1> SUFFICES ASSUME queue # <<>> PROVE FALSE
  OBVIOUS
<1>1. created_worker_count = WorkerCount /\ 1 \in Workers /\ created_worker_count \in Nat
  BY SchedulerAssumption DEF TasksInv, Drain, Workers
<1>2. ~(1 > created_worker_count)
  BY <1>1, SchedulerAssumption
<1>3. pc[1] # "none"
  BY <1>1, <1>2 DEF TasksInv, LifeInv, Arrays
<1>4. pc[1] = "exited"
  BY <1>1, <1>3, StoppedQuiet DEF TasksInv
<1>5. QED
  BY <1>1, <1>4 DEF TasksInv, Drain, Finished

(* If condition waits do not fail, scheduler_destroy finds the queue empty: no
   accepted task is left without its callback. *)
THEOREM DestroyedIsDrained ==
    ASSUME "wait" \notin Faults
    PROVE  Spec => []DrainedBeforeDestroy
<1>1. TasksInv => DrainedBeforeDestroy
  BY StoppedDrained DEF DrainedBeforeDestroy
<1>2. QED
  BY TasksInvariant, <1>1, PTL

-----------------------------------------------------------------------------
(***************************************************************************)
(* The scheduler of src/src/scheduler.c implements TaskPool, the abstract  *)
(* specification of what scheduler.h promises its callers, for any number  *)
(* of workers, submitters and tasks, any capacity and any set of faults.   *)
(*                                                                         *)
(* The moves of SchedulerTasks_proofs are the steps of the pool: Offers is *)
(* Offer, PutsTask is Accept, AnswersTask is Confirm or Decline, TakesTask *)
(* is Take, RunsTask is Call, CallEnds is Return.  What moves no task is a *)
(* change of phase by a lifecycle call, or nothing that a caller sees.     *)
(***************************************************************************)

(* The pool counts the same sets. *)
LEMMA PoolCardinality == \A S : Pool!Cardinality(S) = Cardinality(S)
BY DEF Pool!Cardinality, Cardinality, Pool!IsFiniteSet, IsFiniteSet

Underway(k) == \E t \in Threads : Offering(t, k)
Stage(k) == IF executed[k] = 1 THEN "called"
            ELSE IF Held(k) THEN "taken"
            ELSE IF InQueue(k) THEN "pending"
            ELSE IF outcome[k] # "none" THEN "refused"
            ELSE IF Underway(k) THEN "offered"
            ELSE "new"

(* The status of a task, from the places of the invariant. *)
LEMMA StatusIs == TasksInv => PoolStatus = [k \in Tasks |-> Stage(k)]
<1> SUFFICES ASSUME TasksInv PROVE PoolStatus = [k \in Tasks |-> Stage(k)]
  OBVIOUS
<1> DEFINE Shown(k) == IF executed[k] > 0 THEN "called"
                       ELSE IF Holders(k) # {} THEN "taken"
                       ELSE IF Queued(k) # {} THEN "pending"
                       ELSE IF outcome[k] # "none" THEN "refused"
                       ELSE IF \E t \in Registered : task[t] = k THEN "offered"
                       ELSE "new"
<1>1. ASSUME NEW k \in Tasks PROVE Shown(k) = Stage(k)
  <2>1. (Queued(k) = {} <=> ~InQueue(k)) /\ (Holders(k) = {} <=> ~Held(k))
    BY PlacesOfTask
  <2>2. executed[k] > 0 <=> executed[k] = 1
    BY DEF TasksInv, Place
  <2>3. (\E t \in Registered : task[t] = k) <=> Underway(k)
    BY DEF Registered, Underway, Offering
  <2>4. QED
    BY <2>1, <2>2, <2>3 DEF Stage
<1>2. PoolStatus = [k \in Tasks |-> Shown(k)]
  BY DEF PoolStatus
<1>3. QED
  BY <1>1, <1>2

(* The same in the next state. *)
LEMMA StatusIsPrimed == TasksInv' => PoolStatus' = [k \in Tasks |-> Stage(k)']
<1>1. (TasksInv => PoolStatus = [k \in Tasks |-> Stage(k)])'
  BY StatusIs, PTL
<1>2. QED
  BY <1>1

(* What the places say of a stage. *)
LEMMA StageFacts ==
    ASSUME TasksInv, NEW k \in Tasks
    PROVE  /\ Taken(k) <=> Stage(k) \in {"called", "taken", "pending"}
           /\ executed[k] \in {0, 1} /\ (executed[k] = 1 <=> Stage(k) = "called")
           /\ Held(k) <=> Stage(k) = "taken"
           /\ InQueue(k) <=> Stage(k) = "pending"
           /\ ~Taken(k) /\ outcome[k] # "none" => Stage(k) = "refused"
           /\ ~Taken(k) /\ outcome[k] = "none" /\ Underway(k) => Stage(k) = "offered"
           /\ ~Taken(k) /\ outcome[k] = "none" /\ ~Underway(k) => Stage(k) = "new"
<1>1. /\ executed[k] \in {0, 1} /\ (Held(k) => ~InQueue(k))
      /\ executed[k] = 1 => ~InQueue(k) /\ ~Held(k)
      /\ Taken(k) <=> InQueue(k) \/ Held(k) \/ executed[k] = 1
  BY DEF TasksInv, Place
<1>2. QED
  BY <1>1 DEF Stage

(* A step that changes the stage of one task at most. *)
LEMMA OneStage ==
    ASSUME TasksInv, TasksInv', NEW k \in Tasks,
           \A j \in Tasks : j # k => Stage(j)' = Stage(j)
    PROVE  /\ PoolStatus[k] = Stage(k)
           /\ PoolStatus' = [PoolStatus EXCEPT ![k] = Stage(k)']
BY StatusIs, StatusIsPrimed

(* A step that changes no stage. *)
LEMMA SameStages ==
    ASSUME TasksInv, TasksInv', \A j \in Tasks : Stage(j)' = Stage(j)
    PROVE  PoolStatus' = PoolStatus
BY StatusIs, StatusIsPrimed

(* A task that keeps its places keeps its stage. *)
LEMMA StageKept ==
    ASSUME NEW k \in Tasks, executed'[k] = executed[k], Held(k)' <=> Held(k),
           InQueue(k)' <=> InQueue(k), outcome'[k] = outcome[k], Underway(k)' <=> Underway(k)
    PROVE  Stage(k)' = Stage(k)
BY DEF Stage

(* What a step of t leaves of the places of a task. *)
LEMMA PlacesElsewhere ==
    ASSUME NEW t \in Threads, Elsewhere(t), NEW k \in Tasks
    PROVE  /\ (Offering(t, k)' <=> Offering(t, k)) => (Underway(k)' <=> Underway(k))
           /\ (Holds(t, k)' <=> Holds(t, k)) => (Held(k)' <=> Held(k))
BY ThreadKinds DEF Elsewhere, Same, SameOffer, SameHold, Underway, Held

(* The threads inside a callback. *)
LEMMA CallbackSet ==
    /\ InCallback = {w \in Workers : Calling(w)}
    /\ IsFiniteSet(InCallback) /\ PoolRunning \in Nat
<1>1. InCallback = {w \in Workers : Calling(w)}
  BY DEF InCallback, Calling
<1>2. QED
  BY <1>1, WorkersFinite DEF InCallback, PoolRunning

(* The same in the next state. *)
LEMMA CallbackSetPrimed == InCallback' = {w \in Workers : Calling(w)'}
BY DEF InCallback, Calling

(* Who neither enters nor leaves a callback changes no count of them. *)
LEMMA SameRunning ==
    ASSUME NEW t \in Threads, Elsewhere(t), Calling(t)' <=> Calling(t)
    PROVE  PoolRunning' = PoolRunning
<1>1. InCallback' = InCallback
  BY CallbackSet, CallbackSetPrimed, ThreadKinds DEF Elsewhere, Same
<1>2. QED
  BY <1>1 DEF PoolRunning

(* The phase. *)
LEMMA PhaseIs ==
    ASSUME TypeOK
    PROVE  /\ PoolPhase = "gone" <=> ~implementation
           /\ implementation => /\ state \in {"INITIALIZED", "STARTING"} <=> PoolPhase = "new"
                                /\ state = "RUNNING" <=> PoolPhase = "open"
                                /\ state \in {"SHUTTING_DOWN", "FAILED"} <=> PoolPhase = "closed"
                                /\ state = "STOPPED" <=> PoolPhase = "stopped"
BY DEF PoolPhase, TypeOK, LifecycleStates

-----------------------------------------------------------------------------
(* A step that moves no task changes the phase at most. *)
LEMMA QuietRest ==
    ASSUME TasksInv, TasksInv', NEW t \in Threads, Elsewhere(t), Quiet(t)
    PROVE  UNCHANGED <<queue, PoolStatus, PoolAnswer, PoolRunning>>
<1>1. /\ UNCHANGED <<queue, outcome, executed>> /\ SameOffer(t) /\ SameHold(t)
      /\ Calling(t)' <=> Calling(t)
  BY DEF Quiet, Same
<1>2. ASSUME NEW k \in Tasks PROVE Stage(k)' = Stage(k)
  <2>1. (Underway(k)' <=> Underway(k)) /\ (Held(k)' <=> Held(k))
    BY <1>1, PlacesElsewhere DEF SameOffer, SameHold
  <2>2. InQueue(k)' <=> InQueue(k)
    BY <1>1 DEF InQueue
  <2>3. QED
    BY <1>1, <2>1, <2>2, StageKept
<1>3. PoolStatus' = PoolStatus
  BY <1>2, SameStages
<1>4. PoolAnswer' = PoolAnswer
  BY <1>1 DEF PoolAnswer
<1>5. PoolRunning' = PoolRunning
  BY <1>1, SameRunning
<1>6. QED
  BY <1>1, <1>3, <1>4, <1>5

(* A callback that returns. *)
LEMMA EndsRefine ==
    ASSUME TasksInv, TasksInv', PoolPhase' = PoolPhase,
           NEW t \in Threads, Elsewhere(t), CallEnds(t)
    PROVE  Pool!Return
<1>1. /\ UNCHANGED <<queue, outcome, executed>> /\ SameOffer(t) /\ SameHold(t)
      /\ Calling(t) /\ ~Calling(t)'
  BY DEF CallEnds
<1>2. ASSUME NEW k \in Tasks PROVE Stage(k)' = Stage(k)
  <2>1. (Underway(k)' <=> Underway(k)) /\ (Held(k)' <=> Held(k))
    BY <1>1, PlacesElsewhere DEF SameOffer, SameHold
  <2>2. InQueue(k)' <=> InQueue(k)
    BY <1>1 DEF InQueue
  <2>3. QED
    BY <1>1, <2>1, <2>2, StageKept
<1>3. PoolStatus' = PoolStatus
  BY <1>2, SameStages
<1>4. PoolAnswer' = PoolAnswer
  BY <1>1 DEF PoolAnswer
<1>5. t \in InCallback /\ InCallback' = InCallback \ {t}
  BY <1>1, CallbackSet, CallbackSetPrimed, ThreadKinds DEF Elsewhere, Same, Calling
<1>6. PoolRunning > 0 /\ PoolRunning' = PoolRunning - 1
  <2>1. PoolRunning # 0
    BY <1>5, CallbackSet, FS_EmptySet DEF PoolRunning
  <2>2. PoolRunning' = PoolRunning - 1
    BY <1>5, CallbackSet, FS_RemoveElement DEF PoolRunning
  <2>3. QED
    BY <2>1, <2>2, CallbackSet
<1>7. QED
  BY <1>1, <1>3, <1>4, <1>6 DEF Pool!Return

(* Only Task k is concerned. *)
LEMMA OthersKeepStage ==
    ASSUME NEW t \in Threads, Elsewhere(t), NEW k \in Tasks,
           \A j \in Tasks : j # k => /\ Offering(t, j)' <=> Offering(t, j)
                                     /\ Holds(t, j)' <=> Holds(t, j)
                                     /\ InQueue(j)' <=> InQueue(j)
                                     /\ outcome'[j] = outcome[j]
                                     /\ executed'[j] = executed[j]
    PROVE  \A j \in Tasks : j # k => Stage(j)' = Stage(j)
BY PlacesElsewhere, StageKept

(* A new submission, let in at the gate. *)
LEMMA OfferRefines ==
    ASSUME TasksInv, TasksInv', PoolPhase' = PoolPhase,
           NEW t \in Threads, Elsewhere(t), NEW k \in Tasks, Offers(t, k)
    PROVE  Pool!Offer(k)
<1>1. /\ UNCHANGED <<queue, outcome, executed>> /\ state = "RUNNING" /\ SameHold(t)
      /\ k = tally["submitted"] + 1 /\ tally'["submitted"] = k
      /\ \A j \in Tasks : ~Offering(t, j) /\ (Offering(t, j)' <=> j = k)
      /\ Calling(t)' <=> Calling(t)
  BY DEF Offers
<1>2. PoolPhase = "open"
  BY <1>1, PhaseIs DEF TasksInv, LifeInv, BaseInv, Gone, Destructible
<1>3. tally["submitted"] \in Nat /\ k \in Nat
  BY ThreadKinds DEF TasksInv, LifeInv, BaseInv, TypeOK, Tallied
<1>4. ~(k <= tally["submitted"]) /\ k > tally["submitted"]
  BY <1>1, <1>3
<1>5. outcome[k] = "none" /\ ~Underway(k) /\ ~Taken(k)
  BY <1>4, PutImpliesOffer DEF TasksInv, Submissions, Underway, Taken
<1>6. Stage(k) = "new"
  BY <1>5, StageFacts
<1>7. Stage(k)' = "offered"
  <2>1. Underway(k)'
    BY <1>1 DEF Underway
  <2>2. executed[k] # 1 /\ ~Held(k) /\ ~InQueue(k)
    BY <1>6, StageFacts
  <2>3. ~Held(k)' /\ ~InQueue(k)'
    BY <1>1, <2>2, PlacesElsewhere DEF SameHold, InQueue
  <2>4. QED
    BY <1>1, <1>5, <2>1, <2>2, <2>3 DEF Stage
<1>8. \A j \in Tasks : j # k => Stage(j)' = Stage(j)
  BY <1>1, OthersKeepStage DEF SameHold, InQueue
<1>9. PoolStatus[k] = "new" /\ PoolStatus' = [PoolStatus EXCEPT ![k] = "offered"]
  BY <1>6, <1>7, <1>8, OneStage
<1>10. PoolAnswer' = PoolAnswer /\ PoolRunning' = PoolRunning
  BY <1>1, SameRunning DEF PoolAnswer
<1>11. QED
  BY <1>1, <1>2, <1>9, <1>10 DEF Pool!Offer, Pool!Becomes

(* An answer, as the pool shows it. *)
LEMMA AnswerIs ==
    ASSUME outcome \in [Tasks -> SchedulerCodes], NEW k \in Tasks, outcome[k] = "none",
           NEW code \in {"OK"} \cup Refusals, outcome' = [outcome EXCEPT ![k] = code]
    PROVE  /\ PoolAnswer[k] = "none"
           /\ PoolAnswer' = [PoolAnswer EXCEPT ![k] = IF code = "OK" THEN "OK" ELSE "refused"]
BY DEF PoolAnswer, Refusals

(* A submission that is refused at the gate. *)
LEMMA RefusalRefines ==
    ASSUME TasksInv, TasksInv', PoolPhase' = PoolPhase,
           NEW t \in Threads, Elsewhere(t), NEW k \in Tasks, Refuses(t, k)
    PROVE  Pool!Decline(k)
<1>1. /\ UNCHANGED <<queue, executed>> /\ state # "RUNNING" /\ implementation
      /\ k = tally["submitted"] + 1 /\ tally'["submitted"] = k
      /\ SameOffer(t) /\ SameHold(t) /\ (Calling(t)' <=> Calling(t))
  BY DEF Refuses, Same
<1>2. PICK code \in Refusals : outcome' = [outcome EXCEPT ![k] = code]
  BY DEF Refuses
<1>3. /\ tally["submitted"] \in Nat /\ k \in Nat /\ TypeOK
      /\ outcome \in [Tasks -> SchedulerCodes]
  BY ThreadKinds DEF TasksInv, LifeInv, BaseInv, TypeOK, Tallied
<1>4. PoolPhase \notin {"open", "gone"}
  BY <1>1, <1>3, PhaseIs
<1>5. ~(k <= tally["submitted"]) /\ k > tally["submitted"]
  BY <1>1, <1>3
<1>6. outcome[k] = "none" /\ ~Underway(k) /\ ~Taken(k)
  BY <1>5, PutImpliesOffer DEF TasksInv, Submissions, Underway, Taken
<1>7. Stage(k) = "new"
  BY <1>6, StageFacts
<1>8. code # "none" /\ code # "OK"
  BY DEF Refusals
<1>9. Stage(k)' = "refused"
  <2>1. executed[k] # 1 /\ ~Held(k) /\ ~InQueue(k)
    BY <1>7, StageFacts
  <2>2. ~Held(k)' /\ ~InQueue(k)'
    BY <1>1, <2>1, PlacesElsewhere DEF SameHold, InQueue
  <2>3. QED
    BY <1>1, <1>2, <1>3, <1>8, <2>1, <2>2 DEF Stage
<1>10. \A j \in Tasks : j # k => Stage(j)' = Stage(j)
  BY <1>1, <1>2, <1>3, OthersKeepStage DEF SameOffer, SameHold, InQueue
<1>11. PoolStatus[k] = "new" /\ PoolStatus' = [PoolStatus EXCEPT ![k] = "refused"]
  BY <1>7, <1>9, <1>10, OneStage
<1>12. PoolAnswer[k] = "none" /\ PoolAnswer' = [PoolAnswer EXCEPT ![k] = "refused"]
  BY <1>2, <1>3, <1>6, <1>8, AnswerIs
<1>13. PoolRunning' = PoolRunning
  BY <1>1, SameRunning
<1>14. QED
  BY <1>1, <1>4, <1>11, <1>12, <1>13 DEF Pool!Decline, Pool!Becomes, Pool!Answer

-----------------------------------------------------------------------------
(* While a submission is under way the pool is open or closed, not gone. *)
LEMMA OfferPhase ==
    ASSUME TasksInv, NEW t \in Threads, NEW k \in Tasks, Offering(t, k)
    PROVE  /\ PoolPhase \in {"open", "closed"} /\ outcome[k] = "none" /\ Underway(k)
           /\ \A u \in Threads : Offering(u, k) => u = t
<1>1. t \in Registered
  BY DEF Offering, Registered
<1>2. state \in {"RUNNING", "SHUTTING_DOWN"} /\ TypeOK
  BY <1>1 DEF TasksInv, LifeInv, Gate, BaseInv
<1>3. implementation
  BY <1>2 DEF TasksInv, LifeInv, Gone, Destructible
<1>4. PoolPhase \in {"open", "closed"}
  BY <1>2, <1>3, PhaseIs
<1>5. QED
  BY <1>4 DEF TasksInv, Submissions, Underway

(* The queue takes a task. *)
LEMMA PutRefines ==
    ASSUME TasksInv, TasksInv', PoolPhase' = PoolPhase,
           NEW t \in Threads, Elsewhere(t), NEW k \in Tasks, PutsTask(t, k)
    PROVE  Pool!Accept(k)
<1>1. /\ UNCHANGED <<outcome, executed>> /\ Len(queue) < Capacity /\ queue' = Append(queue, k)
      /\ Offering(t, k) /\ SameOffer(t) /\ SameHold(t) /\ (Calling(t)' <=> Calling(t))
      /\ ~HasPut(t, k)
  BY DEF PutsTask
<1>2. PoolPhase \in {"open", "closed"} /\ outcome[k] = "none" /\ Underway(k)
  BY <1>1, OfferPhase
<1>3. ~Taken(k)
  BY <1>1, <1>2, OfferPhase, PutImpliesOffer DEF Taken
<1>4. Stage(k) = "offered"
  BY <1>2, <1>3, StageFacts
<1>5. queue \in Seq(Tasks)
  BY DEF TasksInv, LifeInv, BaseInv, QueueInv, Q!TypeOK
<1>6. \A j \in Tasks : InQueue(j)' <=> InQueue(j) \/ j = k
  <2>1. /\ Len(queue') = Len(queue) + 1 /\ queue'[Len(queue) + 1] = k /\ Len(queue) \in Nat
        /\ \A i \in 1..Len(queue) : queue'[i] = queue[i]
    BY <1>1, <1>5
  <2>2. QED
    BY <2>1 DEF InQueue
<1>7. Stage(k)' = "pending"
  <2>1. executed[k] # 1 /\ ~Held(k)
    BY <1>4, StageFacts
  <2>2. ~Held(k)' /\ InQueue(k)'
    BY <1>1, <1>6, <2>1, PlacesElsewhere DEF SameHold
  <2>3. QED
    BY <1>1, <2>1, <2>2 DEF Stage
<1>8. \A j \in Tasks : j # k => Stage(j)' = Stage(j)
  BY <1>1, <1>6, OthersKeepStage DEF SameOffer, SameHold
<1>9. PoolStatus[k] = "offered" /\ PoolStatus' = [PoolStatus EXCEPT ![k] = "pending"]
  BY <1>4, <1>7, <1>8, OneStage
<1>10. PoolAnswer' = PoolAnswer /\ PoolRunning' = PoolRunning
  BY <1>1, SameRunning DEF PoolAnswer
<1>11. QED
  BY <1>1, <1>2, <1>9, <1>10 DEF Pool!Accept, Pool!Becomes

(* A submission returns. *)
LEMMA AnswerRefines ==
    ASSUME TasksInv, TasksInv', PoolPhase' = PoolPhase,
           NEW t \in Threads, Elsewhere(t), NEW k \in Tasks, AnswersTask(t, k)
    PROVE  Pool!Confirm(k) \/ Pool!Decline(k)
<1>1. /\ UNCHANGED <<queue, executed>> /\ SameHold(t) /\ (Calling(t)' <=> Calling(t))
      /\ \A j \in Tasks : (Offering(t, j) <=> j = k) /\ ~Offering(t, j)'
  BY DEF AnswersTask
<1>2. PICK code \in {"OK"} \cup Refusals : /\ outcome' = [outcome EXCEPT ![k] = code]
                                           /\ code = "OK" <=> HasPut(t, k)
  BY DEF AnswersTask
<1>3. /\ PoolPhase \in {"open", "closed"} /\ outcome[k] = "none" /\ Underway(k)
      /\ outcome \in [Tasks -> SchedulerCodes]
  BY <1>1, OfferPhase DEF TasksInv, LifeInv, BaseInv, TypeOK
<1>4. PoolAnswer[k] = "none"
      /\ PoolAnswer' = [PoolAnswer EXCEPT ![k] = IF code = "OK" THEN "OK" ELSE "refused"]
  BY <1>2, <1>3, AnswerIs
<1>5. PoolRunning' = PoolRunning
  BY <1>1, SameRunning
<1>6. \A j \in Tasks : (InQueue(j)' <=> InQueue(j)) /\ (Held(j)' <=> Held(j))
  BY <1>1, PlacesElsewhere DEF SameHold, InQueue
<1>7. \A j \in Tasks : j # k => Stage(j)' = Stage(j)
  BY <1>1, <1>2, <1>3, <1>6, OthersKeepStage DEF SameHold
<1>8. CASE code = "OK"
  <2>1. Taken(k)
    BY <1>2, <1>8 DEF Taken
  <2>2. Stage(k) \in {"pending", "taken", "called"}
    BY <2>1, StageFacts
  <2>3. Stage(k)' = Stage(k)
    BY <1>1, <1>6, <2>2 DEF Stage
  <2>4. PoolStatus' = PoolStatus /\ PoolStatus[k] = Stage(k)
    BY <1>7, <2>3, SameStages, OneStage
  <2>5. Pool!Confirm(k)
    BY <1>1, <1>4, <1>5, <1>8, <2>2, <2>4 DEF Pool!Confirm, Pool!Answer
  <2>6. QED
    BY <2>5
<1>9. CASE code # "OK"
  <2>1. ~Taken(k)
    BY <1>1, <1>2, <1>3, <1>9, OfferPhase, PutImpliesOffer DEF Taken
  <2>2. Stage(k) = "offered"
    BY <1>3, <2>1, StageFacts
  <2>3. code # "none"
    BY DEF Refusals
  <2>4. Stage(k)' = "refused"
    <3>1. executed[k] # 1 /\ ~Held(k) /\ ~InQueue(k)
      BY <2>2, StageFacts
    <3>2. QED
      BY <1>1, <1>2, <1>3, <1>6, <2>3, <3>1 DEF Stage
  <2>5. PoolStatus[k] = "offered" /\ PoolStatus' = [PoolStatus EXCEPT ![k] = "refused"]
    BY <1>7, <2>2, <2>4, OneStage
  <2>6. Pool!Decline(k)
    BY <1>1, <1>3, <1>4, <1>5, <1>9, <2>5 DEF Pool!Decline, Pool!Becomes, Pool!Answer
  <2>7. QED
    BY <2>6
<1>10. QED
  BY <1>8, <1>9

(* The callback is called. *)
LEMMA RunRefines ==
    ASSUME TasksInv, TasksInv', PoolPhase' = PoolPhase,
           NEW t \in Threads, Elsewhere(t), NEW k \in Tasks, RunsTask(t, k)
    PROVE  Pool!Call(k)
<1>1. /\ UNCHANGED <<queue, outcome>> /\ t \in Workers
      /\ executed' = [executed EXCEPT ![k] = @ + 1]
      /\ SameOffer(t) /\ ~Calling(t) /\ Calling(t)'
      /\ \A j \in Tasks : (Holds(t, j) <=> j = k) /\ ~Holds(t, j)'
  BY DEF RunsTask
<1>2. executed \in [Tasks -> Nat]
  BY DEF TasksInv, LifeInv, BaseInv, TypeOK
<1>3. Held(k)
  BY <1>1 DEF Held
<1>4. Stage(k) = "taken" /\ executed[k] = 0
  BY <1>3, StageFacts
<1>5. executed'[k] = 1 /\ \A j \in Tasks : j # k => executed'[j] = executed[j]
  BY <1>1, <1>2, <1>4
<1>6. Stage(k)' = "called"
  BY <1>5 DEF Stage
<1>7. \A j \in Tasks : j # k => Stage(j)' = Stage(j)
  BY <1>1, <1>5, OthersKeepStage DEF SameOffer, InQueue
<1>8. PoolStatus[k] = "taken" /\ PoolStatus' = [PoolStatus EXCEPT ![k] = "called"]
  BY <1>4, <1>6, <1>7, OneStage
<1>9. t \notin InCallback /\ InCallback' = InCallback \cup {t}
  BY <1>1, CallbackSet, CallbackSetPrimed, ThreadKinds DEF Elsewhere, Same
<1>10. PoolRunning' = PoolRunning + 1
  BY <1>9, CallbackSet, FS_AddElement DEF PoolRunning
<1>11. PoolAnswer' = PoolAnswer
  BY <1>1 DEF PoolAnswer
<1>12. QED
  BY <1>1, <1>8, <1>10, <1>11 DEF Pool!Call, Pool!Becomes

(* A worker holds one task. *)
LEMMA HoldsOne ==
    ASSUME NEW w, NEW j, NEW k, Holds(w, j), Holds(w, k)
    PROVE  j = k
BY DEF Holds, TaskInHandLabels

(* Tasks in hand and callbacks are all with different workers. *)
LEMMA WorkersBusy ==
    ASSUME TasksInv, NEW t \in Workers, ~Calling(t), \A j \in Tasks : ~Holds(t, j)
    PROVE  Cardinality({k \in Tasks : Stage(k) = "taken"}) + PoolRunning < WorkerCount
<1> DEFINE T == {k \in Tasks : Stage(k) = "taken"}
           B == InCallback \cup {t}
           F == Workers \ B
           f == [k \in T |-> CHOOSE w \in Workers : Holds(w, k)]
<1>1. \A k \in T : f[k] \in Workers /\ Holds(f[k], k)
  <2>1. \A k \in T : \E w \in Workers : Holds(w, k)
    BY StageFacts DEF Held
  <2>2. QED
    BY <2>1
<1>2. \A k \in T : f[k] \in F
  <2> SUFFICES ASSUME NEW k \in T PROVE f[k] \notin B
    BY <1>1
  <2>1. f[k] # t
    BY <1>1
  <2>2. ~Calling(f[k])
    BY <1>1 DEF Holds, Calling, SubmitLabels, TaskInHandLabels
  <2>3. QED
    BY <2>1, <2>2, CallbackSet
<1>3. \A j, k \in T : f[j] = f[k] => j = k
  <2> SUFFICES ASSUME NEW j \in T, NEW k \in T, f[j] = f[k] PROVE j = k
    OBVIOUS
  <2>1. Holds(f[j], j) /\ Holds(f[j], k)
    BY <1>1
  <2>2. QED
    BY <2>1, HoldsOne
<1>4. f \in Injection(T, F)
  <2>1. f \in [T -> F]
    BY <1>2
  <2> HIDE DEF f, T, F
  <2>2. QED
    BY <1>3, <2>1 DEF Injection, IsInjective
<1>5. IsFiniteSet(F) /\ Cardinality(F) \in Nat
  BY WorkersFinite
<1>6. Cardinality(T) \in Nat /\ Cardinality(T) <= Cardinality(F)
  <2>1. Cardinality(T) \in Nat
    BY TasksFinite
  <2> HIDE DEF f, T, F
  <2>2. QED
    BY <1>4, <1>5, <2>1, FS_Injection
<1>7. B \subseteq Workers /\ Cardinality(B) = PoolRunning + 1
  <2>1. t \notin InCallback /\ InCallback \subseteq Workers
    BY CallbackSet
  <2>2. QED
    BY <2>1, CallbackSet, FS_AddElement DEF PoolRunning
<1>8. Cardinality(Workers) = WorkerCount
  BY FS_Interval, SchedulerAssumption DEF Workers
<1>9. Cardinality(F) = WorkerCount - (PoolRunning + 1)
  <2>1. Workers \cap B = B
    BY <1>7
  <2>2. Cardinality(F) = Cardinality(Workers) - Cardinality(Workers \cap B)
    BY WorkersFinite, FS_Difference
  <2>3. QED
    BY <1>7, <1>8, <2>1, <2>2
<1>10. QED
  BY <1>6, <1>9, CallbackSet, SchedulerAssumption

(* StoppedQuiet in the next state. *)
LEMMA StoppedQuietPrimed ==
    LifeInv' /\ (state' = "STOPPED" \/ ~implementation') =>
        /\ \A w \in Workers : pc'[w] \in {"none", "exited"} /\ ~handle'[w]
        /\ \A t \in Threads : qpc'[t] = "idle"
<1>1. LifeInv /\ (state = "STOPPED" \/ ~implementation) =>
          /\ \A w \in Workers : pc[w] \in {"none", "exited"} /\ ~handle[w]
          /\ \A t \in Threads : qpc[t] = "idle"
  BY StoppedQuiet
<1>2. (LifeInv /\ (state = "STOPPED" \/ ~implementation) =>
          /\ \A w \in Workers : pc[w] \in {"none", "exited"} /\ ~handle[w]
          /\ \A t \in Threads : qpc[t] = "idle")'
  BY <1>1, PTL
<1>3. QED
  BY <1>2

(* A worker takes a task. *)
LEMMA TakeRefines ==
    ASSUME TasksInv, TasksInv', PoolPhase' = PoolPhase, UNCHANGED <<state, implementation>>,
           NEW t \in Threads, Elsewhere(t), TakesTask(t)
    PROVE  Pool!Take
<1>1. /\ UNCHANGED <<outcome, executed>> /\ t \in Workers /\ queue # <<>> /\ queue' = Tail(queue)
      /\ SameOffer(t) /\ ~Calling(t) /\ ~Calling(t)'
      /\ \A j \in Tasks : ~Holds(t, j) /\ (Holds(t, j)' <=> j = Head(queue))
  BY DEF TakesTask
<1>2. queue \in Seq(Tasks) /\ TypeOK
  BY DEF TasksInv, LifeInv, BaseInv, QueueInv, Q!TypeOK
<1>3. PICK k \in Tasks : k = Head(queue)
  BY <1>1, <1>2
<1>4. PoolPhase \in {"open", "closed"}
  <2>1. Holds(t, k)'
    BY <1>1, <1>3
  <2>2. pc'[t] \notin {"none", "exited"}
    BY <2>1 DEF Holds, TaskInHandLabels
  <2>3. ~(state' = "STOPPED" \/ ~implementation')
    BY <1>1, <2>2, StoppedQuietPrimed DEF TasksInv
  <2>4. state \notin {"INITIALIZED", "STARTING"}
    BY <1>1 DEF TasksInv, Drain
  <2>5. QED
    BY <1>2, <2>3, <2>4, PhaseIs DEF TypeOK, LifecycleStates
<1>5. /\ Len(queue) \in Nat /\ 1 \in 1..Len(queue) /\ queue[1] = k
      /\ Len(queue') = Len(queue) - 1
      /\ \A i \in 1..Len(queue') : queue'[i] = queue[i + 1]
  BY <1>1, <1>2, <1>3
<1>6. InQueue(k)
  BY <1>5 DEF InQueue
<1>7. \A j \in Tasks : j # k => (InQueue(j)' <=> InQueue(j))
  <2> SUFFICES ASSUME NEW j \in Tasks, j # k PROVE InQueue(j)' <=> InQueue(j)
    OBVIOUS
  <2>1. ASSUME NEW i \in 1..Len(queue), queue[i] = j
        PROVE  i - 1 \in 1..Len(queue') /\ queue'[i - 1] = j
    BY <1>5, <2>1
  <2>2. ASSUME NEW i \in 1..Len(queue'), queue'[i] = j
        PROVE  i + 1 \in 1..Len(queue) /\ queue[i + 1] = j
    BY <1>5, <2>2
  <2>3. QED
    BY <2>1, <2>2 DEF InQueue
<1>8. Stage(k) = "pending"
  BY <1>6, StageFacts
<1>9. Stage(k)' = "taken"
  <2>1. executed[k] # 1
    BY <1>8, StageFacts
  <2>2. Held(k)'
    BY <1>1, <1>3 DEF Held
  <2>3. QED
    BY <1>1, <2>1, <2>2 DEF Stage
<1>10. \A j \in Tasks : j # k => Stage(j)' = Stage(j)
  BY <1>1, <1>3, <1>7, OthersKeepStage DEF SameOffer
<1>11. PoolStatus[k] = "pending" /\ PoolStatus' = [PoolStatus EXCEPT ![k] = "taken"]
  BY <1>8, <1>9, <1>10, OneStage
<1>12. PoolAnswer' = PoolAnswer /\ PoolRunning' = PoolRunning
  BY <1>1, SameRunning DEF PoolAnswer
<1>13. Pool!Cardinality(Pool!With("taken")) + PoolRunning < WorkerCount
  <2>1. Pool!With("taken") = {j \in Tasks : Stage(j) = "taken"}
    BY StatusIs DEF Pool!With
  <2>2. QED
    BY <1>1, <2>1, WorkersBusy, PoolCardinality
<1>14. QED
  BY <1>1, <1>3, <1>4, <1>11, <1>12, <1>13 DEF Pool!Take, Pool!Becomes

-----------------------------------------------------------------------------
(* A scheduler that has stopped is a pool at rest. *)
LEMMA StoppedAtRest ==
    ASSUME TasksInv, state = "STOPPED" \/ ~implementation
    PROVE  Pool!AtRest
<1> USE ThreadKinds
<1>1. \A w \in Workers : pc[w] \in {"none", "exited"}
  BY StoppedQuiet DEF TasksInv
<1>2. Registered = {}
  BY DEF TasksInv, LifeInv, Gate, Gone, Destructible
<1>3. \A k \in Tasks : ~Underway(k)
  BY <1>2 DEF Underway, Offering, Registered
<1>4. \A k \in Tasks : ~Held(k)
  BY <1>1 DEF Held, Holds, TaskInHandLabels
<1>5. \A k \in Tasks : Stage(k) \notin {"offered", "taken"}
  BY <1>3, <1>4 DEF Stage
<1>6. Pool!With("offered") = {} /\ Pool!With("taken") = {}
  BY <1>5, StatusIs DEF Pool!With
<1>7. PoolRunning = 0
  <2>1. InCallback = {}
    BY <1>1 DEF InCallback, SubmitLabels
  <2>2. QED
    BY <2>1, FS_EmptySet DEF PoolRunning
<1>8. queue = <<>> \/ "wait" \in Faults
  BY StoppedDrained
<1>9. QED
  BY <1>6, <1>7, <1>8 DEF Pool!AtRest

(* The same in the next state. *)
LEMMA StoppedAtRestPrimed ==
    TasksInv' /\ (state' = "STOPPED" \/ ~implementation') => Pool!AtRest'
<1>1. TasksInv /\ (state = "STOPPED" \/ ~implementation) => Pool!AtRest
  BY StoppedAtRest
<1>2. (TasksInv /\ (state = "STOPPED" \/ ~implementation) => Pool!AtRest)'
  BY <1>1, PTL
<1>3. QED
  BY <1>2

(* How a lifecycle call changes the phase. *)
LEMMA PhaseStep ==
    ASSUME TasksInv, TasksInv', [Next]_vars, MainOnly
    PROVE  \/ PoolPhase' = PoolPhase
           \/ PoolPhase = "new" /\ PoolPhase' = "open"
           \/ PoolPhase \in {"new", "open"} /\ PoolPhase' = "closed"
           \/ PoolPhase = "closed" /\ PoolPhase' = "stopped" /\ state' = "STOPPED"
           \/ /\ PoolPhase \in {"new", "closed", "stopped"} /\ PoolPhase' = "gone"
              /\ ~implementation'
<1>1. TypeOK /\ TypeOK' /\ Lifecycle
  BY DEF TasksInv, LifeInv, BaseInv
<1>2. CASE UNCHANGED <<state, implementation>>
  BY <1>2 DEF PoolPhase
<1>3. CASE StartBegins
  BY <1>3 DEF StartBegins, PoolPhase
<1>4. CASE StartAllocates
  <2>1. state = "STARTING" /\ implementation /\ implementation' = implementation
    BY <1>1, <1>4 DEF StartAllocates, Lifecycle, StartLabels
  <2>2. state' \in {"STARTING", "INITIALIZED"}
    BY <1>4, <2>1 DEF StartAllocates
  <2>3. QED
    BY <2>1, <2>2 DEF PoolPhase
<1>5. CASE StartPublishes \/ StartFails
  <2>1. state = "STARTING" /\ implementation /\ implementation'
    BY <1>1, <1>5 DEF StartPublishes, StartFails, Lifecycle, StartLabels
  <2>2. state' \in {"RUNNING", "FAILED"}
    BY <1>5 DEF StartPublishes, StartFails
  <2>3. QED
    BY <2>1, <2>2 DEF PoolPhase
<1>6. CASE ShutdownBegins
  <2>1. /\ state \in {"RUNNING", "SHUTTING_DOWN"} /\ state' = "SHUTTING_DOWN"
        /\ implementation /\ implementation'
    BY <1>6 DEF ShutdownBegins
  <2>2. QED
    BY <2>1 DEF PoolPhase
<1>7. CASE JoinPublishes
  <2>1. state \in {"SHUTTING_DOWN", "FAILED"} /\ implementation /\ implementation'
    BY <1>1, <1>7 DEF JoinPublishes, Lifecycle, JoinLabels
  <2>2. state' \in {"FAILED", "STOPPED"}
    BY <1>7 DEF JoinPublishes
  <2>3. QED
    BY <2>1, <2>2 DEF PoolPhase
<1>8. CASE scheduler_destroy
  <2>1. CASE UNCHANGED <<state, implementation>>
    BY <1>2, <2>1
  <2>2. CASE Destructible /\ ~implementation' /\ implementation
    BY <2>2 DEF PoolPhase, Destructible
  <2>3. QED
    BY <1>8, <2>1, <2>2 DEF scheduler_destroy, Refused, lifecycleVars
<1>9. CASE UNCHANGED lifecycleVars
  BY <1>2, <1>9 DEF lifecycleVars
<1>10. CASE \/ LifecycleCallReturnsAtOnce \/ JoinWaits \/ StartWaits \/ JoinWorker
            \/ FinishRelease \/ ShutdownWaits \/ JoinWaitFails \/ MainSpuriousWakeup
  BY <1>9, <1>10
     DEF LifecycleCallReturnsAtOnce, Refused, JoinWaits, StartWaits, JoinWorker,
         FinishRelease, ShutdownWaits, JoinWaitFails, MainSpuriousWakeup
<1>11. QED
  BY <1>3, <1>4, <1>5, <1>6, <1>7, <1>8, <1>10 DEF MainOnly

(* Every step of the scheduler is a step of the pool, or none. *)
LEMMA PoolStep ==
    ASSUME TasksInv, TasksInv', [Next]_vars
    PROVE  [Pool!Next]_(Pool!vars)
<1>1. CASE MainOnly /\ Elsewhere(Main) /\ Quiet(Main)
  <2>1. UNCHANGED <<queue, PoolStatus, PoolAnswer, PoolRunning>>
    BY <1>1, QuietRest, ThreadKinds
  <2>2. CASE PoolPhase' = PoolPhase
    BY <2>1, <2>2 DEF Pool!vars
  <2>3. CASE PoolPhase = "new" /\ PoolPhase' = "open"
    BY <2>1, <2>3 DEF Pool!Next, Pool!Open
  <2>4. CASE PoolPhase \in {"new", "open"} /\ PoolPhase' = "closed"
    BY <2>1, <2>4 DEF Pool!Next, Pool!Close
  <2>5. ASSUME state' = "STOPPED" \/ ~implementation' PROVE Pool!AtRest
    BY <2>1, <2>5, StoppedAtRestPrimed DEF Pool!AtRest, Pool!With
  <2>6. CASE PoolPhase = "closed" /\ PoolPhase' = "stopped" /\ state' = "STOPPED"
    BY <2>1, <2>5, <2>6 DEF Pool!Next, Pool!Stop
  <2>7. CASE /\ PoolPhase \in {"new", "closed", "stopped"} /\ PoolPhase' = "gone"
             /\ ~implementation'
    BY <2>1, <2>5, <2>7 DEF Pool!Next, Pool!Destroy
  <2>8. QED
    BY <1>1, <2>2, <2>3, <2>4, <2>6, <2>7, PhaseStep
<1>2. ASSUME UNCHANGED <<state, implementation>>,
             NEW t \in Threads, Elsewhere(t), Moves(t)
      PROVE  [Pool!Next]_(Pool!vars)
  <2>1. PoolPhase' = PoolPhase
    BY <1>2 DEF PoolPhase
  <2>2. CASE Quiet(t)
    BY <1>2, <2>1, <2>2, QuietRest DEF Pool!vars
  <2>3. CASE CallEnds(t)
    BY <1>2, <2>1, <2>3, EndsRefine DEF Pool!Next
  <2>4. CASE TakesTask(t)
    BY <1>2, <2>1, <2>4, TakeRefines DEF Pool!Next
  <2>5. ASSUME NEW k \in Tasks,
               Offers(t, k) \/ Refuses(t, k) \/ PutsTask(t, k) \/ AnswersTask(t, k) \/ RunsTask(t, k)
        PROVE  Pool!Next
    BY <1>2, <2>1, <2>5, OfferRefines, RefusalRefines, PutRefines, AnswerRefines, RunRefines
       DEF Pool!Next
  <2>6. QED
    BY <1>2, <2>2, <2>3, <2>4, <2>5 DEF Moves
<1>3. QED
  BY <1>1, <1>2, TaskStep DEF TasksInv

(* A scheduler just made is a pool that has not opened. *)
LEMMA PoolInit == Init => Pool!Init
<1> SUFFICES ASSUME Init PROVE Pool!Init
  OBVIOUS
<1> USE ThreadKinds
<1>1. TasksInv
  BY InitTasks
<1>2. /\ queue = <<>> /\ state = "INITIALIZED" /\ implementation = TRUE
      /\ outcome = [k \in Tasks |-> "none"] /\ executed = [k \in Tasks |-> 0]
  BY DEF Init, Q!Init
<1>3. \A t \in Threads : pc[t] \in {"none", "idle"}
  BY DEF Init
<1>4. PoolPhase = "new"
  BY <1>2 DEF PoolPhase
<1>5. \A k \in Tasks : Stage(k) = "new"
  BY <1>2, <1>3
     DEF Stage, Held, Holds, InQueue, Underway, Offering, SubmitLabels, TaskInHandLabels
<1>6. PoolStatus = [k \in Tasks |-> "new"]
  BY <1>1, <1>5, StatusIs
<1>7. PoolAnswer = [k \in Tasks |-> "none"]
  BY <1>2 DEF PoolAnswer
<1>8. PoolRunning = 0
  <2>1. InCallback = {}
    BY <1>3 DEF InCallback, SubmitLabels
  <2>2. QED
    BY <2>1, FS_EmptySet DEF PoolRunning
<1>9. QED
  BY <1>2, <1>4, <1>6, <1>7, <1>8 DEF Pool!Init

(* The scheduler implements the task pool: the initial state is one of the
   pool's, and every critical section of every thread is a step of the pool or
   is invisible to its callers. *)
THEOREM SchedulerIsTaskPool == Spec => ImplementsTaskPool
<1>1. TasksInv /\ TasksInv' /\ [Next]_vars => [Pool!Next]_(Pool!vars)
  BY PoolStep
<1>2. QED
  BY PoolInit, TasksInvariant, <1>1, PTL DEF Spec, ImplementsTaskPool, Pool!Spec
=============================================================================
