------------------------------ MODULE TaskPool ------------------------------
(***************************************************************************)
(* What scheduler.h promises its callers: a pool that opens once, takes    *)
(* tasks in first-in first-out order while it is open, hands each accepted *)
(* task to the callback exactly once, at most WorkerCount at a time, and,  *)
(* once closed, takes no new task but still runs the ones it has.  When it *)
(* has stopped no submission is under way and no callback runs, or ever    *)
(* will.  Worker threads, the queue's mutex, counters and joins do not     *)
(* appear: Scheduler implements this.                                      *)
(***************************************************************************)
EXTENDS Integers, Sequences, FiniteSets

CONSTANTS Tasks, Capacity, WorkerCount,
    Lossy       \* may a failing worker leave accepted tasks behind?

VARIABLES
    phase,      \* of the pool
    pending,    \* accepted tasks, oldest first
    status,     \* status[k]: how far Task k has come
    answer,     \* answer[k]: what its submitter has been told
    running     \* the number of callbacks that have not returned

vars == <<phase, pending, status, answer, running>>

TypeOK ==
    /\ phase \in {"new", "open", "closed", "stopped", "gone"}
    /\ pending \in Seq(Tasks)
    /\ status \in [Tasks -> {"new", "offered", "refused", "pending", "taken", "called"}]
    /\ answer \in [Tasks -> {"none", "OK", "refused"}]
    /\ running \in 0..WorkerCount

Init ==
    /\ phase = "new" /\ pending = <<>> /\ running = 0
    /\ status = [k \in Tasks |-> "new"]
    /\ answer = [k \in Tasks |-> "none"]

With(s) == {k \in Tasks : status[k] = s}
Becomes(k, from, to) == status[k] = from /\ status' = [status EXCEPT ![k] = to]
Answer(k, a) == answer[k] = "none" /\ answer' = [answer EXCEPT ![k] = a]

(* Submissions.  An offer made while the pool was open is accepted or      *)
(* declined even if the pool closes meanwhile; the submitter may learn of  *)
(* the acceptance after the callback has run.                              *)
Offer(k) ==
    /\ phase = "open" /\ Becomes(k, "new", "offered")
    /\ UNCHANGED <<phase, pending, answer, running>>

Accept(k) ==
    /\ phase \in {"open", "closed"} /\ Len(pending) < Capacity
    /\ Becomes(k, "offered", "pending")
    /\ pending' = Append(pending, k)
    /\ UNCHANGED <<phase, answer, running>>

Confirm(k) ==
    /\ status[k] \in {"pending", "taken", "called"}
    /\ Answer(k, "OK")
    /\ UNCHANGED <<phase, pending, status, running>>

Decline(k) ==
    /\ \/ phase \in {"open", "closed"} /\ Becomes(k, "offered", "refused")
       \/ phase \notin {"open", "gone"} /\ Becomes(k, "new", "refused")
    /\ Answer(k, "refused")
    /\ UNCHANGED <<phase, pending, running>>

(* Execution. *)
Take ==
    /\ phase \in {"open", "closed"} /\ pending # <<>>
    /\ Cardinality(With("taken")) + running < WorkerCount
    /\ Becomes(Head(pending), "pending", "taken")
    /\ pending' = Tail(pending)
    /\ UNCHANGED <<phase, answer, running>>

Call(k) ==
    /\ Becomes(k, "taken", "called") /\ running' = running + 1
    /\ UNCHANGED <<phase, pending, answer>>

Return ==
    /\ running > 0 /\ running' = running - 1
    /\ UNCHANGED <<phase, pending, status, answer>>

(* Lifecycle.  A pool closed before it opened is one whose start failed. *)
Open == phase = "new" /\ phase' = "open" /\ UNCHANGED <<pending, status, answer, running>>

Close ==
    /\ phase \in {"new", "open"} /\ phase' = "closed"
    /\ UNCHANGED <<pending, status, answer, running>>

AtRest ==
    /\ With("offered") = {} /\ With("taken") = {} /\ running = 0
    /\ pending = <<>> \/ Lossy

Stop ==
    /\ phase = "closed" /\ AtRest /\ phase' = "stopped"
    /\ UNCHANGED <<pending, status, answer, running>>

Destroy ==
    /\ phase \in {"new", "closed", "stopped"} /\ AtRest /\ phase' = "gone"
    /\ UNCHANGED <<pending, status, answer, running>>

Next ==
    \/ \E k \in Tasks : Offer(k) \/ Accept(k) \/ Confirm(k) \/ Decline(k) \/ Call(k)
    \/ Take \/ Return \/ Open \/ Close \/ Stop \/ Destroy

Spec == Init /\ [][Next]_vars
=============================================================================
