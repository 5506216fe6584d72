--------------------------- MODULE ClosableQueue ---------------------------
(***************************************************************************)
(* What concurrent_task_queue.h promises its callers: a bounded            *)
(* first-in first-out queue shared by threads, each call of which takes    *)
(* effect at one instant, and which can be closed.  A put on a full queue  *)
(* and a take on an empty one stay pending until they can proceed; after   *)
(* the queue is closed nothing more is put, what is queued can still be    *)
(* taken, and no call stays pending.  Threads, condition variables and     *)
(* waiter counts do not appear: ConcurrentTaskQueue implements this.       *)
(***************************************************************************)
EXTENDS Integers, Sequences

CONSTANTS Threads, Tasks, Capacity, NULL,
    WaitFailures    \* may a pending call fail for want of a system resource?

VARIABLES
    queue,          \* the queued tasks, oldest first
    closed,         \* has the queue been shut down?
    pending,        \* pending[t]: the call of t that has not returned
    arg,            \* arg[t]: the task t is waiting to put
    ret             \* ret[t]: what the last call of t returned

vars == <<queue, closed, pending, arg, ret>>

Init ==
    /\ queue = <<>> /\ closed = FALSE
    /\ pending = [t \in Threads |-> "none"]
    /\ arg = [t \in Threads |-> NULL]
    /\ ret = [t \in Threads |-> <<"none", NULL>>]

Finish(t, code, out) ==
    /\ pending' = [pending EXCEPT ![t] = "none"]
    /\ arg' = [arg EXCEPT ![t] = NULL]
    /\ ret' = [ret EXCEPT ![t] = <<code, out>>]

Suspend(t, call, task) ==
    /\ pending[t] = "none" /\ ~closed
    /\ pending' = [pending EXCEPT ![t] = call]
    /\ arg' = [arg EXCEPT ![t] = task]
    /\ UNCHANGED <<queue, closed, ret>>

MayPut(t, task) == pending[t] = "none" \/ (pending[t] = "put" /\ arg[t] = task)
MayTake(t) == pending[t] \in {"none", "take"}

Put(t, task) ==
    /\ MayPut(t, task) /\ ~closed /\ Len(queue) < Capacity
    /\ queue' = Append(queue, task)
    /\ Finish(t, "OK", NULL)
    /\ UNCHANGED closed

PutClosed(t, task) ==
    /\ MayPut(t, task) /\ closed
    /\ Finish(t, "SHUTDOWN", NULL)
    /\ UNCHANGED <<queue, closed>>

Take(t) ==
    /\ MayTake(t) /\ queue # <<>>
    /\ queue' = Tail(queue)
    /\ Finish(t, "OK", Head(queue))
    /\ UNCHANGED closed

TakeClosed(t) ==
    /\ MayTake(t) /\ queue = <<>> /\ closed
    /\ Finish(t, "SHUTDOWN", NULL)
    /\ UNCHANGED <<queue, closed>>

(* Calls that return at once and leave the queue as it is. *)
Immediate(t) ==
    /\ pending[t] = "none"
    /\ \/ ~closed /\ Len(queue) = Capacity /\ Finish(t, "FULL", NULL)
       \/ ~closed /\ queue = <<>> /\ Finish(t, "EMPTY", NULL)
       \/ queue # <<>> /\ Finish(t, "OK", Head(queue))
       \/ Finish(t, "INVALID_ARGUMENT", NULL)
    /\ UNCHANGED <<queue, closed>>

Close(t) ==
    /\ pending[t] = "none"
    /\ closed' = TRUE
    /\ Finish(t, "OK", NULL)
    /\ UNCHANGED queue

Fail(t) ==
    /\ WaitFailures /\ pending[t] # "none"
    /\ Finish(t, "SYSTEM", NULL)
    /\ UNCHANGED <<queue, closed>>

Next ==
    \E t \in Threads :
        \/ \E task \in Tasks : \/ Len(queue) = Capacity /\ Suspend(t, "put", task)
                               \/ Put(t, task)
                               \/ PutClosed(t, task)
        \/ queue = <<>> /\ Suspend(t, "take", NULL)
        \/ Take(t) \/ TakeClosed(t) \/ Immediate(t) \/ Close(t) \/ Fail(t)

-----------------------------------------------------------------------------
(* The pending calls that return in a step. *)
PendingPut == \E t \in Threads : pending[t] = "put" /\ Put(t, arg[t])
PendingTake == \E t \in Threads : pending[t] = "take" /\ Take(t)
PendingClosed(t) ==
    /\ pending[t] # "none" /\ closed
    /\ PutClosed(t, arg[t]) \/ Take(t) \/ TakeClosed(t)

(* While there is room some pending put returns, while there are tasks     *)
(* some pending take returns (not every one: a call that comes later may   *)
(* overtake it), and once the queue is closed every pending call returns.  *)
Fairness ==
    /\ WF_vars(PendingPut)
    /\ WF_vars(PendingTake)
    /\ \A t \in Threads : WF_vars(PendingClosed(t))

Spec == Init /\ [][Next]_vars
LiveSpec == Spec /\ Fairness
=============================================================================
