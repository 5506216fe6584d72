---------------------------- MODULE BoundedFifo ----------------------------
(***************************************************************************)
(* What src/include/concurrent_scheduler/task_queue.h promises: a queue of *)
(* task pointers of a fixed capacity, first in first out, that can be      *)
(* created, destroyed and created again.  TaskQueue (the ring buffer of    *)
(* src/src/task_queue.c) implements this specification.                    *)
(***************************************************************************)
EXTENDS Integers, Sequences

CONSTANTS
    Tasks,          \* the Task objects whose addresses are queued
    Capacities,     \* the capacities a caller asks task_queue_init for
    NULL            \* the null pointer

VARIABLES
    fifo,           \* the queued tasks, oldest first
    limit,          \* the capacity, 0 when the queue does not exist
    result          \* what the last call returned: <<code, *task>>

vars == <<fifo, limit, result>>

Init ==
    /\ fifo = <<>>
    /\ limit = 0
    /\ result = <<"OK", NULL>>

(* A queue is created empty, or the call fails and there is still none. *)
Create ==
    /\ limit = 0
    /\ UNCHANGED fifo
    /\ \/ \E c \in Capacities : /\ c > 0
                                /\ limit' = c
                                /\ result' = <<"OK", NULL>>
       \/ /\ result' \in {<<"INVALID_ARGUMENT", NULL>>, <<"ALLOCATION", NULL>>}
          /\ UNCHANGED limit

Destroy ==
    /\ fifo' = <<>>
    /\ limit' = 0
    /\ UNCHANGED result

Refuse(code) ==
    /\ result' = <<code, NULL>>
    /\ UNCHANGED <<fifo, limit>>

Put ==
    \/ \E t \in Tasks : /\ Len(fifo) < limit
                        /\ fifo' = Append(fifo, t)
                        /\ result' = <<"OK", NULL>>
                        /\ UNCHANGED limit
    \/ limit > 0 /\ Len(fifo) = limit /\ Refuse("FULL")
    \/ Refuse("INVALID_ARGUMENT")     \* no queue, or no task

Take ==
    \/ /\ fifo # <<>>
       /\ result' = <<"OK", Head(fifo)>>
       /\ fifo' = Tail(fifo)
       /\ UNCHANGED limit
    \/ limit > 0 /\ fifo = <<>> /\ Refuse("EMPTY")
    \/ limit = 0 /\ Refuse("INVALID_ARGUMENT")

Peek ==
    \/ /\ fifo # <<>>
       /\ result' = <<"OK", Head(fifo)>>
       /\ UNCHANGED <<fifo, limit>>
    \/ limit > 0 /\ fifo = <<>> /\ Refuse("EMPTY")
    \/ limit = 0 /\ Refuse("INVALID_ARGUMENT")

Next == Create \/ Destroy \/ Put \/ Take \/ Peek

Spec == Init /\ [][Next]_vars
=============================================================================
