----------------------------- MODULE TaskQueue -----------------------------
(***************************************************************************)
(* The ring buffer of src/src/task_queue.c.  The object is not             *)
(* thread-safe: every call below is one step, and ConcurrentTaskQueue      *)
(* makes each call while it holds its mutex.                               *)
(***************************************************************************)
EXTENDS Integers, Sequences

CONSTANTS
    Tasks,          \* the Task objects whose addresses are queued
    Capacities,     \* the capacities a caller asks task_queue_init for
    NULL            \* the null pointer

ASSUME TaskQueueAssumption ==
    /\ NULL \notin Tasks
    /\ Capacities \subseteq Nat

VARIABLES
    items,          \* queue->items; a NULL array is the function on {}
    capacity,       \* queue->capacity
    size,           \* queue->size
    head,           \* queue->head
    tail,           \* queue->tail
    result          \* what the last call returned: <<code, *task>>

object == <<items, capacity, size, head, tail>>
vars == <<items, capacity, size, head, tail, result>>

(* A TaskQueue starts zero-initialised, as task_queue_destroy leaves it. *)
Init ==
    /\ items = <<>>
    /\ capacity = 0 /\ size = 0 /\ head = 0 /\ tail = 0
    /\ result = <<"OK", NULL>>

Return(code, t) == result' = <<code, t>>

(* The defensive test that opens enqueue, dequeue and peek. *)
Malformed ==
    \/ capacity = 0             \* items == NULL, or capacity == 0
    \/ size > capacity
    \/ head >= capacity
    \/ tail >= capacity

(* dequeue and peek also refuse a non-empty queue whose head slot is NULL. *)
NoOldest == Malformed \/ (size # 0 /\ items[head] = NULL)

(* Mutants, each a plausible slip in the definition it precedes: a wrap    *)
(* tested one index late, a slot that keeps its pointer after dequeue, a   *)
(* queue that calls itself full one slot early.                            *)
AdvanceOffByOne(i) == IF i = capacity THEN 0 ELSE i + 1
SlotNotCleared(i) == items
FullOneEarly == size >= capacity - 1

(* One past index i in a ring of the current capacity. *)
Advance(i) == IF i = capacity - 1 THEN 0 ELSE i + 1

Cleared(i) == [items EXCEPT ![i] = NULL]

task_queue_is_full == capacity # 0 /\ size = capacity
task_queue_is_empty == size = 0

(* task_queue_init: a zero capacity is refused, calloc may fail.  The      *)
(* caller passes an object that holds no array.                            *)
task_queue_init(c) ==
    /\ capacity = 0
    /\ \/ c = 0 /\ Return("INVALID_ARGUMENT", NULL) /\ UNCHANGED object
       \/ c # 0 /\ Return("ALLOCATION", NULL) /\ UNCHANGED object
       \/ /\ c # 0
          /\ items' = [i \in 0..(c - 1) |-> NULL]
          /\ capacity' = c
          /\ size' = 0 /\ head' = 0 /\ tail' = 0
          /\ Return("OK", NULL)

task_queue_destroy ==
    /\ items' = <<>>
    /\ capacity' = 0 /\ size' = 0 /\ head' = 0 /\ tail' = 0
    /\ UNCHANGED result

task_queue_enqueue(t) ==
    \/ /\ t = NULL \/ Malformed
       /\ Return("INVALID_ARGUMENT", NULL) /\ UNCHANGED object
    \/ /\ t # NULL /\ ~Malformed /\ task_queue_is_full
       /\ Return("FULL", NULL) /\ UNCHANGED object
    \/ /\ t # NULL /\ ~Malformed /\ ~task_queue_is_full
       /\ items' = [items EXCEPT ![tail] = t]
       /\ tail' = Advance(tail)
       /\ size' = size + 1
       /\ Return("OK", NULL)
       /\ UNCHANGED <<capacity, head>>

task_queue_dequeue ==
    \/ NoOldest /\ Return("INVALID_ARGUMENT", NULL) /\ UNCHANGED object
    \/ ~NoOldest /\ task_queue_is_empty /\ Return("EMPTY", NULL) /\ UNCHANGED object
    \/ /\ ~NoOldest /\ ~task_queue_is_empty
       /\ Return("OK", items[head])
       /\ items' = Cleared(head)
       /\ head' = Advance(head)
       /\ size' = size - 1
       /\ UNCHANGED <<capacity, tail>>

task_queue_peek ==
    /\ UNCHANGED object
    /\ \/ NoOldest /\ Return("INVALID_ARGUMENT", NULL)
       \/ ~NoOldest /\ task_queue_is_empty /\ Return("EMPTY", NULL)
       \/ ~NoOldest /\ ~task_queue_is_empty /\ Return("OK", items[head])

Next ==
    \/ \E c \in Capacities : task_queue_init(c)
    \/ task_queue_destroy
    \/ \E t \in Tasks \cup {NULL} : task_queue_enqueue(t)
    \/ task_queue_dequeue
    \/ task_queue_peek

Spec == Init /\ [][Next]_vars

-----------------------------------------------------------------------------
(* Every field holds a value of its C type, the array has `capacity` slots, *)
(* and the indices of a live queue are within it.                           *)
TypeOK ==
    /\ capacity \in Nat /\ size \in 0..capacity
    /\ items \in [0..(capacity - 1) -> Tasks \cup {NULL}]
    /\ head \in Nat /\ tail \in Nat
    /\ capacity = 0 => head = 0 /\ tail = 0
    /\ capacity > 0 => head < capacity /\ tail < capacity
    /\ result \in {"OK", "FULL", "EMPTY", "INVALID_ARGUMENT", "ALLOCATION"}
                      \X (Tasks \cup {NULL})

(* The slot of the i-th oldest task (i from 1). *)
SlotAt(h, c, i) == IF h + i - 1 < c THEN h + i - 1 ELSE h + i - 1 - c
Slot(i) == SlotAt(head, capacity, i)

Occupied == {Slot(i) : i \in 1..size}

(* The ring is consistent after any sequence of calls: head, tail and size *)
(* agree (tail is one past the newest task, modulo the wrap in enqueue and *)
(* dequeue), the slots from head to tail hold tasks and every other slot   *)
(* was cleared by the dequeue that emptied it.  This is why the NULL-slot  *)
(* branches of dequeue and peek are never taken.                           *)
RingConsistent ==
    capacity > 0 =>
        /\ tail = Slot(size + 1)
        /\ \A s \in 0..(capacity - 1) : items[s] # NULL <=> s \in Occupied

(* The tasks in the queue, oldest first. *)
Contents == [i \in 1..size |-> items[Slot(i)]]

Fifo == INSTANCE BoundedFifo WITH fifo <- Contents, limit <- capacity

(* The ring buffer behaves as a bounded first-in first-out queue: enqueue  *)
(* appends or reports FULL exactly when the queue is full, dequeue returns *)
(* the oldest task or reports EMPTY exactly when there is none, across any *)
(* number of wraps and any sequence of init, destroy and init again.       *)
ImplementsFifo == Fifo!Spec
=============================================================================
