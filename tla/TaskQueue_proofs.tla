-------------------------- MODULE TaskQueue_proofs --------------------------
(***************************************************************************)
(* The ring buffer is consistent after every sequence of calls, and it     *)
(* implements the bounded first-in first-out queue, for every set of tasks *)
(* and every capacity.                                                     *)
(***************************************************************************)
EXTENDS TaskQueue, SequenceTheorems, TLAPS

(* The inductive invariant: types, and the agreement of head, tail, size   *)
(* and the slots.                                                          *)
IInv == TypeOK /\ RingConsistent

(* In a ring of c slots the first c positions after h lie in the ring and  *)
(* differ, and each is one past the one before.                            *)
LEMMA SlotFacts ==
    ASSUME NEW c \in Nat, c > 0, NEW h \in 0..(c - 1)
    PROVE  /\ \A i \in 1..(c + 1) : SlotAt(h, c, i) \in 0..(c - 1)
           /\ \A i \in 1..c : \A j \in 1..c : SlotAt(h, c, i) = SlotAt(h, c, j) => i = j
           /\ \A i \in 1..c :
                  SlotAt(h, c, i + 1) = IF SlotAt(h, c, i) = c - 1 THEN 0
                                        ELSE SlotAt(h, c, i) + 1
           /\ SlotAt(h, c, 1) = h
           /\ \A i \in 1..c :
                  SlotAt(IF h = c - 1 THEN 0 ELSE h + 1, c, i) = SlotAt(h, c, i + 1)
BY DEF SlotAt

(* The fields a call leaves alone keep the invariant. *)
LEMMA ObjectUnchanged ==
    ASSUME IInv, UNCHANGED object,
           result' \in {"OK", "FULL", "EMPTY", "INVALID_ARGUMENT", "ALLOCATION"}
                           \X (Tasks \cup {NULL})
    PROVE  IInv' /\ Contents' = Contents
BY DEF IInv, TypeOK, RingConsistent, Occupied, Slot, Contents, object

(* A queue of no tasks has no contents. *)
LEMMA EmptyContents == ASSUME size = 0 PROVE Contents = <<>>
BY DEF Contents

(* The contents are tasks, as many as `size` says. *)
LEMMA ContentsType ==
    ASSUME IInv
    PROVE  /\ Contents \in Seq(Tasks) /\ Len(Contents) = size
           /\ \A i \in 1..size : Contents[i] \in Tasks
           /\ size > 0 => items[head] # NULL /\ Contents[1] = items[head]
<1>1. CASE capacity = 0
  BY <1>1 DEF IInv, TypeOK, Contents
<1>2. CASE capacity > 0
  <2>1. ASSUME NEW i \in 1..size
        PROVE  items[Slot(i)] \in Tasks
    <3>1. head \in 0..(capacity - 1) /\ i \in 1..(capacity + 1)
      BY <1>2 DEF IInv, TypeOK
    <3>2. Slot(i) \in 0..(capacity - 1)
      BY <1>2, <3>1, SlotFacts DEF IInv, TypeOK, Slot
    <3>3. items[Slot(i)] # NULL
      BY <1>2, <3>2 DEF IInv, RingConsistent, Occupied
    <3>4. QED
      BY <3>2, <3>3 DEF IInv, TypeOK
  <2>2. Contents \in Seq(Tasks) /\ Len(Contents) = size
    BY <2>1 DEF Contents, IInv, TypeOK
  <2>3. Slot(1) = head
    BY <1>2, SlotFacts DEF IInv, TypeOK, Slot
  <2>4. size > 0 => 1 \in 1..size
    BY DEF IInv, TypeOK
  <2>5. QED
    BY <2>1, <2>2, <2>3, <2>4, TaskQueueAssumption DEF Contents
<1>3. QED
  BY <1>1, <1>2 DEF IInv, TypeOK

(* What a successful enqueue does to the ring. *)
LEMMA EnqueueStores ==
    ASSUME IInv, NEW t \in Tasks, ~Malformed, ~task_queue_is_full,
           items' = [items EXCEPT ![tail] = t],
           tail' = Advance(tail), size' = size + 1, Return("OK", NULL),
           UNCHANGED <<capacity, head>>
    PROVE  IInv' /\ Contents' = Append(Contents, t)
<1> DEFINE S(i) == SlotAt(head, capacity, i)
<1>1. /\ capacity \in Nat /\ size \in Nat /\ head \in 0..(capacity - 1)
      /\ capacity > 0 /\ size < capacity /\ capacity' = capacity /\ head' = head
      /\ items \in [0..(capacity - 1) -> Tasks \cup {NULL}]
  BY DEF Malformed, task_queue_is_full, IInv, TypeOK
<1>2. tail \in 0..(capacity - 1) /\ tail = S(size + 1)
  BY <1>1 DEF IInv, TypeOK, RingConsistent, Slot
<1>3. /\ \A i \in 1..(capacity + 1) : S(i) \in 0..(capacity - 1)
      /\ \A i \in 1..capacity : \A j \in 1..capacity : S(i) = S(j) => i = j
      /\ \A i \in 1..capacity :
             S(i + 1) = IF S(i) = capacity - 1 THEN 0 ELSE S(i) + 1
  BY <1>1, SlotFacts
<1> HIDE DEF S
<1>4. TypeOK'
  <2>1. tail' \in 0..(capacity - 1)
    BY <1>1, <1>2 DEF Advance
  <2>2. QED
    BY <1>1, <2>1 DEF IInv, TypeOK, Return
<1>5. \A i \in 1..size : S(i) \in 0..(capacity - 1) /\ S(i) # tail
  <2>1. size + 1 \in 1..capacity /\ 1..size \subseteq 1..capacity
    BY <1>1
  <2>2. \A i \in 1..size : i # size + 1
    BY <1>1
  <2>3. QED
    BY <1>1, <1>2, <1>3, <2>1, <2>2
<1>6. RingConsistent'
  <2>1. tail' = S(size + 2)
    BY <1>1, <1>2, <1>3 DEF Advance
  <2>2. ASSUME NEW s \in 0..(capacity - 1)
        PROVE  items'[s] # NULL <=> \E i \in 1..(size + 1) : s = S(i)
    <3>1. CASE s = tail
      BY <3>1, <1>1, <1>2, TaskQueueAssumption
    <3>2. CASE s # tail
      <4>1. items'[s] = items[s]
        BY <3>2, <1>1
      <4>2. items[s] # NULL <=> \E i \in 1..size : s = S(i)
        BY <1>1 DEF IInv, RingConsistent, Occupied, Slot, S
      <4>3. \A i \in 1..(size + 1) : i \in 1..size \/ i = size + 1
        BY <1>1
      <4>4. 1..size \subseteq 1..(size + 1)
        BY <1>1
      <4>5. QED
        BY <4>1, <4>2, <4>3, <4>4, <3>2, <1>2
    <3>3. QED
      BY <3>1, <3>2
  <2>3. Occupied' = {S(i) : i \in 1..(size + 1)}
    BY <1>1 DEF Occupied, Slot, S
  <2>4. Slot(size + 1)' = S(size + 2)
    BY <1>1 DEF Slot, S
  <2>5. QED
    BY <1>1, <2>1, <2>2, <2>3, <2>4 DEF RingConsistent
<1>7. Contents' = Append(Contents, t)
  <2>1. Contents \in Seq(Tasks) /\ Len(Contents) = size
    BY ContentsType
  <2>2. \A i \in 1..size : items'[S(i)] = items[S(i)]
    BY <1>5, <1>1
  <2>3. items'[S(size + 1)] = t
    BY <1>2, <1>1
  <2>4. Contents' = [i \in 1..(size + 1) |-> items'[S(i)]]
    BY <1>1 DEF Contents, Slot, S
  <2>5. /\ Append(Contents, t) \in Seq(Tasks)
        /\ Len(Append(Contents, t)) = size + 1
        /\ \A i \in 1..size : Append(Contents, t)[i] = Contents[i]
        /\ Append(Contents, t)[size + 1] = t
    BY <2>1, AppendProperties
  <2>6. \A i \in 1..size : Contents[i] = items[S(i)]
    BY DEF Contents, Slot, S
  <2>7. \A i \in 1..(size + 1) : i \in 1..size \/ i = size + 1
    BY <1>1
  <2>8. \A i \in 1..(size + 1) : Contents'[i] = Append(Contents, t)[i]
    BY <2>2, <2>3, <2>4, <2>5, <2>6, <2>7
  <2>9. Contents' \in Seq(Tasks) /\ Len(Contents') = size + 1
    <3>1. \A i \in 1..(size + 1) : Append(Contents, t)[i] \in Tasks
      BY <2>5, LenProperties
    <3>2. Contents' \in [1..(size + 1) -> Tasks]
      BY <2>4, <2>8, <3>1
    <3>3. QED
      BY <3>2, <1>1
  <2>10. QED
    BY <2>5, <2>8, <2>9, SeqEqual
<1>8. QED
  BY <1>4, <1>6, <1>7 DEF IInv

(* What a successful dequeue does to the ring. *)
LEMMA DequeueRemoves ==
    ASSUME IInv, ~NoOldest, ~task_queue_is_empty,
           Return("OK", items[head]),
           items' = Cleared(head), head' = Advance(head), size' = size - 1,
           UNCHANGED <<capacity, tail>>
    PROVE  /\ IInv' /\ Contents' = Tail(Contents)
           /\ Contents # <<>> /\ items[head] = Head(Contents)
<1> DEFINE S(i) == SlotAt(head, capacity, i)
           h1 == IF head = capacity - 1 THEN 0 ELSE head + 1
<1>1. /\ capacity \in Nat /\ size \in Nat /\ head \in 0..(capacity - 1)
      /\ capacity > 0 /\ size > 0 /\ size <= capacity
      /\ capacity' = capacity /\ tail' = tail /\ head' = h1
      /\ items \in [0..(capacity - 1) -> Tasks \cup {NULL}]
      /\ items' = [items EXCEPT ![head] = NULL]
  BY DEF NoOldest, Malformed, task_queue_is_empty, IInv, TypeOK, Advance, Cleared
<1>2. tail \in 0..(capacity - 1) /\ tail = S(size + 1)
  BY <1>1 DEF IInv, TypeOK, RingConsistent, Slot
<1>3. /\ \A i \in 1..(capacity + 1) : S(i) \in 0..(capacity - 1)
      /\ \A i \in 1..capacity : \A j \in 1..capacity : S(i) = S(j) => i = j
      /\ S(1) = head
      /\ \A i \in 1..capacity : SlotAt(h1, capacity, i) = S(i + 1)
  BY <1>1, SlotFacts
<1>4. h1 \in 0..(capacity - 1)
  BY <1>1
<1> HIDE DEF S, h1
<1>5. TypeOK'
  <2>1. size' \in 0..capacity
    BY <1>1
  <2>2. items' \in [0..(capacity - 1) -> Tasks \cup {NULL}]
    BY <1>1
  <2>3. items[head] \in Tasks \cup {NULL}
    BY <1>1
  <2>4. head' \in Nat /\ tail' \in Nat /\ head' < capacity /\ tail' < capacity
    BY <1>1, <1>2, <1>4
  <2>5. result' \in {"OK", "FULL", "EMPTY", "INVALID_ARGUMENT", "ALLOCATION"}
                        \X (Tasks \cup {NULL})
    BY <2>3 DEF Return
  <2>6. QED
    BY <1>1, <2>1, <2>2, <2>4, <2>5 DEF TypeOK
<1>6. \A i \in 2..size : S(i) \in 0..(capacity - 1) /\ S(i) # head
  <2>1. \A i \in 2..size : i \in 1..capacity /\ i \in 1..(capacity + 1) /\ i # 1
    BY <1>1
  <2>2. 1 \in 1..capacity
    BY <1>1
  <2>3. QED
    BY <1>3, <2>1, <2>2
<1>7. \A i \in 1..(size - 1) :
          SlotAt(h1, capacity, i) = S(i + 1) /\ i + 1 \in 2..size /\ i \in 1..size
  BY <1>1, <1>3
<1>8. RingConsistent'
  <2>1. tail' = SlotAt(h1, capacity, size)
    BY <1>1, <1>2, <1>3
  <2>2. Slot(size + 1)' = SlotAt(h1, capacity, size)
    BY <1>1 DEF Slot
  <2>3. ASSUME NEW s \in 0..(capacity - 1)
        PROVE  items'[s] # NULL <=> \E i \in 2..size : s = S(i)
    <3>1. CASE s = head
      BY <3>1, <1>1, <1>6
    <3>2. CASE s # head
      <4>1. items'[s] = items[s]
        BY <3>2, <1>1
      <4>2. items[s] # NULL <=> \E i \in 1..size : s = S(i)
        BY <1>1 DEF IInv, RingConsistent, Occupied, Slot, S
      <4>3. \A i \in 1..size : i = 1 \/ i \in 2..size
        BY <1>1
      <4>4. 2..size \subseteq 1..size
        BY <1>1
      <4>5. QED
        BY <4>1, <4>2, <4>3, <4>4, <3>2, <1>3
    <3>3. QED
      BY <3>1, <3>2
  <2>4. Occupied' = {SlotAt(h1, capacity, i) : i \in 1..(size - 1)}
    BY <1>1 DEF Occupied, Slot
  <2>5. \A i \in 2..size : i - 1 \in 1..(size - 1) /\ i = (i - 1) + 1
    BY <1>1
  <2>6. \A s : s \in Occupied' <=> \E i \in 2..size : s = S(i)
    BY <2>4, <2>5, <1>7
  <2>7. QED
    BY <1>1, <2>1, <2>2, <2>3, <2>6 DEF RingConsistent
<1>9. /\ Contents # <<>> /\ items[head] = Head(Contents)
      /\ Contents' = Tail(Contents)
  <2>1. Contents \in Seq(Tasks) /\ Len(Contents) = size /\ Contents[1] = items[head]
    BY ContentsType, <1>1
  <2>2. Contents # <<>> /\ items[head] = Head(Contents)
    BY <2>1, <1>1
  <2>3. /\ Tail(Contents) \in Seq(Tasks)
        /\ Len(Tail(Contents)) = size - 1
        /\ \A i \in 1..(size - 1) : Tail(Contents)[i] = Contents[i + 1]
    BY <2>1, <2>2, HeadTailProperties
  <2>4. Contents' = [i \in 1..(size - 1) |-> items'[SlotAt(h1, capacity, i)]]
    BY <1>1 DEF Contents, Slot
  <2>5. \A i \in 2..size : Contents[i] = items[S(i)] /\ items'[S(i)] = items[S(i)]
    BY <1>1, <1>6 DEF Contents, Slot, S
  <2>6. \A i \in 1..(size - 1) : Contents'[i] = Tail(Contents)[i]
    BY <2>3, <2>4, <2>5, <1>7
  <2>7. Contents' \in Seq(Tasks) /\ Len(Contents') = size - 1
    <3>1. \A i \in 1..(size - 1) : Tail(Contents)[i] \in Tasks
      BY <2>3, LenProperties
    <3>2. Contents' \in [1..(size - 1) -> Tasks]
      BY <2>4, <2>6, <3>1
    <3>3. QED
      BY <3>2, <1>1
  <2>8. QED
    BY <2>2, <2>3, <2>6, <2>7, SeqEqual
<1>10. QED
  BY <1>5, <1>8, <1>9 DEF IInv

-----------------------------------------------------------------------------
(* An object without an array, as init finds it and destroy leaves it. *)
LEMMA NoArray ==
    ASSUME items = <<>>, capacity = 0, size = 0, head = 0, tail = 0,
           result \in {"OK", "FULL", "EMPTY", "INVALID_ARGUMENT", "ALLOCATION"}
                          \X (Tasks \cup {NULL})
    PROVE  IInv
<1>1. items \in [0..(capacity - 1) -> Tasks \cup {NULL}]
  BY SMT
<1>2. QED
  BY <1>1 DEF IInv, TypeOK, RingConsistent

(* Each call keeps the invariant and does what the abstract queue does. *)
LEMMA InitStep ==
    ASSUME IInv, NEW c \in Capacities, task_queue_init(c)
    PROVE  IInv' /\ Fifo!Create
<1>1. capacity = 0 /\ c \in Nat /\ size = 0
  BY TaskQueueAssumption DEF task_queue_init, IInv, TypeOK
<1>2. CASE UNCHANGED object /\ result' \in {<<"INVALID_ARGUMENT", NULL>>,
                                            <<"ALLOCATION", NULL>>}
  <2>1. IInv' /\ Contents' = Contents
    BY <1>2, ObjectUnchanged
  <2>2. QED
    BY <1>1, <1>2, <2>1 DEF Fifo!Create, object
<1>3. CASE /\ c # 0 /\ items' = [i \in 0..(c - 1) |-> NULL] /\ capacity' = c
           /\ size' = 0 /\ head' = 0 /\ tail' = 0 /\ Return("OK", NULL)
  <2>1. Contents = <<>> /\ Contents' = <<>>
    BY <1>1, <1>3 DEF Contents
  <2>2. TypeOK'
    BY <1>1, <1>3 DEF TypeOK, Return
  <2>3. RingConsistent'
    <3>1. Occupied' = {}
      BY <1>3 DEF Occupied
    <3>2. Slot(size + 1)' = 0
      BY <1>1, <1>3 DEF Slot, SlotAt
    <3>3. QED
      BY <1>1, <1>3, <3>1, <3>2 DEF RingConsistent
  <2>4. QED
    BY <1>1, <1>3, <2>1, <2>2, <2>3 DEF IInv, Fifo!Create, Return
<1>4. QED
  BY <1>2, <1>3 DEF task_queue_init, Return

(* destroy leaves what the abstract queue calls no queue. *)
LEMMA DestroyStep ==
    ASSUME IInv, task_queue_destroy
    PROVE  IInv' /\ Fifo!Destroy
<1>1. items' \in [0..(capacity' - 1) -> Tasks \cup {NULL}]
  BY SMT DEF task_queue_destroy
<1>2. IInv'
  BY <1>1 DEF task_queue_destroy, IInv, TypeOK, RingConsistent
<1>3. Contents' = <<>>
  BY DEF task_queue_destroy, Contents
<1>4. QED
  BY <1>2, <1>3 DEF task_queue_destroy, Fifo!Destroy

(* enqueue appends, or refuses for the abstract reasons. *)
LEMMA EnqueueStep ==
    ASSUME IInv, NEW t \in Tasks \cup {NULL}, task_queue_enqueue(t)
    PROVE  IInv' /\ Fifo!Put
<1>1. CASE Return("INVALID_ARGUMENT", NULL) /\ UNCHANGED object
  <2>1. IInv' /\ Contents' = Contents
    BY <1>1, ObjectUnchanged DEF Return
  <2>2. QED
    BY <1>1, <2>1 DEF Fifo!Put, Fifo!Refuse, Return, object
<1>2. CASE /\ ~Malformed /\ task_queue_is_full
           /\ Return("FULL", NULL) /\ UNCHANGED object
  <2>1. IInv' /\ Contents' = Contents
    BY <1>2, ObjectUnchanged DEF Return
  <2>2. Len(Contents) = capacity /\ capacity > 0
    BY <1>2, ContentsType DEF Malformed, task_queue_is_full, IInv, TypeOK
  <2>3. QED
    BY <1>2, <2>1, <2>2 DEF Fifo!Put, Fifo!Refuse, Return, object
<1>3. CASE /\ t # NULL /\ ~Malformed /\ ~task_queue_is_full
           /\ items' = [items EXCEPT ![tail] = t]
           /\ tail' = Advance(tail)
           /\ size' = size + 1
           /\ Return("OK", NULL)
           /\ UNCHANGED <<capacity, head>>
  <2>1. t \in Tasks
    BY <1>3
  <2>2. IInv' /\ Contents' = Append(Contents, t)
    BY <1>3, <2>1, EnqueueStores
  <2>3. Len(Contents) < capacity
    BY <1>3, ContentsType DEF Malformed, task_queue_is_full, IInv, TypeOK
  <2>4. QED
    BY <1>3, <2>1, <2>2, <2>3 DEF Fifo!Put, Return
<1>4. QED
  BY <1>1, <1>2, <1>3 DEF task_queue_enqueue

(* The NULL-slot branches of dequeue and peek are dead: a live queue with  *)
(* tasks in it has one at its head.                                        *)
LEMMA OldestPresent ==
    ASSUME IInv
    PROVE  /\ NoOldest => capacity = 0
           /\ ~NoOldest => capacity > 0
           /\ task_queue_is_empty <=> Contents = <<>>
<1>1. NoOldest => capacity = 0
  BY ContentsType DEF NoOldest, Malformed, IInv, TypeOK
<1>2. ~NoOldest => capacity > 0
  BY DEF NoOldest, Malformed, IInv, TypeOK
<1>3. task_queue_is_empty <=> Contents = <<>>
  BY ContentsType, EmptyContents DEF task_queue_is_empty, IInv, TypeOK
<1>4. QED
  BY <1>1, <1>2, <1>3

(* dequeue takes the oldest task, or refuses for the abstract reasons. *)
LEMMA DequeueStep ==
    ASSUME IInv, task_queue_dequeue
    PROVE  IInv' /\ Fifo!Take
<1>1. CASE NoOldest /\ Return("INVALID_ARGUMENT", NULL) /\ UNCHANGED object
  <2>1. IInv' /\ Contents' = Contents
    BY <1>1, ObjectUnchanged DEF Return
  <2>2. QED
    BY <1>1, <2>1, OldestPresent DEF Fifo!Take, Fifo!Refuse, Return, object
<1>2. CASE /\ ~NoOldest /\ task_queue_is_empty
           /\ Return("EMPTY", NULL) /\ UNCHANGED object
  <2>1. IInv' /\ Contents' = Contents
    BY <1>2, ObjectUnchanged DEF Return
  <2>2. QED
    BY <1>2, <2>1, OldestPresent DEF Fifo!Take, Fifo!Refuse, Return, object
<1>3. CASE /\ ~NoOldest /\ ~task_queue_is_empty
           /\ Return("OK", items[head])
           /\ items' = Cleared(head)
           /\ head' = Advance(head)
           /\ size' = size - 1
           /\ UNCHANGED <<capacity, tail>>
  <2>1. /\ IInv' /\ Contents' = Tail(Contents)
        /\ Contents # <<>> /\ items[head] = Head(Contents)
    BY <1>3, DequeueRemoves
  <2>2. QED
    BY <1>3, <2>1 DEF Fifo!Take, Return
<1>4. QED
  BY <1>1, <1>2, <1>3 DEF task_queue_dequeue

(* peek shows the oldest task and changes nothing. *)
LEMMA PeekStep ==
    ASSUME IInv, task_queue_peek
    PROVE  IInv' /\ Fifo!Peek
<1>1. UNCHANGED object
  BY DEF task_queue_peek
<1>2. CASE Return("INVALID_ARGUMENT", NULL) /\ NoOldest
  <2>1. IInv' /\ Contents' = Contents
    BY <1>1, <1>2, ObjectUnchanged DEF Return
  <2>2. QED
    BY <1>1, <1>2, <2>1, OldestPresent DEF Fifo!Peek, Fifo!Refuse, Return, object
<1>3. CASE ~NoOldest /\ task_queue_is_empty /\ Return("EMPTY", NULL)
  <2>1. IInv' /\ Contents' = Contents
    BY <1>1, <1>3, ObjectUnchanged DEF Return
  <2>2. QED
    BY <1>1, <1>3, <2>1, OldestPresent DEF Fifo!Peek, Fifo!Refuse, Return, object
<1>4. CASE ~NoOldest /\ ~task_queue_is_empty /\ Return("OK", items[head])
  <2>1. /\ Contents # <<>> /\ Contents \in Seq(Tasks)
        /\ items[head] = Contents[1] /\ Contents[1] \in Tasks
    <3>1. size > 0 /\ 1 \in 1..size
      BY <1>4 DEF task_queue_is_empty, IInv, TypeOK
    <3>2. QED
      BY <1>4, <3>1, OldestPresent, ContentsType
  <2>2. IInv' /\ Contents' = Contents
    BY <1>1, <1>4, <2>1, ObjectUnchanged DEF Return
  <2>3. items[head] = Head(Contents)
    BY <2>1
  <2>4. QED
    BY <1>1, <1>4, <2>1, <2>2, <2>3 DEF Fifo!Peek, Return, object
<1>5. QED
  BY <1>2, <1>3, <1>4 DEF task_queue_peek

-----------------------------------------------------------------------------
(* A zero-initialised object satisfies the invariant. *)
LEMMA InitInv == Init => IInv
BY NoArray DEF Init

(* A step of the ring buffer keeps the invariant and is a step of the      *)
(* abstract queue, or leaves it unchanged.                                 *)
LEMMA Step == IInv /\ [Next]_vars => IInv' /\ [Fifo!Next]_(Fifo!vars)
<1> SUFFICES ASSUME IInv, [Next]_vars
             PROVE  IInv' /\ [Fifo!Next]_(Fifo!vars)
  OBVIOUS
<1>1. ASSUME NEW c \in Capacities, task_queue_init(c)
      PROVE  IInv' /\ Fifo!Next
  BY <1>1, InitStep DEF Fifo!Next
<1>2. CASE task_queue_destroy
  BY <1>2, DestroyStep DEF Fifo!Next
<1>3. ASSUME NEW t \in Tasks \cup {NULL}, task_queue_enqueue(t)
      PROVE  IInv' /\ Fifo!Next
  BY <1>3, EnqueueStep DEF Fifo!Next
<1>4. CASE task_queue_dequeue
  BY <1>4, DequeueStep DEF Fifo!Next
<1>5. CASE task_queue_peek
  BY <1>5, PeekStep DEF Fifo!Next
<1>6. CASE UNCHANGED vars
  <2>1. UNCHANGED object /\ UNCHANGED result
    BY <1>6 DEF vars, object
  <2>2. IInv' /\ Contents' = Contents
    BY <2>1, ObjectUnchanged DEF IInv, TypeOK
  <2>3. QED
    BY <2>1, <2>2 DEF Fifo!vars, object
<1>7. QED
  BY <1>1, <1>2, <1>3, <1>4, <1>5, <1>6 DEF Next

(* After any sequence of calls the fields of a task queue have their types *)
(* and the indices of a live queue are within its array.                   *)
THEOREM TypeCorrect == Spec => []TypeOK
<1>1. Init => IInv
  BY InitInv
<1>2. IInv /\ [Next]_vars => IInv'
  BY Step
<1>3. IInv => TypeOK
  BY DEF IInv
<1>4. QED
  BY <1>1, <1>2, <1>3, PTL DEF Spec

(* After any sequence of calls head, tail, size and the cleared slots      *)
(* agree: task_queue_dequeue and task_queue_peek never meet a NULL slot.   *)
THEOREM RingIsConsistent == Spec => []RingConsistent
<1>1. Init => IInv
  BY InitInv
<1>2. IInv /\ [Next]_vars => IInv'
  BY Step
<1>3. IInv => RingConsistent
  BY DEF IInv
<1>4. QED
  BY <1>1, <1>2, <1>3, PTL DEF Spec

(* The ring buffer of task_queue.c implements the bounded first-in         *)
(* first-out queue of task_queue.h, for every capacity.                    *)
THEOREM RingImplementsFifo == Spec => ImplementsFifo
<1>1. Init => IInv /\ Fifo!Init
  <2>1. Init => IInv
    BY InitInv
  <2>2. Init => Fifo!Init
    BY EmptyContents DEF Init, Fifo!Init
  <2>3. QED
    BY <2>1, <2>2
<1>2. IInv /\ [Next]_vars => IInv' /\ [Fifo!Next]_(Fifo!vars)
  BY Step
<1>3. QED
  BY <1>1, <1>2, PTL DEF Spec, ImplementsFifo, Fifo!Spec
=============================================================================
