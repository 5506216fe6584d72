----------------------- MODULE MCConcurrentTaskQueue -----------------------
(* ConcurrentTaskQueue for TLC. *)
EXTENDS ConcurrentTaskQueue, TLC

CONSTANTS p1, p2, c1, c2

(* Any thread calls any function: a thread that inserts may be the one that *)
(* takes the task a sleeping consumer was just woken for.                   *)
AllOperations == [t \in Threads |->
    {"enqueue", "try_enqueue", "dequeue", "try_dequeue", "try_peek", "shutdown",
     "null"}]

(* Blocking calls, and a shutdown that may never come. *)
Blocking == [t \in Threads |->
    CASE t = p1 -> {"enqueue"}
      [] t = p2 -> {"enqueue", "shutdown"}
      [] t \in {c1, c2} -> {"dequeue"}]

Symmetry == Permutations(Threads) \cup Permutations(Tasks)
=============================================================================
