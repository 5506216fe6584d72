--------------------- MODULE SchedulerResources_proofs ---------------------
(***************************************************************************)
(* Nothing is leaked, freed twice or freed under a thread that uses it,    *)
(* and an armed fault strikes once, for any number of workers and however  *)
(* often calls fail and are repeated.                                      *)
(***************************************************************************)
EXTENDS SchedulerResources, WellFoundedInduction, TLAPS

(* What init acquires, and the synchronization of the workers. *)
Core == {The("scheduler"), The("items"), The("queue"), The("mutex"),
         The("not_empty"), The("not_full"), The("lifecycle_mutex"),
         The("lifecycle_condition")}
Sync == {The("worker_mutex"), The("worker_condition")}

(* A heap without misuse in which exactly the parts of the objects in O    *)
(* are allocated.                                                          *)
Owns(h, O) ==
    h = [live |-> UNION {Parts(o) : o \in O}, owned |-> O, misuse |-> FALSE]

(* The handles that are left. *)
Handles == ThreadObjects \cap heap.owned

Fields ==
    /\ call \in {"none", "init", "start", "start_release", "join_release"}
    /\ state \in {"INITIALIZED", "STARTING", "RUNNING", "SHUTTING_DOWN", "STOPPED",
                  "FAILED"}
    /\ step \in Nat \ {0} /\ started_worker_count \in 0..WorkerCount
    /\ thread \in [Workers -> {"none", "running", "exited"}]

(* What is owned during init, after destroy, and during start. *)
Building ==
    call = "init" => /\ ~implementation /\ step <= 9
                     /\ heap.owned = {InitOrder[i] : i \in 1..(step - 1)}

Gone == ~implementation /\ call # "init" => call = "none" /\ heap.owned = {}

Starting ==
    call = "start" =>
        /\ implementation /\ state = "STARTING" /\ step <= 5
        /\ step < 5 => started_worker_count = 0 /\ ~worker_sync_initialized
        /\ step = 1 => heap.owned = Core
        /\ step = 2 => Core \subseteq heap.owned /\ heap.owned \subseteq Core \cup {The("threads")}
        /\ step = 3 => Core \subseteq heap.owned /\ heap.owned \subseteq Core \cup Arrays
        /\ step = 4 => heap.owned = Core \cup Arrays \cup {The("worker_mutex")}
        /\ step = 5 =>
               /\ worker_sync_initialized
               /\ heap.owned = Core \cup Sync \cup Arrays
                                  \cup {Thread(w) : w \in 1..started_worker_count}

(* The arrays are either kept, with the handles not yet joined in them, or *)
(* freed, and then no handle is left.                                      *)
Kept ==
    /\ worker_sync_initialized
    /\ heap.owned = Core \cup Sync \cup Arrays \cup Handles
    /\ \A w \in Workers : Thread(w) \in heap.owned => w <= started_worker_count
Freed ==
    /\ worker_sync_initialized
    /\ heap.owned = Core \cup Sync
    /\ started_worker_count = 0

Releasing ==
    call \in {"start_release", "join_release"} =>
        /\ implementation
        /\ Kept \/ Freed
        /\ all_joined => \A w \in 1..(step - 1) : Thread(w) \notin heap.owned
        /\ ~all_joined => \E w \in 1..(step - 1) : Thread(w) \in heap.owned

Resting ==
    call = "none" /\ implementation =>
        /\ state # "STARTING"
        /\ state = "INITIALIZED" => /\ heap.owned = Core /\ ~worker_sync_initialized
                                    /\ started_worker_count = 0
        /\ state \in {"RUNNING", "SHUTTING_DOWN"} => Kept /\ ThreadObjects \subseteq heap.owned
        /\ state = "FAILED" => (Kept /\ Handles # {}) \/ Freed
        /\ state = "STOPPED" => Freed

(* The handle of a thread is not given up before the thread has exited. *)
RunningOwned == \A w \in Workers : thread[w] = "running" => Thread(w) \in heap.owned

(* The inductive invariant.  OwnershipExact is the first conjunct; that no *)
(* step frees twice, or through freed memory, needs what is owned at every *)
(* step of every call, and that a failed join keeps the arrays.            *)
ResourceInv ==
    /\ Owns(heap, heap.owned)
    /\ Fields /\ Building /\ Gone /\ Starting /\ Releasing /\ Resting
    /\ RunningOwned

-----------------------------------------------------------------------------
(* Acquiring and releasing. *)
LEMMA PartsDisjoint ==
    ASSUME NEW o, NEW x, x # o
    PROVE  Parts(o) \cap Parts(x) = {}
BY DEF Parts

(* A constructor that succeeds adds its object. *)
LEMMA AcquiredOwns ==
    ASSUME NEW h, NEW O, NEW o, Owns(h, O), o \notin O
    PROVE  Owns(Acquired(h, o), O \cup {o})
<1>1. (UNION {Parts(x) : x \in O}) \cup Parts(o) = UNION {Parts(x) : x \in O \cup {o}}
  OBVIOUS
<1>2. h.live = UNION {Parts(x) : x \in O} /\ h.owned = O /\ h.misuse = FALSE
  BY DEF Owns
<1>3. (h.misuse \/ o \in h.owned) = FALSE
  BY <1>2, Zenon
<1>4. Acquired(h, o) = [live |-> UNION {Parts(x) : x \in O \cup {o}},
                        owned |-> O \cup {o}, misuse |-> FALSE]
  BY <1>1, <1>2, <1>3, Zenon DEF Acquired
<1>5. QED
  BY <1>4 DEF Owns

(* A constructor that fails leaves the heap as it was: what it frees again *)
(* was not there before.                                                   *)
LEMMA FailedOwns ==
    ASSUME NEW h, NEW O, NEW o, Owns(h, O), o \notin O,
           NEW g \in FailedConstructor(h, o)
    PROVE  g = h
<1>1. PICK i \in 1..Len(PartOrder(o)) :
          g = [h EXCEPT !.live = (@ \cup Obtained(o, i)) \ Obtained(o, i)]
  BY DEF FailedConstructor
<1>2. Obtained(o, i) \cap h.live = {}
  <2>1. \A x \in O : \A p \in Parts(x) : p[1] = x
    BY DEF Parts
  <2>2. \A p \in Obtained(o, i) : p[1] = o
    BY DEF Obtained
  <2>3. QED
    BY <2>1, <2>2 DEF Owns
<1>3. (h.live \cup Obtained(o, i)) \ Obtained(o, i) = h.live
  BY <1>2
<1>4. QED
  BY <1>1, <1>3 DEF Owns

(* An object that holds no pointer any more, and whose own pointer is in   *)
(* memory that is allocated, can be released.                              *)
LEMMA ReleaseOwns ==
    ASSUME NEW h, NEW O, NEW o, Owns(h, O),
           o \in O => /\ Holder(o) \in O \cup {The("caller")}
                      /\ \A x \in O : Holder(x) # o
    PROVE  Owns(Release(h, o), O \ {o})
<1>1. CASE o \notin O
  <2>1. O \ {o} = O /\ Release(h, o) = h
    BY <1>1 DEF Release, Owns
  <2>2. QED
    BY <2>1
<1>2. CASE o \in O
  <2>1. (UNION {Parts(x) : x \in O}) \ Parts(o) = UNION {Parts(x) : x \in O \ {o}}
    <3>1. \A x \in O \ {o} : Parts(x) \cap Parts(o) = {}
      BY PartsDisjoint
    <3>2. QED
      BY <3>1
  <2>2. O \ ({o} \cup {x \in O : Holder(x) = o}) = O \ {o}
    BY <1>2
  <2>3. Parts(o) \subseteq UNION {Parts(x) : x \in O}
    BY <1>2
  <2>4. h.owned = O /\ h.live = UNION {Parts(x) : x \in O} /\ h.misuse = FALSE
    BY DEF Owns
  <2>5. Release(h, o) = [live |-> h.live \ Parts(o),
                         owned |-> h.owned \ ({o} \cup {x \in h.owned : Holder(x) = o}),
                         misuse |-> FALSE]
    BY <1>2, <2>3, <2>4, Zenon DEF Release
  <2>6. QED
    BY <2>1, <2>2, <2>4, <2>5, Zenon DEF Owns
<1>3. QED
  BY <1>1, <1>2

(* The least-number principle, the form of induction used below. *)
LEMMA LeastNumber ==
    ASSUME NEW T \in SUBSET Nat, T # {}
    PROVE  \E m \in T : \A n \in T : m <= n
<1>1. PICK m \in T : \A n \in T : ~ (<<n, m>> \in OpToRel(<, Nat))
  BY NatLessThanWellFounded, WFMin
<1>2. \A n \in T : ~(n < m)
  BY <1>1 DEF OpToRel
<1>3. QED
  BY <1>2

(* The heap after the first n releases of ReleaseAll. *)
Releases(f, h, objects, n) ==
    f = [i \in 0..n |-> IF i = 0 THEN h ELSE Release(f[i - 1], objects[i])]

LEMMA ReleasesExist ==
    ASSUME NEW h, NEW objects
    PROVE  \A n \in Nat : \E f : Releases(f, h, objects, n)
<1> DEFINE T == {n \in Nat : ~ \E f : Releases(f, h, objects, n)}
<1> SUFFICES ASSUME T # {} PROVE FALSE
  OBVIOUS
<1>1. PICK m \in T : \A n \in T : m <= n
  BY LeastNumber
<1>2. m # 0
  <2> DEFINE f == [i \in 0..0 |-> h]
  <2>1. Releases(f, h, objects, 0)
    BY DEF Releases
  <2>2. QED
    BY <2>1
<1>3. PICK g : Releases(g, h, objects, m - 1)
  BY <1>1, <1>2
<1> DEFINE f == [i \in 0..m |-> IF i = m THEN Release(g[m - 1], objects[m]) ELSE g[i]]
<1>4. \A i \in 0..(m - 1) : g[i] = IF i = 0 THEN h ELSE Release(g[i - 1], objects[i])
  BY <1>3, <1>2 DEF Releases
<1>5. ASSUME NEW i \in 0..m
      PROVE  f[i] = IF i = 0 THEN h ELSE Release(f[i - 1], objects[i])
  <2>1. CASE i = m
    BY <1>2, <2>1
  <2>2. CASE i = 0
    BY <1>2, <1>4, <2>2
  <2>3. CASE i # m /\ i # 0
    <3>1. i \in 0..(m - 1) /\ i - 1 \in 0..m /\ i - 1 # m
      BY <2>3
    <3>2. f[i] = g[i] /\ f[i - 1] = g[i - 1]
      BY <2>3, <3>1
    <3>3. QED
      BY <1>4, <2>3, <3>1, <3>2
  <2>4. QED
    BY <2>1, <2>2, <2>3
<1>6. Releases(f, h, objects, m)
  BY <1>5 DEF Releases
<1>7. QED
  BY <1>1, <1>6

(* Objects released in an order in which every object comes after those    *)
(* whose pointers it holds, and before the one that holds its own.         *)
LEMMA ReleaseAllOwns ==
    ASSUME NEW h, NEW O, NEW objects, Owns(h, O), Len(objects) \in Nat,
           \A i \in 1..Len(objects) :
               objects[i] \in O => Holder(objects[i]) \in O \cup {The("caller")},
           \A i, j \in 1..Len(objects) :
               objects[j] \in O /\ Holder(objects[j]) = objects[i] => j < i,
           \A x \in O, i \in 1..Len(objects) :
               Holder(x) = objects[i] => \E j \in 1..Len(objects) : x = objects[j]
    PROVE  Owns(ReleaseAll(h, objects), O \ {objects[i] : i \in 1..Len(objects)})
<1> DEFINE len == Len(objects)
           Left(n) == O \ {objects[i] : i \in 1..n}
<1>1. PICK f : Releases(f, h, objects, len)
  BY ReleasesExist
<1>2. ReleaseAll(h, objects) =
          LET after == CHOOSE g : Releases(g, h, objects, len) IN after[len]
  BY DEF ReleaseAll, Releases
<1>3. PICK g : Releases(g, h, objects, len) /\ ReleaseAll(h, objects) = g[len]
  BY <1>1, <1>2
<1>4. g[0] = h /\ \A i \in 1..len : g[i] = Release(g[i - 1], objects[i])
  BY <1>3 DEF Releases
<1> DEFINE T == {n \in 0..len : ~Owns(g[n], Left(n))}
<1>5. T = {}
  <2>1. SUFFICES ASSUME T # {} PROVE FALSE
    OBVIOUS
  <2>2. PICK m \in T : \A n \in T : m <= n
    <3>1. T \in SUBSET Nat
      OBVIOUS
    <3> HIDE DEF T
    <3>2. QED
      BY <2>1, <3>1, LeastNumber
  <2>3. Left(0) = O
    OBVIOUS
  <2>4. m \in 1..len
    <3>1. Owns(g[0], Left(0))
      BY <1>4, <2>3
    <3>2. m # 0
      BY <2>2, <3>1
    <3>3. QED
      BY <2>2, <3>2
  <2>5. Owns(g[m - 1], Left(m - 1))
    <3>1. m - 1 \in 0..len /\ ~ (m <= m - 1)
      BY <2>4
    <3>2. QED
      BY <2>2, <3>1
  <2> DEFINE o == objects[m]
  <2>6. Left(m) = Left(m - 1) \ {o}
    <3>1. \A i : i \in 1..m <=> i \in 1..(m - 1) \/ i = m
      BY <2>4
    <3>2. QED
      BY <3>1
  <2>7. ASSUME o \in Left(m - 1)
        PROVE  /\ Holder(o) \in Left(m - 1) \cup {The("caller")}
               /\ \A x \in Left(m - 1) : Holder(x) # o
    <3>1. o \in O
      BY <2>7
    <3>2. ASSUME NEW i \in 1..(m - 1) PROVE Holder(o) # objects[i]
      <4>1. i \in 1..len /\ ~(m < i)
        BY <2>4
      <4>2. QED
        BY <2>4, <3>1, <4>1
    <3>3. ASSUME NEW x \in Left(m - 1) PROVE Holder(x) # o
      <4>1. SUFFICES ASSUME Holder(x) = o PROVE FALSE
        OBVIOUS
      <4>2. PICK j \in 1..len : x = objects[j]
        BY <2>4, <4>1
      <4>3. j < m
        BY <2>4, <4>1, <4>2
      <4>4. j \in 1..(m - 1)
        BY <2>4, <4>2, <4>3
      <4>5. QED
        BY <4>2, <4>4
    <3>4. QED
      BY <2>4, <3>1, <3>2, <3>3
  <2>8. Owns(Release(g[m - 1], o), Left(m - 1) \ {o})
    <3> HIDE DEF Left
    <3>1. QED
      BY <2>5, <2>7, ReleaseOwns
  <2>9. QED
    BY <1>4, <2>2, <2>4, <2>6, <2>8
<1>6. Owns(g[len], Left(len))
  <2>1. len \in 0..len
    OBVIOUS
  <2>2. QED
    BY <1>5, <2>1
<1>7. QED
  BY <1>3, <1>6

-----------------------------------------------------------------------------
(* The objects. *)
LEMMA InitOrderIs ==
    /\ InitOrder = [i \in 1..8 |-> InitOrder[i]] /\ Len(InitOrder) = 8
    /\ InitOrder[1] = The("scheduler") /\ InitOrder[2] = The("items")
    /\ InitOrder[3] = The("queue") /\ InitOrder[4] = The("mutex")
    /\ InitOrder[5] = The("not_empty") /\ InitOrder[6] = The("not_full")
    /\ InitOrder[7] = The("lifecycle_mutex") /\ InitOrder[8] = The("lifecycle_condition")
BY DEF InitOrder, All

LEMMA StartOrderIs ==
    /\ Len(StartOrder) = 4
    /\ StartOrder[1] = The("threads") /\ StartOrder[2] = The("worker_contexts")
    /\ StartOrder[3] = The("worker_mutex") /\ StartOrder[4] = The("worker_condition")
BY DEF StartOrder, All

(* Objects differ if their names do, and threads if their numbers do. *)
LEMMA ObjectsDiffer ==
    /\ \A a, b : The(a) = The(b) => a = b
    /\ \A a, w : The(a) = Thread(w) => a = "thread"
    /\ \A v, w : Thread(v) = Thread(w) => v = w
BY DEF The, Thread

LEMMA CoreIsInitOrder ==
    /\ Core = {InitOrder[i] : i \in 1..8}
    /\ Core = Range(InitOrder)
    /\ \A i, j \in 1..8 : InitOrder[i] = InitOrder[j] => i = j
<1>1. Core = {InitOrder[i] : i \in 1..8}
  BY InitOrderIs DEF Core
<1>2. Range(InitOrder) = {InitOrder[i] : i \in 1..8}
  BY InitOrderIs DEF Range
<1>3. \A i, j \in 1..8 : InitOrder[i] = InitOrder[j] => i = j
  BY InitOrderIs, ObjectsDiffer
<1>4. QED
  BY <1>1, <1>2, <1>3

(* The four groups of objects have nothing in common. *)
LEMMA GroupsDisjoint ==
    /\ Core \cap Sync = {} /\ Core \cap Arrays = {} /\ Sync \cap Arrays = {}
    /\ \A w : Thread(w) \notin Core \cup Sync \cup Arrays
    /\ The("caller") \notin Core \cup Sync \cup Arrays \cup ThreadObjects
<1>1. Core \cap Sync = {} /\ Core \cap Arrays = {} /\ Sync \cap Arrays = {}
  BY ObjectsDiffer DEF Core, Sync, Arrays
<1>2. \A w : Thread(w) \notin Core \cup Sync \cup Arrays
  BY ObjectsDiffer DEF Core, Sync, Arrays
<1>3. The("caller") \notin Core \cup Sync \cup Arrays \cup ThreadObjects
  BY ObjectsDiffer DEF Core, Sync, Arrays, ThreadObjects
<1>4. QED
  BY <1>1, <1>2, <1>3

(* Who holds which pointer. *)
LEMMA HoldersAre ==
    /\ Holder(The("scheduler")) = The("caller")
    /\ \A a \in {"mutex", "not_empty", "not_full"} : Holder(The(a)) = The("queue")
    /\ \A a \in {"items", "queue", "lifecycle_mutex", "lifecycle_condition", "threads",
                   "worker_contexts", "worker_mutex", "worker_condition"} :
           Holder(The(a)) = The("scheduler")
    /\ \A w : Holder(Thread(w)) = The("threads")
BY DEF Holder, The, Thread

(* The holder of an object that init acquires was acquired before it. *)
LEMMA InitHolders ==
    \A k \in 1..8 : \/ Holder(InitOrder[k]) = The("caller")
                    \/ \E m \in 1..(k - 1) : Holder(InitOrder[k]) = InitOrder[m]
BY InitOrderIs, HoldersAre

-----------------------------------------------------------------------------
(* The steps. *)
LEMMA OwnsOwned ==
    ASSUME NEW h, NEW O, Owns(h, O)
    PROVE  h.owned = O /\ Owns(h, h.owned)
BY DEF Owns

(* Init owns what it has acquired so far; a failure gives all of it back,  *)
(* each object before the one that holds its pointer.                      *)
LEMMA InitStep ==
    ASSUME ResourceInv, InitBegins \/ InitAcquires \/ InitPublishes
    PROVE  ResourceInv'
<1>1. /\ Owns(heap, heap.owned)
      /\ Fields /\ Building /\ Gone /\ RunningOwned
  BY DEF ResourceInv
<1>2. CASE InitBegins
  <2>1. /\ call = "none" /\ call' = "init" /\ step' = 1 /\ ~implementation
        /\ UNCHANGED <<heap, implementation, state, worker_sync_initialized,
                       started_worker_count, thread, all_joined>>
    BY <1>2 DEF InitBegins, Enter, Quiet
  <2>2. heap.owned = {} /\ heap'.owned = {}
    BY <1>1, <2>1 DEF Gone
  <2>3. Fields'
    BY <1>1, <2>1 DEF Fields
  <2>4. Building'
    BY <2>1, <2>2 DEF Building
  <2>5. RunningOwned' /\ Owns(heap, heap.owned)'
    BY <1>1, <2>1 DEF RunningOwned, Owns
  <2>6. Gone' /\ Starting' /\ Releasing' /\ Resting'
    BY <2>1 DEF Gone, Starting, Releasing, Resting
  <2>7. QED
    BY <2>3, <2>4, <2>5, <2>6 DEF ResourceInv
<1>3. CASE InitAcquires
  <2>1. /\ call = "init" /\ step <= 8 /\ ~implementation
        /\ UNCHANGED <<implementation, state, worker_sync_initialized,
                       started_worker_count, thread, all_joined>>
        /\ step \in 1..8
    BY <1>1, <1>3, InitOrderIs DEF InitAcquires, Building, Fields
  <2>2. heap.owned = {InitOrder[i] : i \in 1..(step - 1)}
    BY <1>1, <2>1 DEF Building
  <2>3. InitOrder[step] \notin heap.owned
    BY <2>1, <2>2, CoreIsInitOrder
  <2>4. \A w : Thread(w) \notin heap.owned
    BY <2>1, <2>2, CoreIsInitOrder, GroupsDisjoint
  <2>5. \A w \in Workers : thread[w] # "running"
    BY <1>1, <2>4 DEF RunningOwned
  <2>6. RunningOwned'
    BY <2>1, <2>5 DEF RunningOwned
  <2>7. CASE heap' = Acquired(heap, InitOrder[step]) /\ Continue
    <3>1. Owns(heap', heap.owned \cup {InitOrder[step]})
      BY <1>1, <2>3, <2>7, AcquiredOwns
    <3>2. heap'.owned = heap.owned \cup {InitOrder[step]} /\ Owns(heap, heap.owned)'
      BY <3>1, OwnsOwned
    <3>3. call' = "init" /\ step' = step + 1
      BY <2>1, <2>7 DEF Continue
    <3>4. Fields'
      BY <1>1, <2>1, <3>3 DEF Fields
    <3>5. heap'.owned = {InitOrder[i] : i \in 1..(step' - 1)}
      <4>1. step' - 1 = step /\ \A i : i \in 1..step <=> i \in 1..(step - 1) \/ i = step
        BY <2>1, <3>3
      <4>2. QED
        BY <2>2, <3>2, <4>1
    <3>6. Building' /\ Gone' /\ Starting' /\ Releasing' /\ Resting'
      BY <2>1, <3>3, <3>5 DEF Building, Gone, Starting, Releasing, Resting
    <3>7. QED
      BY <2>6, <3>2, <3>4, <3>6 DEF ResourceInv
  <2>8. CASE /\ \E h \in FailedConstructor(heap, InitOrder[step]) :
                    heap' = ReleaseAll(h, Unwinding(step))
             /\ Return
    <3> DEFINE objects == Unwinding(step)
    <3>1. heap' = ReleaseAll(heap, objects)
      BY <1>1, <2>3, <2>8, FailedOwns
    <3>2. Len(objects) = step - 1 /\ \A i \in 1..(step - 1) : objects[i] = InitOrder[step - i]
      <4>1. InitOrder \in Seq({InitOrder[i] : i \in 1..8})
        BY InitOrderIs
      <4>2. /\ Len(SubSeq(InitOrder, 1, step - 1)) = step - 1
            /\ \A i \in 1..(step - 1) : SubSeq(InitOrder, 1, step - 1)[i] = InitOrder[i]
        BY <2>1, <4>1, InitOrderIs
      <4>3. QED
        BY <2>1, <4>2 DEF Unwinding, Reverse
    <3>4. ASSUME NEW i \in 1..Len(objects)
          PROVE  Holder(objects[i]) \in heap.owned \cup {The("caller")}
      <4>1. step - i \in 1..8 /\ \A m \in 1..((step - i) - 1) : m \in 1..(step - 1)
        BY <2>1, <3>2
      <4>2. QED
        BY <2>2, <3>2, <4>1, InitHolders
    <3>5. ASSUME NEW i \in 1..Len(objects), NEW j \in 1..Len(objects),
                 Holder(objects[j]) = objects[i]
          PROVE  j < i
      <4>1. objects[j] = InitOrder[step - j] /\ objects[i] = InitOrder[step - i]
            /\ step - j \in 1..8 /\ step - i \in 1..8
        BY <2>1, <3>2
      <4>2. objects[i] # The("caller")
        BY <4>1, CoreIsInitOrder, GroupsDisjoint
      <4>3. PICK m \in 1..((step - j) - 1) : InitOrder[step - i] = InitOrder[m]
        BY <3>5, <4>1, <4>2, InitHolders
      <4>4. m \in 1..8
        BY <4>1, <4>3
      <4>5. m = step - i
        BY <4>1, <4>3, <4>4, CoreIsInitOrder
      <4>6. QED
        BY <2>1, <3>2, <4>3, <4>5
    <3>6. heap.owned = {objects[i] : i \in 1..Len(objects)}
      <4>1. \A k \in 1..(step - 1) : step - k \in 1..(step - 1) /\ step - (step - k) = k
        BY <2>1
      <4>2. QED
        BY <2>2, <3>2, <4>1
    <3>7. Owns(heap', heap.owned \ {objects[i] : i \in 1..Len(objects)})
      <4>1. Len(objects) \in Nat
        BY <2>1, <3>2
      <4> HIDE DEF objects
      <4>2. QED
        BY <1>1, <3>1, <3>4, <3>5, <3>6, <4>1, ReleaseAllOwns
    <3>8. heap'.owned = {} /\ Owns(heap, heap.owned)'
      BY <3>6, <3>7, OwnsOwned
    <3>9. call' = "none" /\ step' = 1
      BY <2>8 DEF Return
    <3>10. Fields'
      BY <1>1, <2>1, <3>9 DEF Fields
    <3>11. Building' /\ Gone' /\ Starting' /\ Releasing' /\ Resting'
      BY <2>1, <3>8, <3>9 DEF Building, Gone, Starting, Releasing, Resting
    <3>12. QED
      BY <2>6, <3>8, <3>10, <3>11 DEF ResourceInv
  <2>9. QED
    BY <1>3, <2>7, <2>8 DEF InitAcquires
<1>4. CASE InitPublishes
  <2>1. /\ call = "init" /\ step > 8 /\ implementation' = TRUE /\ state' = "INITIALIZED"
        /\ worker_sync_initialized' = FALSE /\ started_worker_count' = 0
        /\ thread' = [w \in Workers |-> "none"]
        /\ call' = "none" /\ step' = 1 /\ UNCHANGED heap
    BY <1>4, InitOrderIs DEF InitPublishes, Return
  <2>2. step = 9
    BY <1>1, <2>1 DEF Building, Fields
  <2>3. heap'.owned = Core
    BY <1>1, <2>1, <2>2, CoreIsInitOrder DEF Building
  <2>4. Fields'
    BY <2>1, ResourcesAssumption DEF Fields
  <2>5. RunningOwned' /\ Owns(heap, heap.owned)'
    BY <1>1, <2>1 DEF RunningOwned, Owns
  <2>6. Building' /\ Gone' /\ Starting' /\ Releasing' /\ Resting'
    BY <2>1, <2>3 DEF Building, Gone, Starting, Releasing, Resting
  <2>7. QED
    BY <2>4, <2>5, <2>6 DEF ResourceInv
<1>5. QED
  BY <1>2, <1>3, <1>4

(* The arrays are freed: by a start that gives back what it acquired, the  *)
(* mutex too if it has it, and when the last handle has been joined.       *)
LEMMA ArraysReleased ==
    ASSUME NEW O, Owns(heap, O), Core \subseteq O, O \subseteq Core \cup Sync \cup Arrays,
           NEW names \in {<<"worker_contexts", "threads">>, StartUnwinding}
    PROVE  Owns(ReleaseAll(heap, All(names)),
                O \ (Arrays \cup (IF names = StartUnwinding THEN {The("worker_mutex")}
                                  ELSE {})))
<1> DEFINE objects == All(names)
<1>1. \A x \in O : Holder(x) \in {The("caller"), The("queue"), The("scheduler")}
  BY HoldersAre DEF Core, Sync, Arrays
<1>2. The("scheduler") \in O
  BY DEF Core
<1>3. \/ /\ Len(objects) = 2 /\ objects[1] = The("worker_contexts")
         /\ objects[2] = The("threads") /\ names # StartUnwinding
      \/ /\ Len(objects) = 3 /\ objects[1] = The("worker_mutex")
         /\ objects[2] = The("worker_contexts") /\ objects[3] = The("threads")
         /\ names = StartUnwinding
  BY DEF All, StartUnwinding
<1>4. ASSUME NEW i \in 1..Len(objects)
      PROVE  /\ Holder(objects[i]) = The("scheduler")
             /\ objects[i] \notin {The("caller"), The("queue"), The("scheduler")}
  BY <1>3, HoldersAre, ObjectsDiffer
<1>5. Owns(ReleaseAll(heap, objects), O \ {objects[i] : i \in 1..Len(objects)})
  <2>1. Len(objects) \in Nat
    BY <1>3
  <2>2. \A i, j \in 1..Len(objects) :
            objects[j] \in O /\ Holder(objects[j]) = objects[i] => j < i
    BY <1>4
  <2>3. \A x \in O, i \in 1..Len(objects) :
            Holder(x) = objects[i] => \E j \in 1..Len(objects) : x = objects[j]
    BY <1>1, <1>4
  <2>4. \A i \in 1..Len(objects) :
            objects[i] \in O => Holder(objects[i]) \in O \cup {The("caller")}
    BY <1>2, <1>4
  <2> HIDE DEF objects
  <2>5. QED
    BY <2>1, <2>2, <2>3, <2>4, ReleaseAllOwns
<1>6. {objects[i] : i \in 1..Len(objects)}
          = Arrays \cup (IF names = StartUnwinding THEN {The("worker_mutex")} ELSE {})
  <2>1. CASE names = StartUnwinding
    <3>1. {objects[i] : i \in 1..3} = {objects[1], objects[2], objects[3]}
      OBVIOUS
    <3>2. QED
      BY <1>3, <2>1, <3>1 DEF Arrays
  <2>2. CASE names # StartUnwinding
    <3>1. {objects[i] : i \in 1..2} = {objects[1], objects[2]}
      OBVIOUS
    <3>2. QED
      BY <1>3, <2>2, <3>1 DEF Arrays
  <2>3. QED
    BY <2>1, <2>2
<1>7. QED
  BY <1>5, <1>6

(* The steps of start up to the first thread.  No thread runs yet. *)
LEMMA StartStep ==
    ASSUME ResourceInv, StartBegins \/ StartAllocates \/ StartSynchronizes
    PROVE  ResourceInv'
<1>1. /\ Owns(heap, heap.owned)
      /\ Fields /\ Gone /\ Starting /\ Resting /\ RunningOwned
  BY DEF ResourceInv
<1>2. CASE StartBegins
  <2>1. /\ call = "none" /\ implementation /\ state = "INITIALIZED"
        /\ call' = "start" /\ step' = 1 /\ state' = "STARTING"
        /\ UNCHANGED <<heap, implementation, worker_sync_initialized,
                       started_worker_count, thread, all_joined>>
    BY <1>2 DEF StartBegins, Enter, Quiet
  <2>2. heap.owned = Core /\ ~worker_sync_initialized /\ started_worker_count = 0
    BY <1>1, <2>1 DEF Resting
  <2>3. Fields'
    BY <1>1, <2>1 DEF Fields
  <2>4. RunningOwned' /\ Owns(heap, heap.owned)'
    BY <1>1, <2>1 DEF RunningOwned, Owns
  <2>5. Building' /\ Gone' /\ Starting' /\ Releasing' /\ Resting'
    BY <2>1, <2>2 DEF Building, Gone, Starting, Releasing, Resting
  <2>6. QED
    BY <2>3, <2>4, <2>5 DEF ResourceInv
<1>3. CASE StartAllocates
  <2>1. /\ call = "start" /\ step \in {1, 2} /\ implementation /\ state = "STARTING"
        /\ call' = "start" /\ step' = step + 1
        /\ started_worker_count = 0 /\ ~worker_sync_initialized
        /\ Core \subseteq heap.owned
        /\ heap.owned \subseteq IF step = 1 THEN Core ELSE Core \cup {The("threads")}
        /\ UNCHANGED <<implementation, state, worker_sync_initialized,
                       started_worker_count, thread, all_joined>>
    BY <1>1, <1>3 DEF StartAllocates, Starting, Continue
  <2>2. StartOrder[step] = IF step = 1 THEN The("threads") ELSE The("worker_contexts")
    BY <2>1, StartOrderIs
  <2>3. StartOrder[step] \notin heap.owned
    BY <2>1, <2>2, GroupsDisjoint, ObjectsDiffer DEF Arrays
  <2>4. /\ Owns(heap, heap.owned)'
        /\ heap'.owned = heap.owned \/ heap'.owned = heap.owned \cup {StartOrder[step]}
    <3>1. CASE UNCHANGED heap
      BY <1>1, <3>1
    <3>2. CASE heap' = Acquired(heap, StartOrder[step])
      BY <1>1, <2>3, <3>2, AcquiredOwns, OwnsOwned
    <3>3. QED
      BY <1>3, <3>1, <3>2 DEF StartAllocates
  <2>5. /\ Core \subseteq heap'.owned
        /\ heap'.owned \subseteq IF step = 1 THEN Core \cup {The("threads")} ELSE Core \cup Arrays
    BY <2>1, <2>2, <2>4 DEF Arrays
  <2>6. Fields'
    BY <1>1, <2>1 DEF Fields
  <2>7. RunningOwned'
    BY <1>1, <2>1, <2>4 DEF RunningOwned
  <2>8. Building' /\ Gone' /\ Releasing' /\ Resting'
    BY <2>1 DEF Building, Gone, Releasing, Resting
  <2>9. Starting'
    BY <2>1, <2>5 DEF Starting
  <2>10. QED
    BY <2>4, <2>6, <2>7, <2>8, <2>9 DEF ResourceInv
<1>4. CASE StartSynchronizes
  <2>1. /\ call = "start" /\ step \in {3, 4} /\ implementation /\ state = "STARTING"
        /\ started_worker_count = 0 /\ ~worker_sync_initialized
        /\ UNCHANGED <<implementation, started_worker_count, thread, all_joined>>
    BY <1>1, <1>4 DEF StartSynchronizes, Starting
  <2>2. /\ Core \subseteq heap.owned
        /\ step = 3 => heap.owned \subseteq Core \cup Arrays
        /\ step = 4 => heap.owned = Core \cup Arrays \cup {The("worker_mutex")}
    BY <1>1, <2>1 DEF Starting
  <2>3. StartOrder[step] = IF step = 3 THEN The("worker_mutex") ELSE The("worker_condition")
    BY <2>1, StartOrderIs
  <2>4. StartOrder[step] \notin heap.owned
    <3>1. StartOrder[step] \in Sync
      BY <2>3 DEF Sync
    <3>2. The("worker_condition") # The("worker_mutex")
      BY ObjectsDiffer
    <3>3. QED
      BY <2>1, <2>2, <2>3, <3>1, <3>2, GroupsDisjoint
  <2>5. \A w \in Workers : thread[w] # "running"
    <3>1. \A w : Thread(w) \notin heap.owned
      BY <2>1, <2>2, GroupsDisjoint DEF Sync
    <3>2. QED
      BY <1>1, <3>1 DEF RunningOwned
  <2>6. RunningOwned'
    BY <2>1, <2>5 DEF RunningOwned
  <2>7. CASE /\ heap' = Acquired(heap, StartOrder[step]) /\ Continue /\ UNCHANGED state
             /\ step = 3 => Arrays \subseteq heap.owned /\ UNCHANGED worker_sync_initialized
             /\ step = 4 => worker_sync_initialized' = TRUE
    <3>1. Owns(heap, heap.owned)' /\ heap'.owned = heap.owned \cup {StartOrder[step]}
      BY <1>1, <2>4, <2>7, AcquiredOwns, OwnsOwned
    <3>2. call' = "start" /\ step' = step + 1
      BY <2>1, <2>7 DEF Continue
    <3>3. Fields'
      BY <1>1, <2>1, <2>7, <3>2 DEF Fields
    <3>4. Building' /\ Gone' /\ Releasing' /\ Resting'
      BY <2>1, <3>2 DEF Building, Gone, Releasing, Resting
    <3>5. CASE step = 3
      <4>1. heap'.owned = Core \cup Arrays \cup {The("worker_mutex")}
        BY <2>2, <2>3, <2>7, <3>1, <3>5
      <4>2. Starting'
        BY <2>1, <2>7, <3>2, <3>5, <4>1 DEF Starting
      <4>3. QED
        BY <2>6, <3>1, <3>3, <3>4, <4>2 DEF ResourceInv
    <3>6. CASE step = 4
      <4>1. heap'.owned = Core \cup Sync \cup Arrays
                              \cup {Thread(w) : w \in 1..started_worker_count'}
        <5>1. {Thread(w) : w \in 1..started_worker_count'} = {}
          BY <2>1
        <5>2. QED
          BY <2>2, <2>3, <3>1, <3>6, <5>1 DEF Sync
      <4>2. Starting'
        BY <2>1, <2>7, <3>2, <3>6, <4>1 DEF Starting
      <4>3. QED
        BY <2>6, <3>1, <3>3, <3>4, <4>2 DEF ResourceInv
    <3>7. QED
      BY <2>1, <3>5, <3>6
  <2>8. ASSUME NEW names \in {<<"worker_contexts", "threads">>, StartUnwinding},
               StartGivesUp(heap, names),
               step = 3 => names # StartUnwinding,
               step = 4 => names = StartUnwinding
        PROVE  ResourceInv'
    <3>1. Owns(heap', heap.owned \ (Arrays \cup
                   (IF names = StartUnwinding THEN {The("worker_mutex")} ELSE {})))
      <4>1. heap.owned \subseteq Core \cup Sync \cup Arrays
        BY <2>1, <2>2 DEF Sync
      <4>2. QED
        BY <1>1, <2>2, <2>8, <4>1, ArraysReleased DEF StartGivesUp
    <3>2. heap.owned \ (Arrays \cup
              (IF names = StartUnwinding THEN {The("worker_mutex")} ELSE {})) = Core
      <4>1. Core \cap Arrays = {} /\ The("worker_mutex") \notin Core
        BY GroupsDisjoint DEF Sync
      <4>2. CASE step = 3
        BY <2>2, <2>8, <4>1, <4>2
      <4>3. CASE step = 4
        BY <2>2, <2>8, <4>1, <4>3
      <4>4. QED
        BY <2>1, <4>2, <4>3
    <3>3. heap'.owned = Core /\ Owns(heap, heap.owned)'
      BY <3>1, <3>2, OwnsOwned
    <3>4. /\ state' = "INITIALIZED" /\ call' = "none" /\ step' = 1
          /\ UNCHANGED worker_sync_initialized
      BY <2>8 DEF StartGivesUp, Return
    <3>5. Fields'
      BY <1>1, <2>1, <3>4 DEF Fields
    <3>6. Building' /\ Gone' /\ Starting' /\ Releasing' /\ Resting'
      BY <2>1, <3>3, <3>4 DEF Building, Gone, Starting, Releasing, Resting
    <3>7. QED
      BY <2>6, <3>3, <3>5, <3>6 DEF ResourceInv
  <2>9. \A h \in FailedConstructor(heap, StartOrder[step]) : h = heap
    BY <1>1, <2>4, FailedOwns
  <2>10. <<"worker_contexts", "threads">> # StartUnwinding
    BY DEF StartUnwinding
  <2>11. \/ /\ heap' = Acquired(heap, StartOrder[step]) /\ Continue /\ UNCHANGED state
            /\ step = 3 => Arrays \subseteq heap.owned /\ UNCHANGED worker_sync_initialized
            /\ step = 4 => worker_sync_initialized' = TRUE
         \/ step = 3 /\ StartGivesUp(heap, <<"worker_contexts", "threads">>)
         \/ step = 4 /\ StartGivesUp(heap, StartUnwinding)
    <3>1. \A names : (\E h \in FailedConstructor(heap, StartOrder[step]) : StartGivesUp(h, names))
                        => StartGivesUp(heap, names)
      BY <2>9, Zenon
    <3>2. CASE step = 3
      BY <1>4, <3>1, <3>2 DEF StartSynchronizes
    <3>3. CASE step = 4
      BY <1>4, <3>1, <3>3 DEF StartSynchronizes
    <3>4. QED
      BY <2>1, <3>2, <3>3
  <2>12. CASE step = 3 /\ StartGivesUp(heap, <<"worker_contexts", "threads">>)
    BY <2>8, <2>10, <2>12
  <2>13. CASE step = 4 /\ StartGivesUp(heap, StartUnwinding)
    BY <2>8, <2>13
  <2>14. QED
    BY <2>7, <2>11, <2>12, <2>13
<1>5. QED
  BY <1>2, <1>3, <1>4

(* Start creates the threads in order, each after the handles before it. *)
LEMMA ThreadStep ==
    ASSUME ResourceInv, StartCreates \/ StartFinishes
    PROVE  ResourceInv'
<1>1. /\ Owns(heap, heap.owned)
      /\ Fields /\ Gone /\ Starting /\ RunningOwned
  BY DEF ResourceInv
<1> DEFINE handles(n) == {Thread(w) : w \in 1..n}
<1>2. /\ call = "start" /\ step = 5 /\ implementation /\ state = "STARTING"
      /\ worker_sync_initialized
      /\ heap.owned = Core \cup Sync \cup Arrays \cup handles(started_worker_count)
  <2>1. call = "start" /\ (step > 4 \/ started_worker_count = WorkerCount)
    BY StartOrderIs DEF StartCreates, StartFinishes
  <2>2. step = 5
    BY <1>1, <2>1, ResourcesAssumption DEF Starting, Fields
  <2>3. QED
    BY <1>1, <2>1, <2>2 DEF Starting
<1>3. \A n \in Nat, w \in Nat : Thread(w) \in Core \cup Sync \cup Arrays \cup handles(n)
                                  <=> w \in 1..n
  BY ObjectsDiffer, GroupsDisjoint
<1>4. Kept
  <2>1. handles(started_worker_count) \subseteq ThreadObjects
    BY <1>1, ResourcesAssumption DEF ThreadObjects, Workers, Fields
  <2>2. heap.owned = Core \cup Sync \cup Arrays \cup Handles
    <3>1. handles(started_worker_count) \subseteq Handles
      BY <1>2, <2>1 DEF Handles
    <3>2. Handles \subseteq heap.owned
      BY DEF Handles
    <3>3. QED
      BY <1>2, <3>1, <3>2
  <2>3. \A w \in Workers : Thread(w) \in heap.owned => w <= started_worker_count
    BY <1>1, <1>2, <1>3 DEF Workers, Fields
  <2>4. QED
    BY <1>2, <2>2, <2>3 DEF Kept
<1>5. ASSUME BeginRelease("start_release"),
             UNCHANGED <<heap, implementation, state, worker_sync_initialized,
                         started_worker_count, thread>>
      PROVE  ResourceInv'
  <2>1. call' = "start_release" /\ step' = 1 /\ all_joined' = TRUE
    BY <1>5 DEF BeginRelease
  <2>2. Kept'
    BY <1>4, <1>5 DEF Kept, Handles
  <2>3. Fields'
    BY <1>1, <1>5, <2>1 DEF Fields
  <2>4. Owns(heap, heap.owned)' /\ RunningOwned'
    BY <1>1, <1>5 DEF Owns, RunningOwned
  <2>5. Building' /\ Gone' /\ Starting' /\ Resting'
    BY <1>2, <1>5, <2>1 DEF Building, Gone, Starting, Resting
  <2>6. Releasing'
    BY <1>2, <1>5, <2>1, <2>2 DEF Releasing
  <2>7. QED
    BY <2>3, <2>4, <2>5, <2>6 DEF ResourceInv
<1>6. CASE StartCreates
  <2> DEFINE w == started_worker_count + 1
  <2>1. w \in Workers /\ UNCHANGED <<implementation, state, worker_sync_initialized>>
    BY <1>1, <1>6 DEF StartCreates, Fields, Workers
  <2>2. Thread(w) \notin heap.owned
    BY <1>1, <1>2, <1>3 DEF Fields
  <2>3. CASE /\ heap' = Acquired(heap, Thread(w))
             /\ thread' = [thread EXCEPT ![w] = "running"]
             /\ started_worker_count' = w
             /\ UNCHANGED <<call, step, all_joined>>
    <3>1. Owns(heap, heap.owned)' /\ heap'.owned = heap.owned \cup {Thread(w)}
      BY <1>1, <2>2, <2>3, AcquiredOwns, OwnsOwned
    <3>2. heap'.owned = Core \cup Sync \cup Arrays \cup handles(started_worker_count')
      <4>1. \A i : i \in 1..w <=> i \in 1..started_worker_count \/ i = w
        BY <1>1 DEF Fields
      <4>2. handles(w) = handles(started_worker_count) \cup {Thread(w)}
        BY <4>1
      <4>3. QED
        BY <1>2, <2>3, <3>1, <4>2
    <3>3. Fields'
      BY <1>1, <2>1, <2>3 DEF Fields, Workers
    <3>4. RunningOwned'
      BY <1>1, <2>1, <2>3, <3>1 DEF RunningOwned, Fields
    <3>5. Building' /\ Gone' /\ Releasing' /\ Resting'
      BY <1>2, <2>1, <2>3 DEF Building, Gone, Releasing, Resting
    <3>6. Starting'
      BY <1>2, <2>1, <2>3, <3>2 DEF Starting
    <3>7. QED
      BY <3>1, <3>3, <3>4, <3>5, <3>6 DEF ResourceInv
  <2>4. CASE /\ heap' \in FailedConstructor(heap, Thread(w))
             /\ BeginRelease("start_release")
             /\ UNCHANGED <<thread, started_worker_count>>
    <3>1. UNCHANGED heap
      BY <1>1, <2>2, <2>4, FailedOwns
    <3>2. QED
      BY <1>5, <2>1, <2>4, <3>1
  <2>5. QED
    BY <1>6, <2>3, <2>4 DEF StartCreates
<1>7. CASE StartFinishes
  <2>1. /\ started_worker_count = WorkerCount
        /\ UNCHANGED <<heap, implementation, worker_sync_initialized,
                       started_worker_count, thread>>
    BY <1>7 DEF StartFinishes
  <2>2. CASE state' = "RUNNING" /\ Return
    <3>1. call' = "none" /\ step' = 1
      BY <2>2 DEF Return
    <3>2. ThreadObjects \subseteq heap.owned
      BY <1>2, <2>1 DEF ThreadObjects, Workers
    <3>3. Kept'
      BY <1>4, <2>1 DEF Kept, Handles
    <3>4. Fields'
      BY <1>1, <2>1, <2>2, <3>1 DEF Fields
    <3>5. Owns(heap, heap.owned)' /\ RunningOwned'
      BY <1>1, <2>1 DEF Owns, RunningOwned
    <3>6. Building' /\ Gone' /\ Starting' /\ Releasing'
      BY <1>2, <2>1, <3>1 DEF Building, Gone, Starting, Releasing
    <3>7. Resting'
      BY <2>1, <2>2, <3>2, <3>3 DEF Resting
    <3>8. QED
      BY <3>4, <3>5, <3>6, <3>7 DEF ResourceInv
  <2>3. CASE BeginRelease("start_release") /\ UNCHANGED state
    BY <1>5, <2>1, <2>3
  <2>4. QED
    BY <1>7, <2>2, <2>3 DEF StartFinishes
<1>8. QED
  BY <1>6, <1>7

(* A step that leaves the heap and the control alone, as the worker that   *)
(* exits, and the fault plan that is configured or reset.                  *)
LEMMA QuietStep ==
    ASSUME ResourceInv,
           UNCHANGED <<heap, implementation, state, worker_sync_initialized,
                       started_worker_count, call, step, all_joined>>,
           \/ UNCHANGED thread
           \/ \E w \in Workers : thread' = [thread EXCEPT ![w] = "exited"]
    PROVE  ResourceInv'
<1>1. /\ Owns(heap, heap.owned)
      /\ Fields /\ Building /\ Gone /\ Starting /\ Releasing /\ Resting /\ RunningOwned
  BY DEF ResourceInv
<1>2. Fields' /\ RunningOwned'
  BY <1>1 DEF Fields, RunningOwned
<1>3. Owns(heap, heap.owned)' /\ Building' /\ Gone' /\ Starting'
  BY <1>1 DEF Owns, Building, Gone, Starting
<1>4. (Kept' <=> Kept) /\ (Freed' <=> Freed) /\ UNCHANGED Handles
  BY DEF Kept, Freed, Handles
<1>5. Releasing' /\ Resting'
  BY <1>1, <1>4 DEF Releasing, Resting
<1>6. QED
  BY <1>2, <1>3, <1>5 DEF ResourceInv

LEMMA ShutdownJoinStep ==
    ASSUME ResourceInv, scheduler_shutdown \/ JoinBegins
    PROVE  ResourceInv'
<1>1. /\ Owns(heap, heap.owned)
      /\ Fields /\ Gone /\ Resting /\ RunningOwned
  BY DEF ResourceInv
<1>2. /\ call = "none" /\ implementation
      /\ UNCHANGED <<heap, implementation, worker_sync_initialized,
                     started_worker_count, thread>>
  BY DEF scheduler_shutdown, JoinBegins, Quiet
<1>3. (Kept' <=> Kept) /\ (Freed' <=> Freed) /\ UNCHANGED Handles
  BY <1>2 DEF Kept, Freed, Handles
<1>4. Owns(heap, heap.owned)' /\ RunningOwned'
  BY <1>1, <1>2 DEF Owns, RunningOwned
<1>5. CASE scheduler_shutdown
  <2>1. state = "RUNNING" /\ state' = "SHUTTING_DOWN" /\ UNCHANGED <<call, step, all_joined>>
    BY <1>5 DEF scheduler_shutdown
  <2>2. Fields'
    BY <1>1, <1>2, <2>1 DEF Fields
  <2>3. Building' /\ Gone' /\ Starting' /\ Releasing'
    BY <1>2, <2>1 DEF Building, Gone, Starting, Releasing
  <2>4. Resting'
    BY <1>1, <1>2, <1>3, <2>1 DEF Resting
  <2>5. QED
    BY <1>4, <2>2, <2>3, <2>4 DEF ResourceInv
<1>6. CASE JoinBegins
  <2>1. /\ state \in {"SHUTTING_DOWN", "FAILED"} /\ UNCHANGED state
        /\ call' = "join_release" /\ step' = 1 /\ all_joined' = TRUE
    BY <1>6 DEF JoinBegins, BeginRelease
  <2>2. Fields'
    BY <1>1, <1>2, <2>1 DEF Fields
  <2>3. Building' /\ Gone' /\ Starting' /\ Resting'
    BY <1>2, <2>1 DEF Building, Gone, Starting, Resting
  <2>4. Kept \/ Freed
    BY <1>1, <1>2, <2>1 DEF Resting
  <2>5. Releasing'
    BY <1>2, <1>3, <2>1, <2>4 DEF Releasing
  <2>6. QED
    BY <1>4, <2>2, <2>3, <2>5 DEF ResourceInv
<1>7. QED
  BY <1>5, <1>6

(* A handle is released once its thread has exited, while the array that   *)
(* holds it is there; it is kept if its join failed.                       *)
LEMMA ReleaseWorkerStep ==
    ASSUME ResourceInv, ReleaseWorker
    PROVE  ResourceInv'
<1>1. /\ Owns(heap, heap.owned)
      /\ Fields /\ Gone /\ Releasing /\ RunningOwned
  BY DEF ResourceInv
<1>2. /\ call \in {"start_release", "join_release"} /\ step <= started_worker_count
      /\ call' = call /\ step' = step + 1
      /\ UNCHANGED <<implementation, state, worker_sync_initialized,
                     started_worker_count, thread>>
  BY DEF ReleaseWorker, Continue
<1>3. step \in Workers /\ started_worker_count # 0
  BY <1>1, <1>2, ResourcesAssumption DEF Fields, Workers
<1>4. implementation /\ Kept
  BY <1>1, <1>2, <1>3 DEF Releasing, Freed
<1>5. all_joined => \A w \in 1..(step - 1) : Thread(w) \notin heap.owned
  BY <1>1, <1>2 DEF Releasing
<1>6. Fields'
  BY <1>1, <1>2 DEF Fields
<1>7. Building' /\ Gone' /\ Starting' /\ Resting'
  BY <1>2, <1>4 DEF Building, Gone, Starting, Resting
<1>8. \A w : w \in 1..(step' - 1) <=> w \in 1..(step - 1) \/ w = step
  BY <1>2, <1>3 DEF Workers
<1>9. ASSUME UNCHANGED heap
      PROVE  Owns(heap, heap.owned)' /\ RunningOwned' /\ Kept' /\ UNCHANGED Handles
  BY <1>1, <1>2, <1>4, <1>9 DEF Owns, RunningOwned, Kept, Handles
<1>10. CASE Thread(step) \notin heap.owned /\ UNCHANGED <<heap, all_joined>>
  <2>1. ~all_joined => \E w \in 1..(step - 1) : Thread(w) \in heap.owned
    BY <1>1, <1>2 DEF Releasing
  <2>2. Releasing'
    BY <1>2, <1>4, <1>5, <1>8, <1>9, <1>10, <2>1 DEF Releasing
  <2>3. QED
    BY <1>6, <1>7, <1>9, <1>10, <2>2 DEF ResourceInv
<1>11. CASE Thread(step) \in heap.owned /\ all_joined' = FALSE /\ UNCHANGED heap
  <2>1. step \in 1..(step' - 1)
    BY <1>8
  <2>2. Releasing'
    BY <1>2, <1>4, <1>9, <1>11, <2>1 DEF Releasing
  <2>3. QED
    BY <1>6, <1>7, <1>9, <1>11, <2>2 DEF ResourceInv
<1>12. CASE /\ Thread(step) \in heap.owned /\ JoinSucceeds(step)
            /\ heap' = Release(heap, Thread(step)) /\ UNCHANGED all_joined
  <2> DEFINE o == Thread(step)
  <2>1. o \notin Core \cup Sync \cup Arrays
    BY GroupsDisjoint
  <2>2. Holder(o) = The("threads") /\ The("threads") \in heap.owned
    BY <1>4, HoldersAre DEF Kept, Arrays
  <2>3. ASSUME NEW x \in heap.owned PROVE Holder(x) # o
    <3>1. Holder(x) \in {The("caller"), The("queue"), The("scheduler"), The("threads")}
      BY <1>4, HoldersAre DEF Kept, Handles, ThreadObjects, Core, Sync, Arrays
    <3>2. QED
      BY <3>1, ObjectsDiffer
  <2>4. Owns(heap', heap.owned \ {o})
    BY <1>1, <1>12, <2>2, <2>3, ReleaseOwns
  <2>5. heap'.owned = heap.owned \ {o} /\ Owns(heap, heap.owned)'
    BY <2>4, OwnsOwned
  <2>6. RunningOwned'
    <3>1. \A w \in Workers : thread[w] = "running" => Thread(w) # o
      BY <1>3, <1>12, ObjectsDiffer DEF JoinSucceeds
    <3>2. QED
      BY <1>1, <1>2, <2>5, <3>1 DEF RunningOwned
  <2>7. Handles' = Handles \ {o}
    BY <2>5 DEF Handles
  <2>8. Kept'
    <3>1. heap'.owned = Core \cup Sync \cup Arrays \cup Handles'
      BY <1>4, <2>1, <2>5, <2>7 DEF Kept
    <3>2. QED
      BY <1>2, <1>4, <2>5, <3>1 DEF Kept
  <2>9. all_joined' => \A w \in 1..(step' - 1) : Thread(w) \notin heap'.owned
    BY <1>5, <1>8, <1>12, <2>5
  <2>10. ~all_joined' => \E w \in 1..(step' - 1) : Thread(w) \in heap'.owned
    <3>1. SUFFICES ASSUME ~all_joined
                   PROVE  \E w \in 1..(step - 1) : Thread(w) \in heap.owned \ {o}
      BY <1>8, <1>12, <2>5
    <3>2. PICK w \in 1..(step - 1) : Thread(w) \in heap.owned
      BY <1>1, <1>2, <3>1 DEF Releasing
    <3>3. w # step
      BY <1>3, <3>2 DEF Workers
    <3>4. QED
      BY <3>2, <3>3, ObjectsDiffer
  <2>11. Releasing'
    BY <1>2, <1>4, <2>8, <2>9, <2>10 DEF Releasing
  <2>12. QED
    BY <1>6, <1>7, <2>5, <2>6, <2>11 DEF ResourceInv
<1>13. QED
  BY <1>10, <1>11, <1>12 DEF ReleaseWorker

(* The arrays go with the last handle, and a scheduler whose arrays are    *)
(* kept is FAILED.                                                         *)
LEMMA ReleaseFinishesStep ==
    ASSUME ResourceInv, ReleaseFinishes
    PROVE  ResourceInv'
<1>1. /\ Owns(heap, heap.owned)
      /\ Fields /\ Gone /\ Releasing /\ RunningOwned
  BY DEF ResourceInv
<1>2. /\ call \in {"start_release", "join_release"} /\ step > started_worker_count
      /\ call' = "none" /\ step' = 1
      /\ state' = IF call = "join_release" /\ The("threads") \notin heap'.owned
                  THEN "STOPPED" ELSE "FAILED"
      /\ UNCHANGED <<implementation, worker_sync_initialized, thread, all_joined>>
  BY DEF ReleaseFinishes, Return
<1>3. implementation /\ (Kept \/ Freed) /\ worker_sync_initialized
  BY <1>1, <1>2 DEF Releasing, Kept, Freed
<1>4. The("threads") \in Arrays /\ The("threads") \notin Core \cup Sync
  BY GroupsDisjoint DEF Arrays
<1>5. Building' /\ Gone' /\ Starting' /\ Releasing'
  BY <1>2, <1>3 DEF Building, Gone, Starting, Releasing
<1>6. CASE MayFree
  <2>1. all_joined
    BY <1>6 DEF MayFree
  <2>2. \A w \in Workers : Thread(w) \notin heap.owned
    <3>1. SUFFICES ASSUME NEW w \in Workers, Thread(w) \in heap.owned PROVE FALSE
      OBVIOUS
    <3>2. Kept
      BY <1>3, <3>1, GroupsDisjoint DEF Freed
    <3>3. w \in 1..(step - 1)
      BY <1>1, <1>2, <3>1, <3>2 DEF Kept, Fields, Workers
    <3>4. QED
      BY <1>1, <1>2, <2>1, <3>1, <3>3 DEF Releasing
  <2>3. heap.owned \in {Core \cup Sync, Core \cup Sync \cup Arrays}
    <3>1. Handles = {}
      BY <2>2 DEF Handles, ThreadObjects
    <3>2. QED
      BY <1>3, <3>1 DEF Kept, Freed
  <2>4. Owns(heap', heap.owned \ Arrays) /\ started_worker_count' = 0
    <3>1. <<"worker_contexts", "threads">> # StartUnwinding
      BY DEF StartUnwinding
    <3>2. /\ heap' = ReleaseAll(heap, All(<<"worker_contexts", "threads">>))
          /\ started_worker_count' = 0
      BY <1>6 DEF ReleaseFinishes, FreeArrays
    <3>3. Core \subseteq heap.owned /\ heap.owned \subseteq Core \cup Sync \cup Arrays
      BY <2>3
    <3>4. QED
      BY <1>1, <3>1, <3>2, <3>3, ArraysReleased
  <2>5. heap'.owned = Core \cup Sync /\ Owns(heap, heap.owned)'
    <3>1. heap.owned \ Arrays = Core \cup Sync
      BY <2>3, GroupsDisjoint
    <3>2. QED
      BY <2>4, <3>1, OwnsOwned
  <2>6. Freed'
    BY <1>2, <1>3, <2>4, <2>5 DEF Freed
  <2>7. Fields'
    BY <1>1, <1>2, <2>4, ResourcesAssumption DEF Fields
  <2>8. RunningOwned'
    BY <1>1, <1>2, <2>2 DEF RunningOwned
  <2>9. Resting'
    BY <1>2, <2>6 DEF Resting
  <2>10. QED
    BY <1>5, <2>5, <2>7, <2>8, <2>9 DEF ResourceInv
<1>7. CASE ~MayFree
  <2>1. ~all_joined /\ UNCHANGED <<heap, started_worker_count>>
    BY <1>7 DEF MayFree, ReleaseFinishes, FreeArrays
  <2>2. PICK w : Thread(w) \in heap.owned
    BY <1>1, <1>2, <2>1 DEF Releasing
  <2>3. Kept
    BY <1>3, <2>2, GroupsDisjoint DEF Freed
  <2>4. Handles # {}
    BY <2>2, <2>3, GroupsDisjoint DEF Kept
  <2>5. state' = "FAILED"
    BY <1>2, <1>4, <2>1, <2>3 DEF Kept
  <2>6. Kept' /\ UNCHANGED Handles
    BY <1>2, <2>1, <2>3 DEF Kept, Handles
  <2>7. Fields'
    BY <1>1, <1>2, <2>1, <2>5 DEF Fields
  <2>8. RunningOwned' /\ Owns(heap, heap.owned)'
    BY <1>1, <1>2, <2>1 DEF RunningOwned, Owns
  <2>9. Resting'
    BY <1>2, <2>4, <2>5, <2>6 DEF Resting
  <2>10. QED
    BY <1>5, <2>7, <2>8, <2>9 DEF ResourceInv
<1>8. QED
  BY <1>6, <1>7

(* Destroy releases everything, the synchronization of the workers first   *)
(* where there is one.                                                     *)
LEMMA DestroyStep ==
    ASSUME ResourceInv, scheduler_destroy
    PROVE  ResourceInv'
<1>1. /\ Owns(heap, heap.owned)
      /\ Fields /\ Resting /\ RunningOwned
  BY DEF ResourceInv
<1>2. /\ call = "none" /\ implementation
      /\ state \in {"INITIALIZED", "STOPPED", "FAILED"}
      /\ Arrays \cap heap.owned = {}
      /\ heap' = ReleaseAll(WorkerSyncReleased, All(DestroyOrder))
      /\ implementation' = FALSE
      /\ UNCHANGED <<state, started_worker_count, thread, call, step, all_joined>>
  BY DEF scheduler_destroy, Quiet
<1>3. heap.owned = IF worker_sync_initialized THEN Core \cup Sync ELSE Core
  <2>1. Arrays # {}
    BY DEF Arrays
  <2>2. ~Kept
    BY <1>2, <2>1 DEF Kept
  <2>3. QED
    BY <1>1, <1>2, <2>2 DEF Resting, Freed
<1>4. Owns(WorkerSyncReleased, Core)
  <2>1. CASE ~worker_sync_initialized
    BY <1>1, <1>3, <2>1 DEF WorkerSyncReleased
  <2>2. CASE worker_sync_initialized
    <3> DEFINE objects == All(<<"worker_condition", "worker_mutex">>)
               O == Core \cup Sync
    <3>1. Owns(heap, O) /\ WorkerSyncReleased = ReleaseAll(heap, objects)
      BY <1>1, <1>3, <2>2 DEF WorkerSyncReleased
    <3>2. /\ Len(objects) = 2 /\ objects[1] = The("worker_condition")
          /\ objects[2] = The("worker_mutex")
      BY DEF All
    <3>3. \A i \in 1..Len(objects) :
              /\ Holder(objects[i]) = The("scheduler")
              /\ objects[i] \notin {The("caller"), The("queue"), The("scheduler")}
      BY <3>2, HoldersAre, ObjectsDiffer
    <3>4. \A x \in O : Holder(x) \in {The("caller"), The("queue"), The("scheduler")}
      BY HoldersAre DEF Core, Sync
    <3>5. The("scheduler") \in O
      BY DEF Core
    <3>6. {objects[i] : i \in 1..Len(objects)} = Sync
      <4>1. {objects[i] : i \in 1..2} = {objects[1], objects[2]}
        OBVIOUS
      <4>2. QED
        BY <3>2, <4>1 DEF Sync
    <3>7. O \ Sync = Core
      BY GroupsDisjoint
    <3>8. Len(objects) \in Nat
      BY <3>2
    <3> HIDE DEF objects, O
    <3>9. Owns(ReleaseAll(heap, objects), O \ {objects[i] : i \in 1..Len(objects)})
      BY <3>1, <3>3, <3>4, <3>5, <3>8, ReleaseAllOwns
    <3>10. QED
      BY <3>1, <3>6, <3>7, <3>9
  <2>3. QED
    BY <2>1, <2>2
<1>5. Owns(heap', {})
  <2> DEFINE objects == All(DestroyOrder)
  <2>1. Len(objects) = 8 /\ \A i \in 1..8 : objects[i] = InitOrder[9 - i]
    <3>1. /\ Len(objects) = 8
          /\ objects[1] = The("lifecycle_condition") /\ objects[2] = The("lifecycle_mutex")
          /\ objects[3] = The("not_full") /\ objects[4] = The("not_empty")
          /\ objects[5] = The("mutex") /\ objects[6] = The("queue")
          /\ objects[7] = The("items") /\ objects[8] = The("scheduler")
      BY DEF All, DestroyOrder
    <3>2. QED
      BY <3>1, InitOrderIs
  <2> HIDE DEF objects
  <2>2. \A i \in 1..8 : Holder(objects[i]) \in Core \cup {The("caller")}
    BY <2>1, InitHolders, CoreIsInitOrder
  <2>3. ASSUME NEW i \in 1..8, NEW j \in 1..8, Holder(objects[j]) = objects[i]
        PROVE  j < i
    <3>1. 9 - i \in 1..8 /\ 9 - j \in 1..8
      OBVIOUS
    <3>2. objects[i] # The("caller")
      BY <2>1, <3>1, CoreIsInitOrder, GroupsDisjoint
    <3>3. PICK m \in 1..((9 - j) - 1) : InitOrder[9 - i] = InitOrder[m]
      BY <2>1, <2>3, <3>1, <3>2, InitHolders
    <3>4. m \in 1..8
      BY <3>1, <3>3
    <3>5. m = 9 - i
      BY <3>1, <3>3, <3>4, CoreIsInitOrder
    <3>6. QED
      BY <3>3, <3>5
  <2>4. Core = {objects[i] : i \in 1..8}
    <3>1. \A k \in 1..8 : 9 - k \in 1..8 /\ 9 - (9 - k) = k
      OBVIOUS
    <3>2. QED
      BY <2>1, <3>1, CoreIsInitOrder
  <2>5. Owns(ReleaseAll(WorkerSyncReleased, objects), Core \ {objects[i] : i \in 1..8})
    BY <1>4, <2>1, <2>2, <2>3, <2>4, ReleaseAllOwns
  <2>6. QED
    BY <1>2, <2>4, <2>5 DEF objects
<1>6. heap'.owned = {} /\ Owns(heap, heap.owned)'
  BY <1>5, OwnsOwned
<1>7. RunningOwned'
  <2>1. \A w : Thread(w) \notin heap.owned
    BY <1>3, GroupsDisjoint
  <2>2. QED
    BY <1>1, <1>2, <2>1 DEF RunningOwned
<1>8. Fields'
  BY <1>1, <1>2 DEF Fields
<1>9. Building' /\ Gone' /\ Starting' /\ Releasing' /\ Resting'
  BY <1>2, <1>6 DEF Building, Gone, Starting, Releasing, Resting
<1>10. QED
  BY <1>6, <1>7, <1>8, <1>9 DEF ResourceInv

-----------------------------------------------------------------------------
(* The invariant holds in every state of every behaviour: along any        *)
(* sequence of failing, repeated and retried calls, heap and control agree *)
(* on what is owned.                                                       *)
THEOREM ResourcesInvariant == Spec => []ResourceInv
<1>1. Init => ResourceInv
  <2>1. SUFFICES ASSUME Init PROVE ResourceInv
    OBVIOUS
  <2>2. Owns(heap, heap.owned) /\ heap.owned = {}
    BY <2>1 DEF Init, Owns
  <2>3. Fields /\ RunningOwned
    BY <2>1, ResourcesAssumption DEF Init, Fields, RunningOwned
  <2>4. Building /\ Gone /\ Starting /\ Releasing /\ Resting
    BY <2>1, <2>2 DEF Init, Building, Gone, Starting, Releasing, Resting
  <2>5. QED
    BY <2>2, <2>3, <2>4 DEF ResourceInv
<1>2. ResourceInv /\ [Next]_vars => ResourceInv'
  <2>1. SUFFICES ASSUME ResourceInv, [Next]_vars PROVE ResourceInv'
    OBVIOUS
  <2>2. CASE UNCHANGED vars
    BY <2>1, <2>2, QuietStep DEF vars
  <2>3. CASE \E w \in Workers : WorkerExits(w)
    BY <2>1, <2>3, QuietStep DEF WorkerExits
  <2>4. CASE \/ scheduler_fault_reset
             \/ \E point \in FaultPoints, occurrence \in 0..OccurrenceMax :
                    scheduler_fault_configure(point, occurrence)
    BY <2>1, <2>4, QuietStep DEF scheduler_fault_reset, scheduler_fault_configure
  <2>5. QED
    BY <2>1, <2>2, <2>3, <2>4, InitStep, StartStep, ThreadStep, ShutdownJoinStep,
       ReleaseWorkerStep, ReleaseFinishesStep, DestroyStep DEF Next
<1>3. QED
  BY <1>1, <1>2, PTL DEF Spec

(* init, start, join and destroy leak nothing, free nothing twice and      *)
(* nothing through a pointer in freed memory, whichever of their           *)
(* acquisitions and joins fail.                                            *)
THEOREM NothingLeaked == Spec => []OwnershipExact
<1>1. ResourceInv => OwnershipExact
  BY DEF ResourceInv, Owns, OwnershipExact
<1>2. QED
  BY <1>1, ResourcesInvariant, PTL

(* A handle goes with the arrays, the synchronization and the queue. *)
LEMMA HandleNeedsAll ==
    ASSUME ResourceInv, NEW w \in Workers, Thread(w) \in heap.owned
    PROVE  Core \cup Sync \cup Arrays \subseteq heap.owned
<1>1. Fields /\ Building /\ Gone /\ Starting /\ Releasing /\ Resting
  BY DEF ResourceInv
<1>2. \A v : Thread(v) \notin Core \cup Sync \cup Arrays
  BY GroupsDisjoint
<1>3. Kept => Core \cup Sync \cup Arrays \subseteq heap.owned
  BY DEF Kept
<1>4. ~Freed
  BY <1>2 DEF Freed
<1>5. CASE call = "init"
  <2>1. heap.owned \subseteq Core
    BY <1>1, <1>5, CoreIsInitOrder DEF Building, Fields
  <2>2. QED
    BY <1>2, <2>1
<1>6. CASE call = "start"
  <2>1. step \in 1..5
    BY <1>1, <1>6 DEF Starting, Fields
  <2>2. step < 5 => heap.owned \subseteq Core \cup Sync \cup Arrays
    BY <1>1, <1>6, <2>1 DEF Starting, Sync, Arrays
  <2>3. QED
    BY <1>1, <1>2, <1>6, <2>1, <2>2 DEF Starting
<1>7. CASE call \in {"start_release", "join_release"}
  BY <1>1, <1>3, <1>4, <1>7 DEF Releasing
<1>8. CASE call = "none"
  <2>1. implementation
    BY <1>1, <1>8 DEF Gone
  <2>2. state # "INITIALIZED"
    BY <1>1, <1>2, <1>8, <2>1 DEF Resting
  <2>3. QED
    BY <1>1, <1>3, <1>4, <1>8, <2>1, <2>2 DEF Resting, Fields
<1>9. QED
  BY <1>1, <1>5, <1>6, <1>7, <1>8 DEF Fields

(* Neither a failed start nor a failed join nor destroy frees what a       *)
(* running worker uses: its handle is kept until it has exited, and the    *)
(* arrays, the synchronization and the queue as long as a handle is.       *)
THEOREM NothingFreedUnderWorker == Spec => []NothingFreedInUse
<1>1. ResourceInv => NothingFreedInUse
  <2>1. SUFFICES ASSUME ResourceInv, NEW w \in Workers, thread[w] = "running"
                 PROVE  UsedBy(w) \subseteq heap.owned
    BY DEF NothingFreedInUse
  <2>2. Thread(w) \in heap.owned
    BY <2>1 DEF ResourceInv, RunningOwned
  <2>3. Core \cup Sync \cup Arrays \subseteq heap.owned
    BY <2>1, <2>2, HandleNeedsAll
  <2>4. QED
    BY <2>2, <2>3 DEF UsedBy, Core, Sync, Arrays
<1>2. QED
  BY <1>1, ResourcesInvariant, PTL

(* Between the calls the state determines what a scheduler owns, so that a *)
(* failed start can be repeated, a failed join retried, and destroy leaves *)
(* nothing.                                                                *)
THEOREM StateTellsOwnership == Spec => []OwnedInState
<1>1. ResourceInv => OwnedInState
  <2>1. SUFFICES ASSUME ResourceInv, call = "none" PROVE OwnedInState
    BY DEF OwnedInState, Quiet
  <2>2. Fields /\ Gone /\ Resting
    BY <2>1 DEF ResourceInv
  <2>3. Core = Range(InitOrder)
    BY CoreIsInitOrder
  <2>4. CASE ~implementation
    BY <2>1, <2>2, <2>4 DEF Gone, OwnedInState
  <2>5. CASE implementation /\ state = "INITIALIZED"
    BY <2>1, <2>2, <2>3, <2>5 DEF Resting, OwnedInState
  <2>6. CASE implementation /\ state \in {"RUNNING", "SHUTTING_DOWN"}
    <3>1. heap.owned = Core \cup Sync \cup Arrays \cup ThreadObjects
      BY <2>1, <2>2, <2>6 DEF Resting, Kept, Handles
    <3>2. QED
      BY <2>3, <2>6, <3>1 DEF OwnedInState, Sync
  <2>7. CASE implementation /\ state = "FAILED"
    <3>1. heap.owned = Core \cup Sync \cup Handles \cup (IF Handles = {} THEN {} ELSE Arrays)
      <4>1. CASE Kept /\ Handles # {}
        BY <4>1 DEF Kept
      <4>2. CASE Freed
        <5>1. Handles = {}
          BY <4>2, GroupsDisjoint DEF Freed, Handles, ThreadObjects
        <5>2. QED
          BY <4>2, <5>1 DEF Freed
      <4>3. QED
        BY <2>1, <2>2, <2>7, <4>1, <4>2 DEF Resting
    <3>2. QED
      BY <2>3, <2>7, <3>1 DEF OwnedInState, Sync, Handles
  <2>8. CASE implementation /\ state = "STOPPED"
    BY <2>1, <2>2, <2>3, <2>8 DEF Resting, Freed, OwnedInState, Sync
  <2>9. QED
    BY <2>1, <2>2, <2>4, <2>5, <2>6, <2>7, <2>8 DEF Resting, Fields
<1>2. QED
  BY <1>1, ResourcesInvariant, PTL

-----------------------------------------------------------------------------
(* The fault plan: as long as the fault has not struck, the occurrence     *)
(* counter counts the visits, and so reaches the trigger before its limit. *)
PlanInv ==
    /\ visits \in Nat /\ plan.observed \in Nat /\ plan.trigger \in Nat
    /\ plan.enabled =>
           /\ plan.trigger <= OccurrenceMax
           /\ ~plan.occurrence_overflow
           /\ plan.triggered <=> visits >= plan.trigger
           /\ ~plan.triggered => plan.observed = visits
           /\ fired = IF visits >= plan.trigger THEN 1 ELSE 0
    /\ DOMAIN plan = {"point", "trigger", "observed", "enabled", "triggered",
                      "occurrence_overflow"}

LEMMA VisitStep ==
    ASSUME PlanInv, NEW point, Visit(point)
    PROVE  PlanInv'
<1>1. CASE ~Armed(plan, point) \/ plan.triggered
  <2>1. scheduler_fault_should_trigger(plan, point) = plan
    BY <1>1 DEF scheduler_fault_should_trigger
  <2>2. plan' = plan /\ fired' = fired /\ ~Strikes(point)
    BY <2>1 DEF Visit, Strikes
  <2>3. CASE ~plan.enabled
    BY <2>2, <2>3 DEF PlanInv, Visit, Armed
  <2>4. CASE plan.enabled /\ visits' = visits
    BY <2>2, <2>4 DEF PlanInv
  <2>5. CASE plan.enabled /\ Armed(plan, point) /\ visits' = visits + 1
    <3>1. plan.triggered /\ visits >= plan.trigger
      BY <1>1, <2>5 DEF PlanInv
    <3>2. visits' >= plan.trigger /\ visits' \in Nat
      BY <2>5, <3>1 DEF PlanInv
    <3>3. QED
      BY <2>2, <2>5, <3>1, <3>2 DEF PlanInv
  <2>6. QED
    BY <2>3, <2>4, <2>5 DEF Visit
<1>2. CASE Armed(plan, point) /\ ~plan.triggered
  <2> DEFINE next == visits + 1
  <2>1. /\ plan.enabled /\ plan.observed = visits /\ visits < plan.trigger
        /\ plan.trigger <= OccurrenceMax /\ fired = 0 /\ visits \in Nat
        /\ plan.trigger \in Nat /\ ~plan.occurrence_overflow
    BY <1>2 DEF Armed, PlanInv
  <2>2. plan' = [plan EXCEPT !.observed = next, !.triggered = (next = plan.trigger)]
    BY <1>2, <2>1, ResourcesAssumption DEF Visit, scheduler_fault_should_trigger
  <2>3. /\ plan'.observed = next /\ plan'.trigger = plan.trigger
        /\ plan'.enabled = plan.enabled /\ DOMAIN plan' = DOMAIN plan
        /\ plan'.occurrence_overflow = plan.occurrence_overflow
    BY <2>2 DEF PlanInv
  <2>4. plan'.triggered = (next = plan.trigger)
    BY <2>2, Zenon DEF PlanInv
  <2>5. visits' = next
    BY <1>2, <2>1, ResourcesAssumption DEF Visit
  <2>6. fired' = IF plan'.triggered THEN 1 ELSE 0
    <3>1. plan' # plan
      BY <2>1, <2>3
    <3>2. Strikes(point) <=> plan'.triggered
      BY <3>1 DEF Strikes, Visit
    <3>3. QED
      BY <2>1, <3>2 DEF Visit
  <2>7. (next = plan.trigger) <=> (next >= plan.trigger)
    BY <2>1
  <2>8. plan'.triggered <=> visits' >= plan'.trigger
    BY <2>3, <2>4, <2>5, <2>7
  <2>9. QED
    BY <2>1, <2>3, <2>5, <2>6, <2>8 DEF PlanInv
<1>3. QED
  BY <1>1, <1>2

(* An armed fault of the plan strikes at its occurrence and never again,   *)
(* over any number of failed starts and retried joins.                     *)
THEOREM ArmedFaultStrikesOnce == Spec => []FaultStrikesOnce
<1>1. NoPlan.observed = 0 /\ NoPlan.trigger = 0 /\ ~NoPlan.enabled
      /\ DOMAIN NoPlan = {"point", "trigger", "observed", "enabled", "triggered",
                          "occurrence_overflow"}
  BY DEF NoPlan
<1>2. Init => PlanInv
  BY <1>1 DEF Init, PlanInv
<1>3. PlanInv /\ [Next]_vars => PlanInv'
  <2>1. SUFFICES ASSUME PlanInv, [Next]_vars PROVE PlanInv'
    OBVIOUS
  <2>2. CASE UNCHANGED <<plan, visits, fired>>
    BY <2>1, <2>2 DEF PlanInv
  <2>3. CASE plan' = NoPlan /\ visits' = 0 /\ fired' = 0
    BY <1>1, <2>3 DEF PlanInv
  <2>4. CASE \E point \in FaultPoints, occurrence \in 0..OccurrenceMax :
                 scheduler_fault_configure(point, occurrence)
    <3>1. PICK point \in FaultPoints, occurrence \in 0..OccurrenceMax :
              scheduler_fault_configure(point, occurrence)
      BY <2>4
    <3>2. /\ plan' = [NoPlan EXCEPT !.point = point, !.trigger = occurrence, !.enabled = TRUE]
          /\ visits' = 0 /\ fired' = 0 /\ occurrence # 0
      BY <3>1 DEF scheduler_fault_configure, scheduler_fault_plan_configure
    <3>3. /\ plan'.trigger = occurrence /\ plan'.observed = 0
          /\ DOMAIN plan' = DOMAIN NoPlan
      BY <3>2 DEF NoPlan
    <3>4. ~plan'.triggered /\ ~plan'.occurrence_overflow
      BY <3>2 DEF NoPlan
    <3>5. QED
      BY <1>1, <3>2, <3>3, <3>4, ResourcesAssumption DEF PlanInv
  <2>5. CASE \E point : Visit(point)
    BY <2>1, <2>5, VisitStep
  <2>6. QED
    BY <2>1, <2>2, <2>3, <2>4, <2>5 DEF Next, vars, NoVisit, InitBegins, InitAcquires,
       InitPublishes, StartBegins, StartAllocates, StartSynchronizes, StartCreates,
       StartFinishes, scheduler_shutdown, JoinBegins, ReleaseWorker, ReleaseFinishes,
       scheduler_destroy, scheduler_fault_reset, scheduler_fault_plan_reset, WorkerExits
<1>4. PlanInv => FaultStrikesOnce
  BY DEF PlanInv, FaultStrikesOnce
<1>5. QED
  BY <1>2, <1>3, <1>4, PTL DEF Spec
=============================================================================
