CONSTANTS
    p1 = p1
    p2 = p2
    c1 = c1
    c2 = c2
    Threads = {p1, p2, c1}
    Tasks = {a, b}
    NULL = NULL
    Capacity = 2
    Operations <- AllOperations
    TransitionSignaling = TRUE
    WaitFailures = TRUE
SYMMETRY Symmetry
SPECIFICATION Spec
INVARIANTS TypeOK WaiterCountsExact NoLostWakeup HighWaterBoundsOccupancy
PROPERTY ImplementsClosableQueue
