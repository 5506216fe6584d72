CONSTANTS
    Tasks = {t1, t2, t3}
    Capacities = {0, 1, 2, 3}
    NULL = NULL
SPECIFICATION Spec
INVARIANTS TypeOK RingConsistent
PROPERTY ImplementsFifo
