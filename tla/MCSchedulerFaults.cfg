CONSTANTS
    WorkerCount = 2
    Capacity = 1
    Submitters = {s1}
    Main = Main
    NULL = NULL
    TransitionSignaling = FALSE
    CallbackCalls = {}
    Faults = {"start", "creation", "wait", "native_join", "worker_join"}
    CounterMax = 1
    MaxSubmissions = 2
    MaxJoinFailures = 2
SPECIFICATION Spec
INVARIANTS EachTaskInOnePlace NoWorkerOutlivesJoin AccountsBalanceWhenStopped WorkerCountsBounded
PROPERTY ImplementsTaskPool
