CONSTANTS
    WorkerCount = 2
    Capacity = 1
    Submitters = {s1}
    Main = Main
    NULL = NULL
    TransitionSignaling = FALSE
    CallbackCalls = {}
    Faults = {"creation", "native_join"}
    CounterMax = 100
    MaxSubmissions = 0
    MaxJoinFailures = 1
SPECIFICATION Spec
INVARIANT FailedStartDestructible
