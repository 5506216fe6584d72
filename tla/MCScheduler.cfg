CONSTANTS
    WorkerCount = 2
    Capacity = 1
    Submitters = {s1}
    Main = Main
    NULL = NULL
    TransitionSignaling = TRUE
    CallbackCalls = {"submit", "try_submit"}
    Faults = {"start", "creation", "worker_join"}
    CounterMax = 2
    MaxSubmissions = 3
    MaxJoinFailures = 1
SPECIFICATION Spec
INVARIANTS TypeOK SubmissionsAccounted ShutdownClosesGate EachTaskInOnePlace DrainedBeforeDestroy FailedStartDestructible
