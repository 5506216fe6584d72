CONSTANTS
    WorkerCount = 1
    Capacity = 1
    Submitters = {s1}
    Main = Main
    NULL = NULL
    TransitionSignaling = FALSE
    CallbackCalls = {"submit"}
    Faults = {"creation", "wait", "native_join"}
    CounterMax = 100
    MaxSubmissions = 3
    MaxJoinFailures = 1
SPECIFICATION LiveSpec
PROPERTY LifecycleCallsReturn
