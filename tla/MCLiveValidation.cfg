CONSTANTS
    WorkerCount = 1
    Capacity = 1
    Submitters = {s1}
    Main = Main
    NULL = NULL
    TransitionSignaling = FALSE
    CallbackCalls = {}
    Faults = {}
    CounterMax = 100
    MaxSubmissions = 1
    MaxJoinFailures = 0
SPECIFICATION ObservedSpec
INVARIANT LiveAccountingSound
