CONSTANTS
    WorkerCount = 2
    Capacity = 1
    Submitters = {s1}
    Main = Main
    NULL = NULL
    TransitionSignaling = FALSE
    CallbackCalls = {}
    Faults = {"start", "creation", "worker_join"}
    CounterMax = 1
    MaxSubmissions = 1
    MaxJoinFailures = 2
SPECIFICATION ObservedSpec
INVARIANTS SnapshotStructureSound RestingSnapshotExact NoCallbackLostOrCountedTwice
