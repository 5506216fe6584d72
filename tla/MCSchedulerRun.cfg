CONSTANTS
    WorkerCount = 2
    Capacity = 1
    Submitters = {s1}
    Main = Main
    NULL = NULL
    TransitionSignaling = TRUE
    CallbackCalls = {"try_submit"}
    Faults = {"start", "creation", "worker_join"}
    CounterMax = 100
    MaxSubmissions = 2
    MaxJoinFailures = 1
SPECIFICATION LiveSpec
PROPERTIES AcceptedTasksRun ImplementsTaskPool LifecycleCallsReturn
