CONSTANTS
    p1 = p1
    p2 = p2
    c1 = c1
    c2 = c2
    Threads = {p1, p2, c1, c2}
    Tasks = {a}
    NULL = NULL
    Capacity = 1
    Operations <- Blocking
    TransitionSignaling = TRUE
    WaitFailures = TRUE
SPECIFICATION LiveSpec
PROPERTY BlockedCallsReturn
