SPECIFICATION Spec
CONSTANTS
    Threads = {"t1", "t2"}
    Clients <- MCClients
    Items = 2
    MaxFailures = 2
    MaxEnds = 1
INVARIANTS LiveIsControlled AttemptsEnd ReplayKeepsQueue
PROPERTIES NothingComesBack
CHECK_DEADLOCK FALSE
