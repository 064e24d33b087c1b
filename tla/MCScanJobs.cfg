SPECIFICATION Spec
CONSTANTS
    r1 = r1
    r2 = r2
    a = a
    b = b
    x = x
    y = y
    Roots = {r1}
    Items = {a, b}
    Contents = {x, y}
    Gone = Gone
    NoRoot = NoRoot
    MaxJobs = 2
    MaxTerminal = 0
    MaxEdits = 1
    Requests = {"scan", "cancel", "disable", "enable", "unregister", "refresh"}
    Faults = {"database", "limit", "restart"}
SYMMETRY Symmetry
INVARIANTS
    OneWorkerPerRoot
    CancelReachesWorker
    CompletedCoversDisk
PROPERTIES
    RemovedWasGone
    CancelledNeedsScan
CHECK_DEADLOCK FALSE
