SPECIFICATION SetsSpec
CONSTANTS
    r1 = r1
    r2 = r2
    a = a
    b = b
    x = x
    y = y
    Roots = {r1, r2}
    Items = {a}
    Contents = {x}
    Gone = Gone
    NoRoot = NoRoot
    MaxJobs = 2
    MaxTerminal = 0
    MaxEdits = 0
    Requests = {"scan", "cancel", "unregister"}
    Faults = {"limit", "unreadable"}
PROPERTIES
    CompletedIsScanned
    EveryScanEnds
CHECK_DEADLOCK FALSE
