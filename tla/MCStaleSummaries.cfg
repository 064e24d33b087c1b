SPECIFICATION Spec
CONSTANTS
    r1 = r1
    r2 = r2
    a = a
    b = b
    x = x
    y = y
    Roots = {r1}
    Items = {a}
    Contents = {x, y}
    Gone = Gone
    NoRoot = NoRoot
    MaxJobs = 3
    MaxTerminal = 3
    MaxEdits = 2
    Requests = {"scan", "refresh"}
    Faults = {}
INVARIANTS
    CompletedIsCurrent
CHECK_DEADLOCK FALSE
