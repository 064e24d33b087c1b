SPECIFICATION Spec
CONSTANTS
    f1 = f1
    f2 = f2
    x1 = x1
    x2 = x2
    x3 = x3
    None = None
    Files = {f1}
    Objects = {x1}
    Protected = {}
    MaxOps = 2
    CrashPoints = {}
    Faults = {"verify"}
    Meddles = {}
    Reach = {"original", "folder"}
    MaxCrashes = 0
    MaxMeddling = 0
INVARIANTS
    FailedIsReconciled
CHECK_DEADLOCK FALSE
