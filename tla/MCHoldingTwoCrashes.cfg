SPECIFICATION FairSpec
CONSTANTS
    f1 = f1
    f2 = f2
    x1 = x1
    x2 = x2
    x3 = x3
    None = None
    Files = {f1, f2}
    Objects = {x1, x2}
    Protected = {f2}
    MaxOps = 2
    CrashPoints <- AllPcs
    Faults = {"refuse", "probe"}
    Meddles = {}
    Reach = {"original", "folder"}
    MaxCrashes = 2
    MaxMeddling = 0
INVARIANTS
    HeldIsTracked
    ListedIsRestorable
PROPERTIES
    RecoveryConverges
CHECK_DEADLOCK FALSE
