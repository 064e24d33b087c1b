SPECIFICATION Spec
CONSTANTS
    f1 = f1
    f2 = f2
    x1 = x1
    x2 = x2
    x3 = x3
    None = None
    Files = {f1, f2}
    Objects = {x1, x2, x3}
    Protected = {f2}
    MaxOps = 2
    CrashPoints <- AllPcs
    Faults = {"refuse", "probe"}
    Meddles = {"create"}
    Reach = {"original", "folder"}
    MaxCrashes = 1
    MaxMeddling = 1
INVARIANTS
    OneInterrupted
    HeldIsBackedUp
PROPERTIES
    RestoredIsBack
    CleanupRowTruthful
    ImplementsPromise
SYMMETRY ObjectSymmetry
CHECK_DEADLOCK FALSE
