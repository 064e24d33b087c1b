SPECIFICATION Spec
CONSTANTS
    f1 = f1
    f2 = f2
    x1 = x1
    x2 = x2
    x3 = x3
    None = None
    Files = {f1}
    Objects = {x1, x2, x3}
    Protected = {}
    MaxOps = 2
    CrashPoints <- AllPcs
    Faults = {"refuse", "verify", "probe"}
    Meddles = {"create", "replace", "link", "delete"}
    Reach = {"original", "folder", "holding"}
    MaxCrashes = 1
    MaxMeddling = 2
PROPERTIES
    NothingDestroyed
SYMMETRY ObjectSymmetry
CHECK_DEADLOCK FALSE
