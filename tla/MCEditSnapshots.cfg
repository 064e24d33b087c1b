SPECIFICATION Spec
CONSTANTS
    f1 = f1
    f2 = f2
    t1 = t1
    t2 = t2
    t3 = t3
    s1 = s1
    c1 = c1
    c2 = c2
    None = None
    Files = {f1}
    Texts = {t1, t2}
    Sessions = {s1}
    Calls = {c1, c2}
    PerFile = 1
    GlobalCap = 2
    Events = {"edit", "rename", "journal", "remove", "crash"}
    MaxEvents = 1
    MaxCopies = 4
INVARIANTS
    FirstVersionsKept
    TornIsDoomed
PROPERTIES
    ReplacesWhatWasSaved
SYMMETRY TextSymmetry
CHECK_DEADLOCK FALSE
