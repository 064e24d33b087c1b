SPECIFICATION FairSpec
CONSTANTS
    p1 = p1
    p2 = p2
    i1 = i1
    i2 = i2
    None = None
    Projects = {p1, p2}
    Items = {i1, i2}
    Expandable = {p1}
    Untouchable = {p2}
    MaxRuns = 1
    MaxJobs = 3
    Kinds = {"early", "db", "git", "scan", "unregister", "other", "restart", "disk", "limit"}
    MaxEvents = 1
INVARIANTS
    EligibleIsWhole
PROPERTIES
    CompleteIsWhole
    PlanIsAuthorised
    EveryThreadEnds
CHECK_DEADLOCK FALSE
