CONSTANTS
    Ttl = 1
    MaxOutstanding = 1
    MaxIssued = 2
    MaxNow = 0
    NItems = 2
    Archived = {}
    Selections = {{1, 2}}
    ChunkSize = 2
    ClaimParses = FALSE
    MaxPreviews = 2
    MaxJobs = 2
    Kinds = {}
    MaxEvents = 0
SPECIFICATION FairSpec
PROPERTIES UndisturbedCompletes
CHECK_DEADLOCK FALSE
