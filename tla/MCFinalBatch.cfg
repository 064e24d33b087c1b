CONSTANTS
    Ttl = 1
    MaxOutstanding = 1
    MaxIssued = 2
    MaxNow = 2
    NItems = 2
    Archived = {2}
    Selections = {{1, 2}}
    ChunkSize = 1
    ClaimParses = TRUE
    MaxPreviews = 2
    MaxJobs = 2
    Kinds = {"tick", "enter", "restore", "stop", "disable", "enable", "crash", "spawn", "db", "preflight", "uac", "open", "helper", "capture", "scratch", "rename", "observer", "profile", "claim", "dispose", "probe"}
    MaxEvents = 2
SPECIFICATION FairSpec
INVARIANTS TypeOK ArchivedBeforeGone ArchivesAccounted OneOpenBatch GrantSpentOnce VerdictTruthful
PROPERTIES OffStopsRemoval ImplementsPromise BatchCloses
CHECK_DEADLOCK FALSE
