CONSTANTS
    NItems = 2
    Faults = {"launch", "db", "send", "arm", "validate", "timeout", "cancel", "receipt", "pipe", "cleanup", "probe", "archive"}
    MaxFaults = 2
    MaxCrashes = 1
    MaxKills = 1
SPECIFICATION FairSpec
INVARIANTS DeletedIsGone QuarantinedIsThere ArmIsGuarded LossLeavesReceipt OneAfterAnother BatchRowTruthful
PROPERTIES ImplementsPromise BatchCloses
