\* A user's rename racing the cron's sync, no failures, no administrator.
CONSTANTS
    Names = {n1, n2}
    RIds <- MCRIds
    MaxRecords = 6
    UIWorkers = {u1}
    Cron = cron
    MaxBatch = 1
    MaxTries = 1
    MaxFailures = 0
    MaxExternal = 0
    MaxUiOps = 2
    NoPid = NoPid
    NoRec = NoRec
    Free = Free
    Gone = Gone

SPECIFICATION Spec
PROPERTY SyncDoesNotWriteBack
