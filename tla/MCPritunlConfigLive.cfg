\* Liveness of the cron's import: one user worker and the cron, one failure,
\* one change by the administrator, one user request.
CONSTANTS
    Names = {n1, n2}
    RIds <- MCLiveRIds
    MaxRecords = 4
    UIWorkers = {u1}
    Cron = cron
    MaxBatch = 1
    MaxTries = 1
    MaxFailures = 1
    MaxExternal = 1
    MaxUiOps = 1
    NoPid = NoPid
    NoRec = NoRec
    Free = Free
    Gone = Gone

SPECIFICATION Spec
PROPERTY ImportedEventually
