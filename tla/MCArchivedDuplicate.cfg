\* One user alone (the organization handlers, no cron): a create, an
\* archive and a sync.  The requests are bounded, so the system stops.
CONSTANTS
    Names = {n1, n2}
    RIds <- MCRIds
    MaxRecords = 6
    UIWorkers = {u1}
    Cron = cron
    MaxBatch = 1
    MaxTries = 1
    MaxFailures = 0
    MaxExternal = 0
    MaxUiOps = 3
    NoPid = NoPid
    NoRec = NoRec
    Free = Free
    Gone = Gone

SPECIFICATION OrgSpec
CHECK_DEADLOCK FALSE
INVARIANT NoDuplicateMirror
