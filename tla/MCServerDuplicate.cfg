\* One create beside the cron's action_sync_all; one administrator change;
\* no failures.
CONSTANTS
    Pids <- MCPids
    KindOf <- MCKindOf
    Orgs <- MCOrgs
    OrgPid <- MCOrgPid
    MaxRecords = 4
    UIWorkers = {u1}
    Cron = cron
    Timeouts = FALSE
    ServerOps = {"create"}
    MaxTries = 1
    MaxFailures = 0
    MaxExternal = 1
    MaxUiOps = 1
    NoPid = NoPid
    NoRec = NoRec
    Free = Free
    Gone = Gone

SPECIFICATION Spec
PROPERTY EveryRecordMirrors
