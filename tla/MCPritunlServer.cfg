\* One user worker making two requests of any kind beside the cron's
\* action_sync_all; one failed call, which may have taken effect; one
\* administrator change on the appliance; one re-run of an aborted request.
CONSTANTS
    Pids <- MCPids
    KindOf <- MCKindOf
    Orgs <- MCOrgs
    OrgPid <- MCOrgPid
    MaxRecords = 6
    UIWorkers = {u1}
    Cron = cron
    Timeouts = TRUE
    ServerOps = {"create", "start", "stop", "restart", "attach", "archive", "unlink", "sync"}
    MaxTries = 1
    MaxFailures = 1
    MaxExternal = 1
    MaxUiOps = 2
    NoPid = NoPid
    NoRec = NoRec
    Free = Free
    Gone = Gone

SPECIFICATION Spec
INVARIANT ServerTypeOK
PROPERTY EventuallyMirrored
