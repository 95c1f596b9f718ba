\* Two configurations, one user worker making two form writes (the sync
\* button left out, so that only the cron syncs), the cron, one failed
\* call, one re-run of an aborted request.
CONSTANTS
    Cfgs = {1, 2}
    UIWorkers = {u1}
    Cron = cron
    UiOps = {"set_default", "unset_default", "archive", "unarchive"}
    MaxTries = 1
    MaxFailures = 1
    MaxUiOps = 2
    NoCfg = NoCfg

SPECIFICATION Spec
INVARIANT SyncedFromOwnAppliance
