\* Two configurations, one user worker making three requests of any form
\* write (no sync button), the cron, one failed call, one re-run.
CONSTANTS
    Cfgs = {1, 2}
    UIWorkers = {u1}
    Cron = cron
    UiOps = {"set_default", "unset_default", "archive", "unarchive"}
    MaxTries = 1
    MaxFailures = 1
    MaxUiOps = 3
    NoCfg = NoCfg

SPECIFICATION Spec
INVARIANT AtMostOneDefault
