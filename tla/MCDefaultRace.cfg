\* Two configurations, two user workers each saving is_default on a form,
\* the cron, one failed call and one re-run of an aborted request.  Only
\* set_default is asked for, so two defaults can come only from the race.
CONSTANTS
    Cfgs = {1, 2}
    UIWorkers = {u1, u2}
    Cron = cron
    UiOps = {"set_default"}
    MaxTries = 1
    MaxFailures = 1
    MaxUiOps = 2
    NoCfg = NoCfg

SPECIFICATION Spec
INVARIANT AtMostOneDefault
