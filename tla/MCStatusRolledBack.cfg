\* A failed test connection: is the 'failed' status kept?
CONSTANTS
    Names = {n1, n2}
    RIds <- MCRIds
    MaxRecords = 6
    UIWorkers = {u1}
    Cron = cron
    MaxBatch = 1
    MaxTries = 1
    MaxFailures = 1
    MaxExternal = 0
    MaxUiOps = 1
    NoPid = NoPid
    NoRec = NoRec
    Free = Free
    Gone = Gone

SPECIFICATION Spec
INVARIANT StatusReflectsLastAttempt
