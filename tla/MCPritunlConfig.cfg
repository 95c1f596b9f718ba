\* One user worker and the cron, with failures and an administrator.
CONSTANTS
    Names = {n1, n2}
    RIds <- MCRIds
    MaxRecords = 6
    UIWorkers = {u1}
    Cron = cron
    MaxBatch = 1
    MaxTries = 1
    MaxFailures = 1
    MaxExternal = 1
    MaxUiOps = 2
    NoPid = NoPid
    NoRec = NoRec
    Free = Free
    Gone = Gone

SPECIFICATION Spec
INVARIANT ConfigTypeOK
INVARIANT NoUnpushedOrg
PROPERTY UnlinkDeletesRemoteFirst
SYMMETRY MCNameSymmetry
