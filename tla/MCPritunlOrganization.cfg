\* User requests alone on batches of two records, with a failed or timed-out
\* appliance call and a change by the administrator.  User requests are
\* bounded, so the system stops once they are spent.
CONSTANTS
    Names = {n1, n2}
    RIds <- MCRIds
    MaxRecords = 6
    UIWorkers = {u1}
    Cron = cron
    MaxBatch = 2
    MaxTries = 1
    MaxFailures = 1
    MaxExternal = 1
    MaxUiOps = 4
    NoPid = NoPid
    NoRec = NoRec
    Free = Free
    Gone = Gone

SPECIFICATION OrgSpec
CHECK_DEADLOCK FALSE
INVARIANT NoUnpushedOrg
PROPERTY UnlinkDeletesRemoteFirst
