\* A subscription changes state while the cron is enforcing the previous
\* one.
CONSTANTS
    Subs <- MCSubs
    InitSubState <- MCInitSubState
    RIds <- MCRIds
    MaxRecords = 4
    UIWorkers = {u1}
    Cron = cron
    OrgSynced = TRUE
    Timeouts = FALSE
    UserOps = {"create"}
    MaxTries = 1
    MaxFailures = 0
    MaxExternal = 0
    MaxUiOps = 3
    MaxSubChanges = 1
    NoPid = NoPid
    NoSub = NoSub
    NoRec = NoRec
    NoOtp = NoOtp
    Free = Free
    Gone = Gone

SPECIFICATION Spec
PROPERTY SubscriptionEventuallyEnforced
