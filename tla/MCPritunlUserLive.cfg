\* One user worker creating and deleting users while the cron enforces
\* subscriptions; one call may fail without effect; no administrator;
\* subscriptions keep their states.
CONSTANTS
    Subs <- MCSubs
    InitSubState <- MCInitSubState
    RIds <- MCRIds
    MaxRecords = 4
    UIWorkers = {u1}
    Cron = cron
    OrgSynced = TRUE
    Timeouts = FALSE
    UserOps = {"create", "unlink"}
    MaxTries = 1
    MaxFailures = 1
    MaxExternal = 0
    MaxUiOps = 3
    MaxSubChanges = 0
    NoPid = NoPid
    NoSub = NoSub
    NoRec = NoRec
    NoOtp = NoOtp
    Free = Free
    Gone = Gone

SPECIFICATION Spec
PROPERTY SubscriptionEventuallyEnforced
