\* A user's delete times out after the appliance deleted it, so the record
\* stays; the cron must disable another user.
CONSTANTS
    Subs <- MCSubs
    InitSubState <- MCInitSubState
    RIds <- MCRIds
    MaxRecords = 4
    UIWorkers = {u1}
    Cron = cron
    OrgSynced = TRUE
    Timeouts = TRUE
    UserOps = {"create", "unlink"}
    MaxTries = 1
    MaxFailures = 1
    MaxExternal = 0
    MaxUiOps = 3
    MaxSubChanges = 0
    NoPid = NoPid
    NoSub = NoSub
    NoRec = NoRec
    NoOtp = NoOtp
    Free = Free
    Gone = Gone

SPECIFICATION Spec
PROPERTY SubscriptionEventuallyEnforced
