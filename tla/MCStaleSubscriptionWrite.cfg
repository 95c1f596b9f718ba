\* A user links a record to another subscription: write() decides on the
\* record's old subscription.
CONSTANTS
    Subs <- MCSubs
    InitSubState <- MCInitSubState
    RIds <- MCRIds
    MaxRecords = 4
    UIWorkers = {u1}
    Cron = cron
    OrgSynced = TRUE
    Timeouts = FALSE
    UserOps = {"create", "write_sub"}
    MaxTries = 1
    MaxFailures = 0
    MaxExternal = 0
    MaxUiOps = 3
    MaxSubChanges = 0
    NoPid = NoPid
    NoSub = NoSub
    NoRec = NoRec
    NoOtp = NoOtp
    Free = Free
    Gone = Gone

SPECIFICATION Spec
PROPERTY SubscriptionWriteApplied
