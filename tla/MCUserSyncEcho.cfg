\* The cron disables a lapsed user while a user's sync is running: the
\* sync PUTs the disabled flag it listed before the cron's PUT.
CONSTANTS
    Subs <- MCSubs
    InitSubState <- MCInitSubState
    RIds <- MCRIds
    MaxRecords = 4
    UIWorkers = {u1}
    Cron = cron
    OrgSynced = TRUE
    Timeouts = FALSE
    UserOps = {"create", "unlink", "sync"}
    MaxTries = 1
    MaxFailures = 1
    MaxExternal = 0
    MaxUiOps = 3
    MaxSubChanges = 0
    NoPid = NoPid
    NoSub = NoSub
    NoRec = NoRec
    NoOtp = NoOtp
    Free = Free
    Gone = Gone

SPECIFICATION Spec
PROPERTY SubscriptionEventuallyEnforced
