\* One user worker running every user operation, the cron, one failed
\* call, one administrator change and one subscription change.
CONSTANTS
    Subs <- MCSubs
    InitSubState <- MCInitSubState
    RIds <- MCRIds
    MaxRecords = 4
    UIWorkers = {u1}
    Cron = cron
    OrgSynced = TRUE
    Timeouts = FALSE
    UserOps = {"create", "write_sub", "toggle", "otp", "unlink", "sync"}
    MaxTries = 1
    MaxFailures = 1
    MaxExternal = 1
    MaxUiOps = 3
    MaxSubChanges = 1
    NoPid = NoPid
    NoSub = NoSub
    NoRec = NoRec
    NoOtp = NoOtp
    Free = Free
    Gone = Gone

SPECIFICATION Spec
INVARIANT UserTypeOK
PROPERTY UnlinkDeletesUserFirst
