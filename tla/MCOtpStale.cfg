\* action_generate_otp under a serialization conflict and a failed call:
\* one user worker creating users and generating OTP secrets, the cron,
\* one failure, one re-run and one subscription change.
CONSTANTS
    Subs <- MCSubs
    InitSubState <- MCInitSubState
    RIds <- MCRIds
    MaxRecords = 4
    UIWorkers = {u1}
    Cron = cron
    OrgSynced = TRUE
    Timeouts = FALSE
    UserOps = {"create", "otp"}
    MaxTries = 1
    MaxFailures = 1
    MaxExternal = 0
    MaxUiOps = 3
    MaxSubChanges = 1
    NoPid = NoPid
    NoSub = NoSub
    NoRec = NoRec
    NoOtp = NoOtp
    Free = Free
    Gone = Gone

SPECIFICATION Spec
INVARIANT OtpSecretCurrent
