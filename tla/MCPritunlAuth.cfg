\* A client built with a token and secret, and with either timeout a
\* caller can leave unset: None (a script's PritunlAuth()) or 0 (an empty
\* field passed by get_client()); two calls over all endpoints, one copy
\* made by the network.
CONSTANTS
    Calls <- MCCalls
    Methods = {"GET", "PUT"}
    Names <- MCNames
    Public <- MCPublic
    TokenArg = "tok"
    SecretArg = "sec"
    TimeoutArgs = {NoArg, 0}
    DefaultToken = ""
    DefaultSecret = ""
    DefaultTimeout = 30
    ApplianceToken = "tok"
    ApplianceSecret = "sec"
    MaxCopies = 1
    NoArg = NoArg
    NoReq = NoReq
    NoHdr = NoHdr

SPECIFICATION Spec
INVARIANT AuthTypeOK
INVARIANT SignedRequestAccepted
PROPERTY ImplementsRemoteCall
\* Both calls end and the client stops: there is no step left.
CHECK_DEADLOCK FALSE
