----------------------------- MODULE PritunlAuth -----------------------------
(***************************************************************************)
(* The signing client of lib/auth.py (PritunlAuth), the network between it *)
(* and the appliance, and the appliance's check of the signature.  Each    *)
(* call k is one request(): sign, send, wait for the response or the       *)
(* timeout, raise_for_status.  The network may lose a request or its       *)
(* response, and may deliver copies of a request (a proxy re-sending it,   *)
(* or a replay by someone who captured it).                               *)
(*                                                                         *)
(* Data is abstracted: HMAC-SHA256 and base64 are modelled as the tuple of *)
(* their inputs (an injective MAC); an endpoint is a name and whether its  *)
(* leading '/' is missing; the timestamp is left out (no clock).           *)
(***************************************************************************)
EXTENDS Naturals

CONSTANTS
    Calls,          \* the calls made through one client
    Methods,        \* HTTP methods the callers pass
    Names,          \* endpoint names
    Public,         \* endpoints the appliance serves without authentication
    TokenArg, SecretArg,      \* the constructor's arguments
    TimeoutArgs,    \* the timeouts callers pass: None (scripts) or the field (get_client)
    DefaultToken, DefaultSecret, DefaultTimeout,  \* the config module's values
    ApplianceToken, ApplianceSecret,          \* the credentials the appliance holds
    MaxCopies,      \* bound on extra copies the network delivers
    NoArg, NoReq, NoHdr

ASSUME Public \subseteq Names /\ MaxCopies \in Nat /\ DefaultTimeout \in Nat \ {0}

VARIABLES
    client,    \* "none" before __init__, then "ready" or "failed" (ValueError)
    token, secret, timeout,   \* the client's configuration
    cst,       \* cst[k]: the call's state, as the caller sees it
    wire,      \* wire[k]: the request call k sent
    orig,      \* orig[k]: the request is on its way on the client's connection
    copies,    \* copies[k]: other copies of it in the network
    resp,      \* resp[k]: the response on the client's connection
    seen,      \* nonces the appliance has accepted
    accepted,  \* calls of which the appliance accepted some copy (history)
    count,     \* count[k]: times the appliance performed call k
    dups       \* extra copies made so far

vars == <<client, token, secret, timeout, cst, wire, orig, copies, resp, seen, accepted,
          count, dups>>

Endpoints == [rel: BOOLEAN, name: Names]

AuthTypeOK ==
    /\ client \in {"none", "ready", "failed"}
    /\ cst \in [Calls -> {"idle", "pending", "ok", "error"}]
    /\ orig \in [Calls -> BOOLEAN] /\ copies \in [Calls -> 0..MaxCopies]
    /\ count \in [Calls -> 0..MaxCopies + 1] /\ accepted \subseteq Calls
    /\ resp \in [Calls -> {"none", "ok", "failed", "denied"}]
    /\ seen \subseteq Calls /\ dups \in 0..MaxCopies

-----------------------------------------------------------------------------
(* The client (lib/auth.py).                                               *)

\* 'arg or default': None and the empty string fall back to the default.
Cred(arg, default) == IF arg \in {NoArg, ""} THEN default ELSE arg

\* Mutant: 'self.timeout = timeout', no fallback.
ClientTimeoutNoFallback(t) == t

\* 'timeout or config.REQUEST_TIMEOUT': None and 0 fall back.
ClientTimeout(t) == IF t \in {NoArg, 0} THEN DefaultTimeout ELSE t

\* __init__(): raises ValueError when the token or secret is still empty.
Construct ==
    LET t == Cred(TokenArg, DefaultToken)
        s == Cred(SecretArg, DefaultSecret)
    IN /\ client = "none"
       /\ client' = IF t \in {NoArg, ""} \/ s \in {NoArg, ""} THEN "failed" ELSE "ready"
       /\ token' = t /\ secret' = s
       /\ \E ta \in TimeoutArgs : timeout' = ClientTimeout(ta)
       /\ UNCHANGED <<cst, wire, orig, copies, resp, seen, accepted, count, dups>>

\* Mutant: one nonce for every request of the client.
GenerateNonceOnce(k) == CHOOSE n \in Calls : TRUE

\* _generate_nonce(): secrets.token_hex(16), a fresh value per request.
GenerateNonce(k) == k

\* str.upper() on the methods callers pass.
Upper(m) == CASE m \in {"GET", "get"} -> "GET" [] m \in {"PUT", "put"} -> "PUT"
              [] m \in {"POST", "post"} -> "POST" [] OTHER -> "DELETE"

\* _generate_signature(): HMAC-SHA256 under the secret of
\* token&timestamp&nonce&METHOD&path, base64-encoded.
Signature(key, tok, nonce, m, path) == <<key, <<tok, nonce, Upper(m), path>>>>

\* _get_auth_headers().
AuthHeaders(m, path, nonce) ==
    [token |-> token, nonce |-> nonce, sig |-> Signature(secret, token, nonce, m, path)]

\* request(): an endpoint without a leading '/' gets one; it is signed and
\* sent as the path of base_url + endpoint, with method.upper().
Normalize(e) == [e EXCEPT !.rel = FALSE]

SignedRequest(m, e, auth, nonce) ==
    LET path == Normalize(e)
    IN [method |-> Upper(m), path |-> path,
        hdr |-> IF auth THEN AuthHeaders(m, path, nonce) ELSE NoHdr]

Send(k) ==
    /\ client = "ready" /\ cst[k] = "idle"
    /\ \E m \in Methods, e \in Endpoints, auth \in BOOLEAN :
         wire' = [wire EXCEPT ![k] = SignedRequest(m, e, auth, GenerateNonce(k))]
    /\ orig' = [orig EXCEPT ![k] = TRUE]
    /\ cst' = [cst EXCEPT ![k] = "pending"]
    /\ UNCHANGED <<client, token, secret, timeout, copies, resp, seen, accepted, count, dups>>

\* Mutant: no raise_for_status(); the body of any response is returned.
ReceiveNoStatusCheck(k) ==
    /\ cst[k] = "pending" /\ resp[k] # "none"
    /\ cst' = [cst EXCEPT ![k] = "ok"]
    /\ UNCHANGED <<client, token, secret, timeout, wire, orig, copies, resp, seen, accepted, count, dups>>

\* Mutant: the call's state becomes the response's status.
ReceiveKeepsStatus(k) ==
    /\ cst[k] = "pending" /\ resp[k] # "none"
    /\ cst' = [cst EXCEPT ![k] = IF resp[k] = "ok" THEN "ok" ELSE resp[k]]
    /\ UNCHANGED <<client, token, secret, timeout, wire, orig, copies, resp, seen, accepted, count, dups>>

\* raise_for_status(): a status of 400 or more raises, otherwise the
\* decoded body is returned.
Receive(k) ==
    /\ cst[k] = "pending" /\ resp[k] # "none"
    /\ cst' = [cst EXCEPT ![k] = IF resp[k] = "ok" THEN "ok" ELSE "error"]
    /\ UNCHANGED <<client, token, secret, timeout, wire, orig, copies, resp, seen, accepted, count, dups>>

\* requests raises Timeout when no response came within the timeout; with
\* no timeout it waits for ever.
Timeout(k) ==
    /\ cst[k] = "pending" /\ resp[k] = "none" /\ timeout # NoArg
    /\ cst' = [cst EXCEPT ![k] = "error"]
    /\ UNCHANGED <<client, token, secret, timeout, wire, orig, copies, resp, seen, accepted, count, dups>>

-----------------------------------------------------------------------------
(* The network and the appliance (environment).                            *)

\* Someone re-sends a copy of the request; its response goes to them.
Duplicate(k) ==
    /\ wire[k] # NoReq /\ dups < MaxCopies
    /\ copies' = [copies EXCEPT ![k] = @ + 1] /\ dups' = dups + 1
    /\ UNCHANGED <<client, token, secret, timeout, cst, wire, orig, resp, seen, accepted, count>>

\* The client's request is lost (connection refused or reset).
Lose(k) ==
    /\ orig[k]
    /\ orig' = [orig EXCEPT ![k] = FALSE]
    /\ UNCHANGED <<client, token, secret, timeout, cst, wire, copies, resp, seen, accepted, count, dups>>

\* The appliance serves public endpoints as they come; for the others it
\* recomputes the signature over the method and path it received and
\* refuses a wrong token or signature and a nonce it has seen.
Accepts(r) ==
    \/ r.path.name \in Public
    \/ /\ r.hdr # NoHdr /\ r.hdr.token = ApplianceToken /\ r.hdr.nonce \notin seen
       /\ r.hdr.sig = Signature(ApplianceSecret, ApplianceToken, r.hdr.nonce, r.method, r.path)

\* The appliance handles request r of call k: performs it, or fails on
\* it (a 4xx/5xx without effect) if accepted; refuses it with 401
\* otherwise.  reply is the status it answers with.
Handle(k, r, reply) ==
    /\ reply \in IF Accepts(r) THEN {"ok", "failed"} ELSE {"denied"}
    /\ count' = IF reply = "ok" THEN [count EXCEPT ![k] = @ + 1] ELSE count
    /\ seen' = IF Accepts(r) /\ r.hdr # NoHdr THEN seen \cup {r.hdr.nonce} ELSE seen
    /\ accepted' = IF Accepts(r) THEN accepted \cup {k} ELSE accepted

\* The client's request arrives; the response may be lost on the way back.
DeliverOrig(k) ==
    /\ orig[k]
    /\ orig' = [orig EXCEPT ![k] = FALSE]
    /\ \E reply \in {"ok", "failed", "denied"}, lost \in BOOLEAN :
         /\ Handle(k, wire[k], reply)
         /\ resp' = IF lost THEN resp ELSE [resp EXCEPT ![k] = reply]
    /\ UNCHANGED <<client, token, secret, timeout, cst, wire, copies, dups>>

DeliverCopy(k) ==
    /\ copies[k] > 0
    /\ copies' = [copies EXCEPT ![k] = @ - 1]
    /\ \E reply \in {"ok", "failed", "denied"} : Handle(k, wire[k], reply)
    /\ UNCHANGED <<client, token, secret, timeout, cst, wire, orig, resp, dups>>

-----------------------------------------------------------------------------

Init ==
    /\ client = "none" /\ token = NoArg /\ secret = NoArg /\ timeout = NoArg
    /\ cst = [k \in Calls |-> "idle"] /\ wire = [k \in Calls |-> NoReq]
    /\ orig = [k \in Calls |-> FALSE] /\ copies = [k \in Calls |-> 0]
    /\ resp = [k \in Calls |-> "none"]
    /\ seen = {} /\ accepted = {} /\ count = [k \in Calls |-> 0] /\ dups = 0

Next ==
    \/ Construct
    \/ \E k \in Calls : \/ Send(k) \/ Receive(k) \/ Timeout(k)
                        \/ Duplicate(k) \/ Lose(k) \/ DeliverOrig(k) \/ DeliverCopy(k)

\* The client reads a response that has arrived, and the socket's timer
\* fires when none has.
Fairness == \A k \in Calls : WF_vars(Receive(k)) /\ WF_vars(Timeout(k))

Spec == Init /\ [][Next]_vars /\ Fairness

-----------------------------------------------------------------------------
(* Properties.                                                             *)

\* The refinement: a call through the client is a RemoteCall.  It returns
\* normally only if the appliance performed it (raise_for_status turns
\* every refusal and failure into an exception), a performed call may have
\* raised, and every call ends (the timeout always has a value).
RC == INSTANCE RemoteCall WITH status <- cst, applied <- [k \in Calls |-> count[k] > 0]

ImplementsRemoteCall == RC!Spec

\* A signed request made with the appliance's credentials is refused only
\* as the replay of a copy of itself the appliance accepted before: the
\* signature covers the method and path that go on the wire, and no two
\* requests share a nonce, over any number of calls and copies.
SignedRequestAccepted ==
    \A k \in Calls : (resp[k] = "denied" /\ wire[k].hdr # NoHdr
                      /\ token = ApplianceToken /\ secret = ApplianceSecret) => k \in accepted

=============================================================================
