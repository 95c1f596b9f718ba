----------------------------- MODULE RemoteCall -----------------------------
(***************************************************************************)
(* What one call through the signing client promises the handler that     *)
(* makes it (the Odoo models and the SDK functions).  A call is issued,     *)
(* the appliance performs its operation at most once, and the call         *)
(* returns normally only if the operation was performed; otherwise it      *)
(* raises.  A raised call may still have been performed, before or even    *)
(* after the caller saw the error: the client never retries and has no     *)
(* way to cancel a request it has sent.  Every call ends.                  *)
(***************************************************************************)
EXTENDS Naturals

CONSTANT Calls

VARIABLES status, applied

vars == <<status, applied>>

Status == {"idle", "pending", "ok", "error"}

TypeOK == status \in [Calls -> Status] /\ applied \in [Calls -> BOOLEAN]

Init == status = [k \in Calls |-> "idle"] /\ applied = [k \in Calls |-> FALSE]

Issue(k) ==
    /\ status[k] = "idle"
    /\ status' = [status EXCEPT ![k] = "pending"]
    /\ UNCHANGED applied

\* The operation takes effect once, while the caller waits or after it
\* has given up.
Apply(k) ==
    /\ status[k] \in {"pending", "error"} /\ ~applied[k]
    /\ applied' = [applied EXCEPT ![k] = TRUE]
    /\ UNCHANGED status

Return(k) ==
    /\ status[k] = "pending" /\ applied[k]
    /\ status' = [status EXCEPT ![k] = "ok"]
    /\ UNCHANGED applied

Raise(k) ==
    /\ status[k] = "pending"
    /\ status' = [status EXCEPT ![k] = "error"]
    /\ UNCHANGED applied

Next == \E k \in Calls : Issue(k) \/ Apply(k) \/ Return(k) \/ Raise(k)

\* A pending call ends: it returns or raises.
Spec == Init /\ [][Next]_vars /\ \A k \in Calls : WF_vars(Return(k) \/ Raise(k))

=============================================================================
