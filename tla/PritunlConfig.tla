--------------------------- MODULE PritunlConfig ---------------------------
(***************************************************************************)
(* pritunl.config (models/pritunl_config.py) composed with the             *)
(* organization mirror: action_test_connection, action_sync_all and the    *)
(* scheduled cron_sync_pritunl_data, which runs action_sync_all for each   *)
(* active configuration inside one cron transaction.  One configuration,   *)
(* active and default; action_sync_all's server and host syncs are one     *)
(* appliance call each here (their records are modelled elsewhere).        *)
(***************************************************************************)
EXTENDS PritunlOrganization

VARIABLE
    attempt   \* history: outcome of the latest test or sync attempt ("none", "ok", "failed")

allVars == <<vars, attempt>>

ConfigTypeOK == TypeOK /\ attempt \in {"none", "ok", "failed"}

ConfigInit == Init /\ attempt = "none"

\* self.write({'sync_status': ..., 'last_sync_date': now}): an update of
\* the configuration row, whatever the status was.
WriteConfig(w) == touched' = [touched EXCEPT ![w] = @ \cup {CfgRow}]

UserConfigRequest(w) ==
    \/ BeginUI(w, [NoReq EXCEPT !.op = "test"])
    \/ BeginUI(w, [NoReq EXCEPT !.op = "sync_all"])

\* action_test_connection(): ping (unauthenticated); on success write
\* sync_status 'success', on failure write 'failed' and raise UserError.
StartTest(w) ==
    /\ pc[w] = "start" /\ req[w].op = "test"
    /\ Snapshot(w)
    /\ tx' = [tx EXCEPT ![w] = db]
    /\ pc' = [pc EXCEPT ![w] = "test_call"]
    /\ UNCHANGED <<remote, db, cfg, req, ret, todo, listed, tries, budgetVars, attempt>>

TestCall(w) ==
    /\ pc[w] = "test_call"
    /\ \E o \in Outcomes(FALSE) :
         /\ CountFailure(o)
         /\ cfgTx' = [cfgTx EXCEPT ![w] = IF o = "ok" THEN "success" ELSE "failed"]
         /\ WriteConfig(w)
         /\ attempt' = IF o = "ok" THEN "ok" ELSE "failed"
         /\ pc' = [pc EXCEPT ![w] = IF o = "ok" THEN "commit" ELSE "raise"]
    /\ UNCHANGED <<remote, db, cfg, req, ret, snap, tx, todo, listed, tries, cfgSnap, extOps, uiOps, stale>>

\* action_sync_all(): the organization sync, then the server sync, then
\* the host sync, then sync_status 'success'.
StartSyncAll(w) ==
    /\ pc[w] = "start" /\ req[w].op = "sync_all"
    /\ Snapshot(w)
    /\ tx' = [tx EXCEPT ![w] = db]
    /\ ret' = [ret EXCEPT ![w] = "sync_all"]
    /\ pc' = [pc EXCEPT ![w] = "sy_list"]
    /\ UNCHANGED <<remote, db, cfg, req, todo, listed, tries, budgetVars, attempt>>

SyncServers(w) ==
    /\ pc[w] = "sa_servers"
    /\ \E o \in Outcomes(FALSE) :
         /\ CountFailure(o)
         /\ pc' = [pc EXCEPT ![w] = IF o = "ok" THEN "sa_hosts" ELSE "raise"]
    /\ UNCHANGED <<remote, db, cfg, req, ret, snap, tx, todo, listed, tries, cfgVars, extOps, uiOps, attempt, rowVars>>

SyncHosts(w) ==
    /\ pc[w] = "sa_hosts"
    /\ \E o \in Outcomes(FALSE) :
         /\ CountFailure(o)
         /\ IF o = "ok"
            THEN /\ cfgTx' = [cfgTx EXCEPT ![w] = "success"]
                 /\ WriteConfig(w)
                 /\ attempt' = "ok"
                 /\ ret' = [ret EXCEPT ![w] = "top"]
                 /\ pc' = [pc EXCEPT ![w] = "commit"]
            ELSE /\ pc' = [pc EXCEPT ![w] = "raise"]
                 /\ UNCHANGED <<cfgTx, attempt, ret, touched>>
    /\ UNCHANGED <<remote, db, cfg, req, snap, tx, todo, listed, tries, cfgSnap, extOps, uiOps, stale>>

\* action_sync_all's except: write sync_status 'failed', raise UserError.
\* Under the cron the UserError is caught by cron_sync_pritunl_data.
SyncAllExcept(w) ==
    /\ pc[w] = "raise" /\ ret[w] = "sync_all"
    /\ cfgTx' = [cfgTx EXCEPT ![w] = "failed"]
    /\ WriteConfig(w)
    /\ attempt' = "failed"
    /\ ret' = [ret EXCEPT ![w] = "top"]
    /\ pc' = [pc EXCEPT ![w] = IF w = Cron THEN "cron_except" ELSE "raise"]
    /\ UNCHANGED <<remote, db, cfg, req, snap, tx, todo, listed, tries, cfgSnap, budgetVars, stale>>

\* cron_sync_pritunl_data(): for each active configuration call
\* action_sync_all; on an exception write 'failed' and go on.  The cron
\* transaction then commits whatever was done.
CronBegin ==
    /\ pc[Cron] = "idle"
    /\ req' = [req EXCEPT ![Cron] = [NoReq EXCEPT !.op = "sync_all"]]
    /\ pc' = [pc EXCEPT ![Cron] = "start"]
    /\ UNCHANGED <<remote, db, cfg, ret, snap, tx, cfgSnap, cfgTx, todo, listed, tries, budgetVars, attempt, rowVars>>

CronExcept ==
    /\ pc[Cron] = "cron_except"
    /\ cfgTx' = [cfgTx EXCEPT ![Cron] = "failed"]
    /\ WriteConfig(Cron)
    /\ pc' = [pc EXCEPT ![Cron] = "commit"]
    /\ UNCHANGED <<remote, db, cfg, req, ret, snap, tx, todo, listed, tries, cfgSnap, budgetVars, attempt, stale>>

ConfigStep(w) ==
    \/ StartTest(w) \/ TestCall(w)
    \/ StartSyncAll(w) \/ SyncServers(w) \/ SyncHosts(w) \/ SyncAllExcept(w)

\* Every step of a request in progress, organization or configuration.
Step(w) == (OrgStep(w) /\ UNCHANGED attempt) \/ ConfigStep(w) \/ (w = Cron /\ CronExcept)

Next ==
    \/ (External /\ UNCHANGED attempt)
    \/ CronBegin
    \/ \E w \in Workers :
         \/ (UserRequest(w) /\ UNCHANGED attempt)
         \/ UserConfigRequest(w) /\ UNCHANGED attempt
         \/ Step(w)

\* A request in progress runs to its end (every appliance call is bounded
\* by the client's timeout), and the cron job is started again and again
\* by its interval.  Users and the administrator owe nothing.
Fairness == /\ \A w \in Workers : WF_allVars(Step(w))
            /\ WF_allVars(CronBegin)

Spec == ConfigInit /\ [][Next]_allVars /\ Fairness

-----------------------------------------------------------------------------
(* Properties.                                                             *)

\* Whenever no request is running, sync_status is the outcome of the
\* latest test or sync attempt.  action_test_connection and action_sync_all
\* write 'failed' and then raise UserError, which rolls that write back.
StatusReflectsLastAttempt ==
    (\A w \in Workers : pc[w] = "idle") =>
        cfg = CASE attempt = "none" -> "never"
                [] attempt = "ok" -> "success"
                [] attempt = "failed" -> "failed"

\* Every organization on the appliance is eventually mirrored by a
\* committed record (or deleted from the appliance): the cron's
\* action_sync_all imports what it lists.
Imported(p) == \E l \in LIds : db[l] # NoRec /\ db[l].pid = p
ImportedEventually == \A p \in RIds : Live(p) ~> (~Live(p) \/ Imported(p))

=============================================================================
