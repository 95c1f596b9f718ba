------------------------- MODULE PritunlDefaultConfig -------------------------
(***************************************************************************)
(* Several pritunl.config records (models/pritunl_config.py): users save   *)
(* is_default and active on their forms, where the constraint              *)
(* _check_default_config searches for another default before the          *)
(* transaction commits; every model finds its appliance with               *)
(* get_default_config(); and cron_sync_pritunl_data runs action_sync_all  *)
(* on each active configuration in turn, in the cron's one transaction.    *)
(*                                                                         *)
(* Environment, as in PritunlUser: each request is one REPEATABLE READ     *)
(* transaction (rollback on an exception, first committer wins on a row,  *)
(* an aborted request re-run, an aborted cron job left to its next run).  *)
(* Of a record the model keeps active, is_default and sync_status; the     *)
(* field fetched is not a column: it records which configuration's         *)
(* appliance the sync that set the status read from.  The model syncs      *)
(* that action_sync_all calls, and what they write, are PritunlConfig's.   *)
(***************************************************************************)
EXTENDS Naturals, FiniteSets, Sequences, SequencesExt

CONSTANTS
    Cfgs,          \* record ids of pritunl.config
    UIWorkers, Cron,
    UiOps,         \* the requests users make, a subset of the handlers below
    MaxTries, MaxFailures, MaxUiOps,
    NoCfg

ASSUME Cfgs \subseteq Nat /\ Cron \notin UIWorkers
ASSUME UiOps \subseteq {"set_default", "unset_default", "archive", "unarchive", "sync"}

Workers == UIWorkers \cup {Cron}
Statuses == {"never", "success", "failed"}
Rec == [active: BOOLEAN, is_default: BOOLEAN, status: Statuses, fetched: Cfgs \cup {NoCfg}]
Table == [Cfgs -> Rec]
NoReq == [op |-> "none", cfg |-> CHOOSE c \in Cfgs : TRUE]

VARIABLES
    db,        \* committed pritunl_config rows
    pc, req, snap, tx,
    todo,      \* todo[w]: the configurations the cron's loop has still to sync
    touched,   \* touched[w]: rows w wrote
    stale,     \* stale[w]: rows others committed writes to since w's snapshot
    tries, failures, uiOps

vars == <<db, pc, req, snap, tx, todo, touched, stale, tries, failures, uiOps>>

DefaultTypeOK ==
    /\ db \in Table /\ snap \in [Workers -> Table] /\ tx \in [Workers -> Table]
    /\ pc \in [Workers -> {"idle", "start", "commit", "raise", "cr_item"}]
    /\ req \in [Workers -> [op: UiOps \cup {"none"}, cfg: Cfgs]]
    /\ todo \in [Workers -> Seq(Cfgs)]
    /\ touched \in [Workers -> SUBSET Cfgs] /\ stale \in [Workers -> SUBSET Cfgs]
    /\ tries \in [Workers -> 0..MaxTries]
    /\ failures \in 0..MaxFailures /\ uiOps \in 0..MaxUiOps

\* Any saved set of configurations: never synced, at most one default
\* (the form's constraint held for every save so far).
Init ==
    /\ db \in {t \in [Cfgs -> [active: BOOLEAN, is_default: BOOLEAN, status: {"never"},
                               fetched: {NoCfg}]] :
                 Cardinality({c \in Cfgs : t[c].is_default}) <= 1}
    /\ pc = [w \in Workers |-> "idle"] /\ req = [w \in Workers |-> NoReq]
    /\ snap = [w \in Workers |-> db] /\ tx = snap
    /\ todo = [w \in Workers |-> <<>>]
    /\ touched = [w \in Workers |-> {}] /\ stale = touched
    /\ tries = [w \in Workers |-> 0]
    /\ failures = 0 /\ uiOps = 0

-----------------------------------------------------------------------------
(* The transactions (environment).                                        *)

Lowest(S) == CHOOSE x \in S : \A y \in S : x <= y
Written(w) == {c \in Cfgs : tx[w][c] # snap[w][c]} \cup touched[w]
Conflict(w) == Written(w) \cap stale[w] # {}
Invalidate(D) == [v \in Workers |-> IF pc[v] \in {"idle", "start"} THEN stale[v] ELSE stale[v] \cup D]

Close(w) ==
    /\ pc' = [pc EXCEPT ![w] = "idle"] /\ req' = [req EXCEPT ![w] = NoReq]
    /\ todo' = [todo EXCEPT ![w] = <<>>]
    /\ tries' = [tries EXCEPT ![w] = 0] /\ touched' = [touched EXCEPT ![w] = {}]

Commit(w) ==
    /\ pc[w] = "commit"
    /\ IF ~Conflict(w)
       THEN /\ db' = [c \in Cfgs |-> IF c \in Written(w) THEN tx[w][c] ELSE db[c]]
            /\ stale' = [Invalidate(Written(w)) EXCEPT ![w] = {}]
            /\ Close(w)
       ELSE /\ UNCHANGED db
            /\ stale' = [stale EXCEPT ![w] = {}]
            /\ IF w \in UIWorkers /\ tries[w] < MaxTries
               THEN /\ pc' = [pc EXCEPT ![w] = "start"]
                    /\ tries' = [tries EXCEPT ![w] = @ + 1]
                    /\ touched' = [touched EXCEPT ![w] = {}]
                    /\ UNCHANGED <<req, todo>>
               ELSE Close(w)
    /\ UNCHANGED <<snap, tx, failures, uiOps>>

Rollback(w) ==
    /\ pc[w] = "raise"
    /\ Close(w) /\ stale' = [stale EXCEPT ![w] = {}]
    /\ UNCHANGED <<db, snap, tx, failures, uiOps>>

-----------------------------------------------------------------------------
(* The model's methods.                                                    *)

\* search() applies active_test: archived records are not found.
Search(t, P(_)) == {c \in Cfgs : t[c].active /\ P(c)}

\* get_default_config(): the first active default, else the first active
\* configuration (pritunl.config has no _order, so the first by id), else
\* UserError, here NoCfg.
get_default_config(t) ==
    LET d == Search(t, LAMBDA c : t[c].is_default)
        a == Search(t, LAMBDA c : TRUE)
    IN  IF d # {} THEN Lowest(d) ELSE IF a # {} THEN Lowest(a) ELSE NoCfg

\* _check_default_config() on record c after a write of is_default: it
\* raises when c is default and the search, in the writer's snapshot, finds
\* another default.
_check_default_config(t, c) ==
    t[c].is_default => Search(t, LAMBDA o : o # c /\ t[o].is_default) = {}

\* action_sync_all() on config c, in transaction t: the model syncs run on
\* get_default_config()'s appliance; then, or in the except branch, c's
\* status is written.
SyncResult(t, c, ok) ==
    [t EXCEPT ![c].status = IF ok THEN "success" ELSE "failed",
              ![c].fetched = IF ok THEN get_default_config(t) ELSE @]

-----------------------------------------------------------------------------
(* Requests.                                                               *)

\* A user saves a form or presses a button.
Request(w) ==
    /\ pc[w] = "idle" /\ uiOps < MaxUiOps
    /\ \E op \in UiOps, c \in Cfgs : req' = [req EXCEPT ![w] = [op |-> op, cfg |-> c]]
    /\ pc' = [pc EXCEPT ![w] = "start"]
    /\ uiOps' = uiOps + 1
    /\ UNCHANGED <<db, snap, tx, todo, touched, stale, tries, failures>>

\* write({'is_default': v}) or write({'active': v}) on the form's record,
\* with the constraint run at the flush, before the commit.  Only a write
\* of is_default runs it.
NewValue(w, t) ==
    LET c == req[w].cfg IN
    CASE req[w].op = "set_default"   -> [t EXCEPT ![c].is_default = TRUE]
      [] req[w].op = "unset_default" -> [t EXCEPT ![c].is_default = FALSE]
      [] req[w].op = "archive"       -> [t EXCEPT ![c].active = FALSE]
      [] req[w].op = "unarchive"     -> [t EXCEPT ![c].active = TRUE]

Write(w) ==
    /\ pc[w] = "start" /\ req[w].op # "sync"
    /\ LET t == NewValue(w, db) IN
         /\ snap' = [snap EXCEPT ![w] = db]
         /\ tx' = [tx EXCEPT ![w] = t]
         /\ touched' = [touched EXCEPT ![w] = {req[w].cfg}]
         /\ pc' = [pc EXCEPT ![w] =
                     IF req[w].op \in {"set_default", "unset_default"}
                        /\ ~_check_default_config(t, req[w].cfg)
                     THEN "raise" ELSE "commit"]
    /\ stale' = [stale EXCEPT ![w] = {}]
    /\ UNCHANGED <<db, req, todo, tries, failures, uiOps>>

\* action_sync_all() from the form's button: a failed call, or no active
\* configuration (get_default_config raises), writes 'failed' and raises
\* UserError, which rolls the transaction back.
Sync(w) ==
    /\ pc[w] = "start" /\ req[w].op = "sync"
    /\ snap' = [snap EXCEPT ![w] = db]
    /\ stale' = [stale EXCEPT ![w] = {}]
    /\ touched' = [touched EXCEPT ![w] = {req[w].cfg}]
    /\ \/ get_default_config(db) # NoCfg
          /\ tx' = [tx EXCEPT ![w] = SyncResult(db, req[w].cfg, TRUE)]
          /\ pc' = [pc EXCEPT ![w] = "commit"] /\ UNCHANGED failures
       \/ \/ get_default_config(db) = NoCfg /\ UNCHANGED failures
          \/ failures < MaxFailures /\ failures' = failures + 1
          /\ tx' = [tx EXCEPT ![w] = SyncResult(db, req[w].cfg, FALSE)]
          /\ pc' = [pc EXCEPT ![w] = "raise"]
    /\ UNCHANGED <<db, req, todo, tries, uiOps>>

\* cron_sync_pritunl_data(): configs = search([('active', '=', True)]).
CronStart ==
    /\ pc[Cron] = "idle"
    /\ snap' = [snap EXCEPT ![Cron] = db] /\ tx' = [tx EXCEPT ![Cron] = db]
    /\ todo' = [todo EXCEPT ![Cron] = SetToSortSeq(Search(db, LAMBDA c : TRUE), <)]
    /\ pc' = [pc EXCEPT ![Cron] = IF Search(db, LAMBDA c : TRUE) = {} THEN "commit" ELSE "cr_item"]
    /\ touched' = [touched EXCEPT ![Cron] = {}] /\ stale' = [stale EXCEPT ![Cron] = {}]
    /\ UNCHANGED <<db, req, tries, failures, uiOps>>

\* One pass of the loop: config.action_sync_all(); on an exception the
\* except branch writes 'failed' and the loop goes on.
CronSync ==
    /\ pc[Cron] = "cr_item"
    /\ LET c == Head(todo[Cron]) IN
         /\ \/ tx' = [tx EXCEPT ![Cron] = SyncResult(@, c, TRUE)] /\ UNCHANGED failures
            \/ failures < MaxFailures /\ failures' = failures + 1
               /\ tx' = [tx EXCEPT ![Cron] = SyncResult(@, c, FALSE)]
         /\ touched' = [touched EXCEPT ![Cron] = @ \cup {c}]
    /\ todo' = [todo EXCEPT ![Cron] = Tail(@)]
    /\ pc' = [pc EXCEPT ![Cron] = IF Len(todo[Cron]) = 1 THEN "commit" ELSE "cr_item"]
    /\ UNCHANGED <<db, req, snap, stale, tries, uiOps>>

Next ==
    \/ \E w \in UIWorkers : Request(w) \/ Write(w) \/ Sync(w)
    \/ CronStart \/ CronSync
    \/ \E w \in Workers : Commit(w) \/ Rollback(w)

Spec == Init /\ [][Next]_vars

-----------------------------------------------------------------------------
(* Properties.                                                             *)

\* _check_default_config's docstring, "Ensure only one default
\* configuration exists": at no time do two active configurations have
\* is_default set.
AtMostOneDefault ==
    Cardinality({c \in Cfgs : db[c].is_default /\ db[c].active}) <= 1

\* The cron's loop over the active configurations ("continue with other
\* configs"): a configuration that shows sync_status 'success' was last
\* synced from its own appliance.
SyncedFromOwnAppliance ==
    \A c \in Cfgs : db[c].status = "success" => db[c].fetched = c

=============================================================================
