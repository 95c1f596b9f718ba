---------------------------- MODULE PritunlUser ----------------------------
(***************************************************************************)
(* The pritunl.user model (models/pritunl_user.py) and the user calls of   *)
(* lib/users.py: Odoo records mirroring the VPN users of one organization  *)
(* on the appliance, whose disabled flag follows the user's subscription   *)
(* (sale.subscription).  create, write, unlink, action_toggle_disable,     *)
(* action_generate_otp and action_sync_from_organization run in users'    *)
(* HTTP requests; cron_check_subscriptions runs in the cron.               *)
(*                                                                         *)
(* Environment, not taken from this repository, as in PritunlOrganization: *)
(* each request is one REPEATABLE READ transaction (rollback on an         *)
(* exception, first committer wins, an aborted HTTP request re-run, an     *)
(* aborted cron job left to its next run); the appliance performs each     *)
(* call atomically and its answer may be lost after the effect.  A         *)
(* subscription changes state in a transaction of its own, which also      *)
(* recomputes the stored related field subscription_state of its users.    *)
(* Only the fields that decide the enforcement are kept: pritunl_id,       *)
(* subscription_id, subscription_state and disabled; and otp_secret.       *)
(***************************************************************************)
EXTENDS Naturals, FiniteSets, Sequences, SequencesExt

CONSTANTS
    Subs,          \* sale.subscription records
    InitSubState,  \* their states at the start
    RIds,          \* appliance user ids, allocated in increasing order
    MaxRecords,    \* ids of pritunl_user rows are 1..MaxRecords
    UIWorkers, Cron,
    OrgSynced,     \* the organization has a pritunl_id
    Timeouts,      \* whether a failed call may have taken effect (read timeout)
    UserOps,       \* the requests users make, a subset of the handlers below
    MaxTries, MaxFailures, MaxExternal, MaxUiOps, MaxSubChanges,
    NoPid, NoSub, NoRec, NoOtp, Free, Gone

\* subscription states: 'progress' and '3_progress' count as in progress,
\* every other state is one "closed" here.
SubStates == {"progress", "closed"}

ASSUME InitSubState \in [Subs -> SubStates] /\ OrgSynced \in BOOLEAN /\ Timeouts \in BOOLEAN
ASSUME RIds \subseteq Nat /\ Cron \notin UIWorkers
ASSUME UserOps \subseteq {"create", "write_sub", "toggle", "otp", "unlink", "sync"}

LIds == 1..MaxRecords
Workers == UIWorkers \cup {Cron}
\* An appliance user's OTP secret: the one made at its creation is 0, and
\* each PUT /otp_secret makes the next one.  A user is sent at most one per
\* request and re-run.
MaxOtp == MaxUiOps * (MaxTries + 1)
Secrets == 0..MaxOtp
Rec == [pid: RIds \cup {NoPid}, sub: Subs \cup {NoSub}, state: SubStates \cup {"none"},
        disabled: BOOLEAN, otp: Secrets \cup {NoOtp}]
Table == [LIds -> Rec \cup {NoRec}]
EmptyTable == [l \in LIds |-> NoRec]
Ops == {"none", "create", "write_sub", "toggle", "otp", "unlink", "sync", "check"}
NoReq == [op |-> "none", lid |-> 1, sub |-> NoSub]

VARIABLES
    remote,    \* remote[p]: appliance user p's disabled flag, or Free or Gone
    secret,    \* secret[p]: appliance user p's current OTP secret
    subState,  \* committed sale.subscription states
    db,        \* committed pritunl_user rows
    pc, req, snap, tx,
    todo,      \* todo[w]: users cron_check_subscriptions has still to handle
    listed,    \* listed[w]: entries of list_users the sync has still to handle
    touched,   \* touched[w]: rows w wrote with the values they had
    stale,     \* stale[w]: rows others committed writes to since w's snapshot
    tries, failures, extOps, uiOps, subOps

vars == <<remote, secret, subState, db, pc, req, snap, tx, todo, listed, touched, stale,
          tries, failures, extOps, uiOps, subOps>>

UserTypeOK ==
    /\ remote \in [RIds -> BOOLEAN \cup {Free, Gone}] /\ secret \in [RIds -> Secrets]
    /\ subState \in [Subs -> SubStates]
    /\ db \in Table /\ snap \in [Workers -> Table] /\ tx \in [Workers -> Table]
    /\ pc \in [Workers -> {"idle", "start", "commit", "raise", "cr_call", "up_call",
                           "un_call", "otp_call", "sy_list", "sy_item", "ck_item"}]
    /\ req \in [Workers -> [op: Ops, lid: LIds, sub: Subs \cup {NoSub}]]
    /\ todo \in [Workers -> Seq(LIds)]
    /\ listed \in [Workers -> Seq([id: RIds, disabled: BOOLEAN])]
    /\ touched \in [Workers -> SUBSET LIds] /\ stale \in [Workers -> SUBSET LIds]
    /\ tries \in [Workers -> 0..MaxTries]
    /\ failures \in 0..MaxFailures /\ extOps \in 0..MaxExternal
    /\ uiOps \in 0..MaxUiOps /\ subOps \in 0..MaxSubChanges

Init ==
    /\ remote = [p \in RIds |-> Free] /\ secret = [p \in RIds |-> 0]
    /\ subState = InitSubState
    /\ db = EmptyTable
    /\ pc = [w \in Workers |-> "idle"]
    /\ req = [w \in Workers |-> NoReq]
    /\ snap = [w \in Workers |-> EmptyTable] /\ tx = snap
    /\ todo = [w \in Workers |-> <<>>] /\ listed = [w \in Workers |-> <<>>]
    /\ touched = [w \in Workers |-> {}] /\ stale = touched
    /\ tries = [w \in Workers |-> 0]
    /\ failures = 0 /\ extOps = 0 /\ uiOps = 0 /\ subOps = 0

-----------------------------------------------------------------------------
(* The appliance and the transactions (environment).                       *)

Live(p) == p \in RIds /\ remote[p] \in BOOLEAN
FreeRids == {p \in RIds : remote[p] = Free}
Lowest(S) == CHOOSE x \in S : \A y \in S : x <= y
Outcomes == {"ok"} \cup IF failures < MaxFailures
                        THEN IF Timeouts THEN {"lost", "late"} ELSE {"lost"} ELSE {}
Applied(o) == o \in {"ok", "late"}
CountFailure(o) == failures' = IF o = "ok" THEN failures ELSE failures + 1

FreeLids == {l \in LIds : db[l] = NoRec /\ \A v \in Workers : snap[v][l] = NoRec /\ tx[v][l] = NoRec}
\* The rows w's transaction updates, inserts or deletes.  An UPDATE
\* counts even when it leaves the values as they were.
Written(w) == {l \in LIds : tx[w][l] # snap[w][l]} \cup touched[w]
\* First committer wins: another transaction committed an update of a row
\* w also updates, after w's snapshot.
Conflict(w) == Written(w) \cap stale[w] # {}
\* Workers whose open transaction sees rows D committed by someone else.
Invalidate(D) == [v \in Workers |-> IF pc[v] \in {"idle", "start"} THEN stale[v] ELSE stale[v] \cup D]

Close(w) ==
    /\ pc' = [pc EXCEPT ![w] = "idle"] /\ req' = [req EXCEPT ![w] = NoReq]
    /\ snap' = [snap EXCEPT ![w] = EmptyTable] /\ tx' = [tx EXCEPT ![w] = EmptyTable]
    /\ todo' = [todo EXCEPT ![w] = <<>>] /\ listed' = [listed EXCEPT ![w] = <<>>]
    /\ tries' = [tries EXCEPT ![w] = 0]
    /\ touched' = [touched EXCEPT ![w] = {}]

Commit(w) ==
    /\ pc[w] = "commit"
    /\ IF ~Conflict(w)
       THEN /\ db' = [l \in LIds |-> IF l \in Written(w) THEN tx[w][l] ELSE db[l]]
            /\ stale' = [Invalidate(Written(w)) EXCEPT ![w] = {}]
            /\ Close(w)
       ELSE /\ UNCHANGED db
            /\ stale' = [stale EXCEPT ![w] = {}]
            /\ IF w \in UIWorkers /\ tries[w] < MaxTries
               THEN /\ pc' = [pc EXCEPT ![w] = "start"]
                    /\ tries' = [tries EXCEPT ![w] = @ + 1]
                    /\ touched' = [touched EXCEPT ![w] = {}]
                    /\ UNCHANGED <<req, snap, tx, todo, listed>>
               ELSE Close(w)
    /\ UNCHANGED <<remote, secret, subState, failures, extOps, uiOps, subOps>>

\* An exception ends the request (or the cron job) and rolls it back.
Rollback(w) ==
    /\ pc[w] = "raise"
    /\ Close(w) /\ stale' = [stale EXCEPT ![w] = {}]
    /\ UNCHANGED <<remote, secret, subState, db, failures, extOps, uiOps, subOps>>

Begin(w, t, next) ==
    /\ snap' = [snap EXCEPT ![w] = db] /\ tx' = [tx EXCEPT ![w] = t]
    /\ pc' = [pc EXCEPT ![w] = next]
    /\ touched' = [touched EXCEPT ![w] = {}] /\ stale' = [stale EXCEPT ![w] = {}]

Raise(w) == Begin(w, db, "raise")

-----------------------------------------------------------------------------
(* The SDK calls (lib/users.py): one signed request each.                  *)

\* _prepare_pritunl_values(): of the values sent, the model keeps disabled.
PritunlValues(r) == r.disabled

\* create_user(): POST /user/{org_id}; the appliance creates user p.
CreateUser(p, r) == [remote EXCEPT ![p] = PritunlValues(r)]

\* update_user(): PUT /user/{org_id}/{user_id} of the values given.
UpdateUser(p, r) == [remote EXCEPT ![p] = PritunlValues(r)]

\* delete_user(): DELETE /user/{org_id}/{user_id}.
DeleteUser(p) == [remote EXCEPT ![p] = Gone]

\* generate_otp_secret(): PUT /user/{org_id}/{user_id}/otp_secret; the
\* appliance replaces the user's secret and answers with the new one.
GenerateOtpSecret(p) == [secret EXCEPT ![p] = @ + 1]

\* list_users(): GET /user/{org_id}, the users in id order.
Listing == LET ids == SetToSortSeq({p \in RIds : Live(p)}, <)
           IN [i \in 1..Len(ids) |-> [id |-> ids[i], disabled |-> remote[ids[i]]]]

-----------------------------------------------------------------------------
(* Requests users start.                                                   *)

Existing == {l \in LIds : db[l] # NoRec}

\* Bound: a create starts only while the pools of appliance ids and rows
\* leave room for it, the administrator's remaining creates and a sync
\* importing every appliance id.
CreateRoom ==
    /\ Cardinality(FreeRids) >= 1 + MaxExternal - extOps
    /\ Cardinality(FreeLids) >= 1 + Cardinality(RIds \ FreeRids)

BeginUI(w, r) ==
    /\ w \in UIWorkers /\ pc[w] = "idle" /\ uiOps < MaxUiOps /\ r.op \in UserOps
    /\ req' = [req EXCEPT ![w] = r] /\ pc' = [pc EXCEPT ![w] = "start"]
    /\ uiOps' = uiOps + 1
    /\ UNCHANGED <<touched, stale, remote, secret, subState, db, snap, tx, todo, listed, tries, failures, extOps, subOps>>

UserRequest(w) ==
    \/ \E s \in Subs \cup {NoSub} :
          CreateRoom /\ BeginUI(w, [NoReq EXCEPT !.op = "create", !.sub = s])
    \/ \E l \in Existing, s \in Subs \cup {NoSub} :
          s # db[l].sub /\ BeginUI(w, [NoReq EXCEPT !.op = "write_sub", !.lid = l, !.sub = s])
    \/ \E l \in Existing : BeginUI(w, [NoReq EXCEPT !.op = "toggle", !.lid = l])
    \/ \E l \in Existing : BeginUI(w, [NoReq EXCEPT !.op = "otp", !.lid = l])
    \/ \E l \in Existing : BeginUI(w, [NoReq EXCEPT !.op = "unlink", !.lid = l])
    \/ BeginUI(w, [NoReq EXCEPT !.op = "sync"])

-----------------------------------------------------------------------------
(* pritunl.user handlers.                                                  *)

\* subscription_state of a record linked to subscription s.
StateOf(s) == IF s = NoSub THEN "none" ELSE subState[s]

InProgress(st) == st = "progress"

\* Mutant: only re-enables users whose subscription is in progress.
MustFlipOnlyEnable(r) == r.sub # NoSub /\ InProgress(r.state) /\ r.disabled

\* _handle_subscription_change() for one record: TRUE when it sets
\* record.disabled to the opposite of its current value.
MustFlip(r) ==
    /\ r.sub # NoSub
    /\ \/ ~InProgress(r.state) /\ ~r.disabled
       \/ InProgress(r.state) /\ r.disabled

\* create(): super().create(), then create_user when the organization has
\* a pritunl_id.  create() does not look at the subscription.
StartCreate(w) ==
    LET l == Lowest(FreeLids)
        r == [pid |-> NoPid, sub |-> req[w].sub, state |-> StateOf(req[w].sub),
              disabled |-> FALSE, otp |-> NoOtp]
    IN /\ pc[w] = "start" /\ req[w].op = "create" /\ FreeLids # {}
       /\ Begin(w, [db EXCEPT ![l] = r], IF OrgSynced THEN "cr_call" ELSE "commit")
       /\ req' = [req EXCEPT ![w].lid = l]
       /\ UNCHANGED <<remote, secret, subState, db, todo, listed, tries, failures, extOps, uiOps, subOps>>

\* Mutant: stores the id after the one the appliance gave in pritunl_id.
CreateCallNextId(w) ==
    LET l == req[w].lid
        p == Lowest(FreeRids)
    IN /\ pc[w] = "cr_call" /\ FreeRids # {}
       /\ \E o \in Outcomes :
            /\ remote' = IF Applied(o) THEN CreateUser(p, tx[w][l]) ELSE remote
            /\ CountFailure(o)
            /\ tx' = IF o = "ok" THEN [tx EXCEPT ![w][l].pid = p + 1] ELSE tx
            /\ pc' = [pc EXCEPT ![w] = IF o = "ok" THEN "commit" ELSE "raise"]
       /\ UNCHANGED <<touched, stale, secret, subState, db, req, snap, todo, listed, tries, extOps, uiOps, subOps>>

CreateCall(w) ==
    LET l == req[w].lid
        p == Lowest(FreeRids)
    IN /\ pc[w] = "cr_call" /\ FreeRids # {}
       /\ \E o \in Outcomes :
            /\ remote' = IF Applied(o) THEN CreateUser(p, tx[w][l]) ELSE remote
            /\ CountFailure(o)
            /\ tx' = IF o = "ok" THEN [tx EXCEPT ![w][l].pid = p] ELSE tx
            /\ pc' = [pc EXCEPT ![w] = IF o = "ok" THEN "commit" ELSE "raise"]
       /\ UNCHANGED <<touched, stale, secret, subState, db, req, snap, todo, listed, tries, extOps, uiOps, subOps>>

\* write({'subscription_id': s}): _handle_subscription_change() runs first,
\* on the record as it is before the write (old subscription and state);
\* a flip of disabled is a nested write() that sends update_user.  Then
\* super().write() links s, and the ORM recomputes subscription_state.
\* subscription_id is not a Pritunl field, so no further call.
StartWriteSub(w) ==
    LET l == req[w].lid
        old == db[l]
        new == [old EXCEPT !.disabled = IF MustFlip(old) THEN ~old.disabled ELSE old.disabled,
                           !.sub = req[w].sub, !.state = StateOf(req[w].sub)]
    IN /\ pc[w] = "start" /\ req[w].op = "write_sub"
       /\ IF l \in Existing
          THEN Begin(w, [db EXCEPT ![l] = new],
                     IF MustFlip(old) /\ old.pid # NoPid THEN "up_call" ELSE "commit")
          ELSE Raise(w)
       /\ UNCHANGED <<remote, secret, subState, db, req, todo, listed, tries, failures, extOps, uiOps, subOps>>

\* action_toggle_disable(): record.disabled = not record.disabled, a write()
\* of a Pritunl field, so update_user when the record has a pritunl_id.
StartToggle(w) ==
    LET l == req[w].lid
    IN /\ pc[w] = "start" /\ req[w].op = "toggle"
       /\ IF l \in Existing
          THEN Begin(w, [db EXCEPT ![l].disabled = ~@],
                     IF db[l].pid # NoPid THEN "up_call" ELSE "commit")
          ELSE Raise(w)
       /\ UNCHANGED <<remote, secret, subState, db, req, todo, listed, tries, failures, extOps, uiOps, subOps>>

\* The record update_user is sent for, and where the handler goes after it.
Target(w) == IF w = Cron THEN Head(todo[w]) ELSE req[w].lid
CronNext(w) == IF Tail(todo[w]) = <<>> THEN "commit" ELSE "ck_item"

\* update_user(org_id, user_id, **_prepare_pritunl_values()): a PUT of the
\* record's values, disabled included; an error raises UserError.
UpdateCall(w) ==
    LET p == tx[w][Target(w)].pid
    IN /\ pc[w] = "up_call"
       /\ IF Live(p)
          THEN \E o \in Outcomes :
                 /\ remote' = IF Applied(o) THEN UpdateUser(p, tx[w][Target(w)]) ELSE remote
                 /\ CountFailure(o)
                 /\ IF o = "ok"
                    THEN IF w = Cron
                         THEN /\ todo' = [todo EXCEPT ![w] = Tail(@)]
                              /\ pc' = [pc EXCEPT ![w] = CronNext(w)]
                         ELSE pc' = [pc EXCEPT ![w] = "commit"] /\ UNCHANGED todo
                    ELSE pc' = [pc EXCEPT ![w] = "raise"] /\ UNCHANGED todo
          ELSE pc' = [pc EXCEPT ![w] = "raise"] /\ UNCHANGED <<remote, secret, failures, todo>>
       /\ UNCHANGED <<touched, stale, secret, subState, db, req, snap, tx, listed, tries, extOps, uiOps, subOps>>

\* action_generate_otp(): UserError unless the record has a pritunl_id;
\* generate_otp_secret, then write otp_secret (not a Pritunl field, so no
\* update_user); any error becomes a UserError.
StartOtp(w) ==
    LET l == req[w].lid
    IN /\ pc[w] = "start" /\ req[w].op = "otp"
       /\ IF l \in Existing /\ db[l].pid # NoPid THEN Begin(w, db, "otp_call") ELSE Raise(w)
       /\ UNCHANGED <<remote, secret, subState, db, req, todo, listed, tries, failures, extOps, uiOps, subOps>>

OtpCall(w) ==
    LET l == req[w].lid
        p == tx[w][l].pid
    IN /\ pc[w] = "otp_call"
       /\ IF Live(p)
          THEN \E o \in Outcomes :
                 /\ secret' = IF Applied(o) THEN GenerateOtpSecret(p) ELSE secret
                 /\ CountFailure(o)
                 /\ tx' = IF o = "ok" THEN [tx EXCEPT ![w][l].otp = secret'[p]] ELSE tx
                 /\ pc' = [pc EXCEPT ![w] = IF o = "ok" THEN "commit" ELSE "raise"]
          ELSE pc' = [pc EXCEPT ![w] = "raise"] /\ UNCHANGED <<secret, failures, tx>>
       /\ UNCHANGED <<touched, stale, remote, subState, db, req, snap, todo, listed, tries, extOps, uiOps, subOps>>

\* unlink(): delete_user for a record with a pritunl_id (the organization
\* having one), then super().unlink().
\* Mutant: super().unlink() without delete_user.
StartUnlinkLocalOnly(w) ==
    LET l == req[w].lid
    IN /\ pc[w] = "start" /\ req[w].op = "unlink"
       /\ IF l \in Existing THEN Begin(w, [db EXCEPT ![l] = NoRec], "commit") ELSE Raise(w)
       /\ UNCHANGED <<remote, secret, subState, db, req, todo, listed, tries, failures, extOps, uiOps, subOps>>

StartUnlink(w) ==
    LET l == req[w].lid
    IN /\ pc[w] = "start" /\ req[w].op = "unlink"
       /\ IF l \in Existing
          THEN IF db[l].pid # NoPid /\ OrgSynced
               THEN Begin(w, db, "un_call")
               ELSE Begin(w, [db EXCEPT ![l] = NoRec], "commit")
          ELSE Raise(w)
       /\ UNCHANGED <<remote, secret, subState, db, req, todo, listed, tries, failures, extOps, uiOps, subOps>>

UnlinkCall(w) ==
    LET l == req[w].lid
        p == tx[w][l].pid
    IN /\ pc[w] = "un_call"
       /\ IF Live(p)
          THEN \E o \in Outcomes :
                 /\ remote' = IF Applied(o) THEN DeleteUser(p) ELSE remote
                 /\ CountFailure(o)
                 /\ tx' = IF o = "ok" THEN [tx EXCEPT ![w][l] = NoRec] ELSE tx
                 /\ pc' = [pc EXCEPT ![w] = IF o = "ok" THEN "commit" ELSE "raise"]
          ELSE pc' = [pc EXCEPT ![w] = "raise"] /\ UNCHANGED <<remote, secret, failures, tx>>
       /\ UNCHANGED <<touched, stale, secret, subState, db, req, snap, todo, listed, tries, extOps, uiOps, subOps>>

\* action_sync_from_organization(): UserError unless the organization has
\* a pritunl_id; list_users; for each listed user write name, email and
\* disabled on the record with its pritunl_id -- a write of Pritunl fields,
\* so update_user sends them back -- or create a record carrying the
\* pritunl_id (which create() then does not push).
StartSync(w) ==
    /\ pc[w] = "start" /\ req[w].op = "sync"
    /\ IF OrgSynced THEN Begin(w, db, "sy_list") ELSE Raise(w)
    /\ UNCHANGED <<remote, secret, subState, db, req, todo, listed, tries, failures, extOps, uiOps, subOps>>

SyncList(w) ==
    /\ pc[w] = "sy_list"
    /\ \E o \in Outcomes \ {"late"} :
         /\ CountFailure(o)
         /\ listed' = [listed EXCEPT ![w] = IF o = "ok" THEN Listing ELSE <<>>]
         /\ pc' = [pc EXCEPT ![w] = CASE o # "ok" -> "raise"
                                      [] Listing = <<>> -> "commit"
                                      [] OTHER -> "sy_item"]
    /\ UNCHANGED <<touched, stale, remote, secret, subState, db, req, snap, tx, todo, tries, extOps, uiOps, subOps>>

Found(w, p) == {l \in LIds : tx[w][l] # NoRec /\ tx[w][l].pid = p}
SyncNext(w) == IF Tail(listed[w]) = <<>> THEN "commit" ELSE "sy_item"

SyncItem(w) ==
    LET i == Head(listed[w])
    IN /\ pc[w] = "sy_item"
       /\ IF Found(w, i.id) # {}
          THEN LET l == Lowest(Found(w, i.id))
                   t == [tx EXCEPT ![w][l].disabled = i.disabled]
               IN
               /\ tx' = t
               /\ touched' = [touched EXCEPT ![w] = @ \cup {l}]
               /\ IF Live(i.id)
                  THEN \E o \in Outcomes :
                         /\ remote' = IF Applied(o) THEN UpdateUser(i.id, t[w][l]) ELSE remote
                         /\ CountFailure(o)
                         /\ listed' = IF o = "ok" THEN [listed EXCEPT ![w] = Tail(@)] ELSE listed
                         /\ pc' = [pc EXCEPT ![w] = IF o = "ok" THEN SyncNext(w) ELSE "raise"]
                  ELSE /\ pc' = [pc EXCEPT ![w] = "raise"]
                       /\ UNCHANGED <<remote, secret, failures, listed>>
          ELSE /\ FreeLids # {}
               /\ tx' = [tx EXCEPT ![w][Lowest(FreeLids)] =
                           [pid |-> i.id, sub |-> NoSub, state |-> "none",
                            disabled |-> i.disabled, otp |-> NoOtp]]
               /\ listed' = [listed EXCEPT ![w] = Tail(@)]
               /\ pc' = [pc EXCEPT ![w] = SyncNext(w)]
               /\ UNCHANGED <<remote, secret, failures, touched>>
       /\ UNCHANGED <<stale, secret, subState, db, req, snap, todo, tries, extOps, uiOps, subOps>>

\* cron_check_subscriptions(): search the users with a subscription, then
\* _handle_subscription_change() on each in turn; nothing catches an
\* exception, so one failing update_user rolls the whole job back.
CronBegin ==
    LET users == SetToSortSeq({l \in LIds : db[l] # NoRec /\ db[l].sub # NoSub}, <)
    IN /\ pc[Cron] = "idle"
       /\ req' = [req EXCEPT ![Cron].op = "check"]
       /\ todo' = [todo EXCEPT ![Cron] = users]
       /\ Begin(Cron, db, IF users = <<>> THEN "commit" ELSE "ck_item")
       /\ UNCHANGED <<remote, secret, subState, db, listed, tries, failures, extOps, uiOps, subOps>>

CheckItem(w) ==
    LET l == Head(todo[w])
        r == tx[w][l]
    IN /\ pc[w] = "ck_item"
       /\ IF MustFlip(r)
          THEN /\ tx' = [tx EXCEPT ![w][l].disabled = ~@]
               /\ IF r.pid # NoPid
                  THEN pc' = [pc EXCEPT ![w] = "up_call"] /\ UNCHANGED todo
                  ELSE /\ todo' = [todo EXCEPT ![w] = Tail(@)]
                       /\ pc' = [pc EXCEPT ![w] = CronNext(w)]
          ELSE /\ todo' = [todo EXCEPT ![w] = Tail(@)]
               /\ pc' = [pc EXCEPT ![w] = CronNext(w)]
               /\ UNCHANGED tx
       /\ UNCHANGED <<touched, stale, remote, secret, subState, db, req, snap, listed, tries, failures, extOps, uiOps, subOps>>

-----------------------------------------------------------------------------
(* The rest of the world.                                                  *)

\* A subscription changes state (renewed or closed) in its own
\* transaction; the stored related subscription_state of its users is
\* recomputed in it.  pritunl.user's write() is not called.
SubscriptionChange ==
    /\ subOps < MaxSubChanges
    /\ \E s \in Subs :
         LET st == IF subState[s] = "progress" THEN "closed" ELSE "progress"
         IN /\ subState' = [subState EXCEPT ![s] = st]
            /\ db' = [l \in LIds |-> IF db[l] # NoRec /\ db[l].sub = s
                                     THEN [db[l] EXCEPT !.state = st] ELSE db[l]]
            /\ stale' = Invalidate({l \in LIds : db[l] # NoRec /\ db[l].sub = s})
    /\ subOps' = subOps + 1
    /\ UNCHANGED <<touched, remote, secret, pc, req, snap, tx, todo, listed, tries, failures, extOps, uiOps>>

\* An administrator on the appliance: adds a user, flips one's disabled
\* flag, or deletes one.
External ==
    /\ extOps < MaxExternal
    /\ extOps' = extOps + 1
    /\ \/ FreeRids # {} /\ remote' = [remote EXCEPT ![Lowest(FreeRids)] = FALSE]
       \/ \E p \in RIds : Live(p) /\ remote' = [remote EXCEPT ![p] = ~remote[p]]
       \/ \E p \in RIds : Live(p) /\ remote' = [remote EXCEPT ![p] = Gone]
    /\ UNCHANGED <<touched, stale, secret, subState, db, pc, req, snap, tx, todo, listed, tries, failures, uiOps, subOps>>

-----------------------------------------------------------------------------

Step(w) ==
    \/ StartCreate(w) \/ CreateCall(w) \/ StartWriteSub(w) \/ StartToggle(w)
    \/ UpdateCall(w) \/ StartOtp(w) \/ OtpCall(w) \/ StartUnlink(w) \/ UnlinkCall(w)
    \/ StartSync(w) \/ SyncList(w) \/ SyncItem(w) \/ CheckItem(w)
    \/ Commit(w) \/ Rollback(w)

Next ==
    \/ SubscriptionChange \/ External \/ CronBegin
    \/ \E w \in Workers : UserRequest(w) \/ Step(w)

\* Requests in progress end (each call is bounded by the client's timeout)
\* and the scheduler starts cron_check_subscriptions again and again.
Fairness == /\ \A w \in Workers : WF_vars(Step(w))
            /\ WF_vars(CronBegin)

Spec == Init /\ [][Next]_vars /\ Fairness

-----------------------------------------------------------------------------
(* Properties.                                                             *)

\* A committed user governed by a subscription: it has a pritunl_id still
\* on the appliance and its subscription_state is st.
Governed(l, st) ==
    /\ db[l] # NoRec /\ db[l].sub # NoSub /\ db[l].pid # NoPid
    /\ Live(db[l].pid) /\ db[l].state = st

\* The appliance enforces the subscription: the user is disabled there
\* exactly when the subscription is not in progress.
Enforced(l) == remote[db[l].pid] = ~InProgress(db[l].state)

\* Every user whose subscription is (or stops being) in progress is
\* eventually enabled (disabled) on the appliance, unless its record,
\* subscription or appliance user goes away first: cron_check_subscriptions
\* repeats _handle_subscription_change until it sticks.
SubscriptionEventuallyEnforced ==
    \A l \in LIds, st \in SubStates :
        Governed(l, st) ~> (~Governed(l, st) \/ Enforced(l))

\* unlink() never removes a user record while its user is still on the
\* appliance: the committed delete of a record with a pritunl_id comes
\* after delete_user took effect, whatever the sync or the cron committed
\* on the same row in between.
UnlinkDeletesUserFirst ==
    [][\A l \in LIds : (db[l] # NoRec /\ db'[l] = NoRec /\ db[l].pid # NoPid)
                          => remote'[db[l].pid] = Gone]_vars

\* A write of subscription_id leaves the user disabled exactly when the new
\* subscription is not in progress, as _handle_subscription_change, called
\* by write() when 'subscription_id' is in vals, means to ensure.
SubscriptionWriteApplied ==
    [][\A w \in UIWorkers :
         LET l == req[w].lid
         IN (pc[w] = "commit" /\ pc'[w] = "idle" /\ req[w].op = "write_sub"
             /\ db' # db /\ db'[l] # NoRec /\ db'[l].sub # NoSub)
            => db'[l].disabled = ~InProgress(db'[l].state)]_vars

\* The OTP secret a user record shows is the one the appliance checks:
\* action_generate_otp writes the secret generate_otp_secret returned.
OtpSecretCurrent ==
    (\A w \in Workers : pc[w] = "idle") =>
        \A l \in Existing : (db[l].otp # NoOtp /\ Live(db[l].pid)) => db[l].otp = secret[db[l].pid]

=============================================================================
