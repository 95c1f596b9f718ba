------------------------- MODULE PritunlOrganization -------------------------
(***************************************************************************)
(* The pritunl.organization model (models/pritunl_organization.py): Odoo  *)
(* records that mirror the appliance's organizations.  Its create, write   *)
(* and unlink overrides call the appliance from inside an Odoo database    *)
(* transaction, and action_sync_from_pritunl imports the appliance's list. *)
(*                                                                         *)
(* Environment modelled here and not taken from this repository:           *)
(*  - Odoo runs every request in one PostgreSQL REPEATABLE READ            *)
(*    transaction: it reads a snapshot, an exception rolls the whole       *)
(*    request back, a concurrent update of the same row aborts the later   *)
(*    committer, and an HTTP request so aborted is re-run from the start;  *)
(*  - the appliance keeps the organizations and performs each call         *)
(*    atomically; its answer may be lost after the call took effect (a     *)
(*    read timeout), which the client reports as an error;                 *)
(*  - an administrator may change the appliance directly.                  *)
(* The configuration row (pritunl.config sync_status) shares the           *)
(* transaction, so its committed value and per-worker copies live here;    *)
(* its handlers are in PritunlConfig.                                      *)
(***************************************************************************)
EXTENDS Naturals, FiniteSets, Sequences, SequencesExt

CONSTANTS
    Names,        \* organization names
    RIds,         \* appliance object ids, allocated in increasing order
    MaxRecords,   \* ids of pritunl_organization rows are 1..MaxRecords
    UIWorkers,    \* Odoo workers serving users' HTTP requests
    Cron,         \* the Odoo worker running scheduled actions
    MaxBatch,     \* records in one create/write/unlink call
    MaxTries,     \* re-runs of an HTTP request after a serialization failure
    MaxFailures,  \* failed appliance calls in a behaviour
    MaxExternal,  \* changes made directly on the appliance
    MaxUiOps,     \* requests started by users
    NoPid, NoRec, Free, Gone

ASSUME RIds \subseteq Nat /\ MaxRecords \in Nat /\ Cron \notin UIWorkers /\ MaxBatch \in 1..2
ASSUME {NoPid, NoRec, Free, Gone} \cap (Names \cup RIds) = {}

LIds == 1..MaxRecords
Workers == UIWorkers \cup {Cron}

\* A row of pritunl_organization: name, pritunl_id, active.
Rec == [name: Names, pid: RIds \cup {NoPid}, active: BOOLEAN]
Table == [LIds -> Rec \cup {NoRec}]
EmptyTable == [l \in LIds |-> NoRec]

\* pritunl.config sync_status
Status == {"never", "success", "failed"}
\* The pritunl.config row, beside the organization rows 1..MaxRecords.
CfgRow == 0
Rows == LIds \cup {CfgRow}

\* A pending request: the handler and its arguments.
Req == [op: {"none", "create", "write", "unlink", "sync", "test", "sync_all"},
        names: Seq(Names), lids: SUBSET LIds, vals: [field: {"name", "active"},
        value: Names \cup BOOLEAN]]
NoReq == [op |-> "none", names |-> <<>>, lids |-> {},
          vals |-> [field |-> "active", value |-> TRUE]]

VARIABLES
    remote,    \* remote[p]: the appliance's organization p (a name, Free or Gone)
    db,        \* committed pritunl_organization rows
    cfg,       \* committed pritunl.config sync_status
    pc,        \* pc[w]: where worker w is in its request
    req,       \* req[w]: the request worker w serves
    ret,       \* ret[w]: "top", or "sync_all" when org sync runs inside action_sync_all
    snap,      \* snap[w]: the rows as they were when w's transaction began
    tx,        \* tx[w]: the rows as w's transaction sees them
    cfgSnap, cfgTx,
    todo,      \* todo[w]: records the handler's loop has left
    listed,    \* listed[w]: entries of list_organizations the sync has left
    tries,     \* tries[w]: serialization failures of w's current request
    touched,   \* touched[w]: rows w updated, even to the values they had
    stale,     \* stale[w]: rows others committed updates of since w's snapshot
    failures, extOps, uiOps

orgVars == <<remote, db, pc, req, ret, snap, tx, todo, listed, tries>>
cfgVars == <<cfg, cfgSnap, cfgTx>>
budgetVars == <<failures, extOps, uiOps>>
rowVars == <<touched, stale>>
vars == <<orgVars, cfgVars, budgetVars, rowVars>>

TypeOK ==
    /\ remote \in [RIds -> Names \cup {Free, Gone}]
    /\ db \in Table /\ cfg \in Status
    /\ pc \in [Workers -> {"idle", "start", "commit", "raise", "cr_call", "wr_call",
                           "un_call", "sy_list", "sy_item", "sy_done", "test_call",
                           "sa_servers", "sa_hosts", "sa_except", "cron_except"}]
    /\ req \in [Workers -> Req]
    /\ ret \in [Workers -> {"top", "sync_all"}]
    /\ snap \in [Workers -> Table] /\ tx \in [Workers -> Table]
    /\ cfgSnap \in [Workers -> Status] /\ cfgTx \in [Workers -> Status]
    /\ todo \in [Workers -> Seq(LIds)]
    /\ listed \in [Workers -> Seq([id: RIds, name: Names])]
    /\ tries \in [Workers -> 0..MaxTries]
    /\ touched \in [Workers -> SUBSET Rows] /\ stale \in [Workers -> SUBSET Rows]
    /\ failures \in 0..MaxFailures /\ extOps \in 0..MaxExternal /\ uiOps \in 0..MaxUiOps

Init ==
    /\ remote = [p \in RIds |-> Free]
    /\ db = EmptyTable /\ cfg = "never"
    /\ pc = [w \in Workers |-> "idle"]
    /\ req = [w \in Workers |-> NoReq]
    /\ ret = [w \in Workers |-> "top"]
    /\ snap = [w \in Workers |-> EmptyTable] /\ tx = snap
    /\ cfgSnap = [w \in Workers |-> "never"] /\ cfgTx = cfgSnap
    /\ todo = [w \in Workers |-> <<>>] /\ listed = todo
    /\ tries = [w \in Workers |-> 0]
    /\ touched = [w \in Workers |-> {}] /\ stale = touched
    /\ failures = 0 /\ extOps = 0 /\ uiOps = 0

-----------------------------------------------------------------------------
(* The appliance.                                                          *)

Live(p) == remote[p] \in Names
FreeRids == {p \in RIds : remote[p] = Free}
\* The id the appliance gives the next object it creates.
NewRid == CHOOSE p \in FreeRids : \A q \in FreeRids : p <= q

\* How one call ends: answered ("ok"); failed before it took effect
\* ("lost": HttpError, refused connection); took effect but its answer never
\* came ("late": read timeout).  PritunlAuth.request makes no retry.
Outcomes(effectful) ==
    {"ok"} \cup IF failures < MaxFailures
                THEN IF effectful THEN {"lost", "late"} ELSE {"lost"} ELSE {}
Applied(o) == o \in {"ok", "late"}
CountFailure(o) == failures' = IF o = "ok" THEN failures ELSE failures + 1

-----------------------------------------------------------------------------
(* Odoo's transactions.                                                    *)

\* Rows that no committed state and no open transaction uses: the ORM's
\* next ids.
FreeLids == {l \in LIds : db[l] = NoRec /\ \A v \in Workers : snap[v][l] = NoRec /\ tx[v][l] = NoRec}
Lowest(S) == CHOOSE l \in S : \A m \in S : l <= m
\* The k lowest free rows, in order (k <= 2).
NewLids(k) == LET f == FreeLids
                  l1 == Lowest(f)
              IN CASE k = 0 \/ f = {} -> <<>>
                   [] k = 1 \/ f = {l1} -> <<l1>>
                   [] OTHER -> <<l1, Lowest(f \ {l1})>>

\* The rows w's transaction inserts, updates or deletes.  An UPDATE counts
\* even when it leaves the values as they were; every write of the
\* configuration sets last_sync_date, so it is always one.
Written(w) == {l \in LIds : tx[w][l] # snap[w][l]} \cup touched[w]
\* First committer wins: w updates or deletes a row another transaction
\* committed an update of after w's snapshot.
Conflict(w) == Written(w) \cap stale[w] # {}
\* Workers whose open transaction sees rows D committed by someone else.
Invalidate(D) == [v \in Workers |-> IF pc[v] \in {"idle", "start"} THEN stale[v] ELSE stale[v] \cup D]

\* Worker w goes back to waiting, its transaction closed.
Close(w) ==
    /\ pc' = [pc EXCEPT ![w] = "idle"]
    /\ req' = [req EXCEPT ![w] = NoReq]
    /\ ret' = [ret EXCEPT ![w] = "top"]
    /\ snap' = [snap EXCEPT ![w] = EmptyTable] /\ tx' = [tx EXCEPT ![w] = EmptyTable]
    /\ cfgSnap' = [cfgSnap EXCEPT ![w] = "never"] /\ cfgTx' = [cfgTx EXCEPT ![w] = "never"]
    /\ todo' = [todo EXCEPT ![w] = <<>>] /\ listed' = [listed EXCEPT ![w] = <<>>]
    /\ tries' = [tries EXCEPT ![w] = 0]
    /\ touched' = [touched EXCEPT ![w] = {}]

\* The request ends normally and its transaction commits, or is aborted by
\* a serialization failure; Odoo re-runs an aborted HTTP request, while a
\* cron job aborted so waits for its next run.
Commit(w) ==
    /\ pc[w] = "commit"
    /\ IF ~Conflict(w)
       THEN /\ db' = [l \in LIds |-> IF l \in Written(w) THEN tx[w][l] ELSE db[l]]
            /\ cfg' = IF CfgRow \in Written(w) THEN cfgTx[w] ELSE cfg
            /\ Close(w)
            /\ stale' = [Invalidate(Written(w)) EXCEPT ![w] = {}]
       ELSE /\ UNCHANGED <<db, cfg>>
            /\ stale' = [stale EXCEPT ![w] = {}]
            /\ IF w \in UIWorkers /\ tries[w] < MaxTries
               THEN /\ pc' = [pc EXCEPT ![w] = "start"]
                    /\ tries' = [tries EXCEPT ![w] = @ + 1]
                    /\ ret' = [ret EXCEPT ![w] = "top"]
                    /\ touched' = [touched EXCEPT ![w] = {}]
                    /\ UNCHANGED <<req, snap, tx, cfgSnap, cfgTx, todo, listed>>
               ELSE Close(w)
    /\ UNCHANGED <<remote, budgetVars>>

\* An exception reaches the top of an HTTP request: the transaction is
\* rolled back and the user sees a UserError.
Rollback(w) ==
    /\ pc[w] = "raise" /\ ret[w] = "top"
    /\ Close(w) /\ stale' = [stale EXCEPT ![w] = {}]
    /\ UNCHANGED <<remote, db, cfg, budgetVars>>

\* Begin the request's transaction on a fresh snapshot.
Snapshot(w) ==
    /\ snap' = [snap EXCEPT ![w] = db] /\ cfgSnap' = [cfgSnap EXCEPT ![w] = cfg]
    /\ cfgTx' = [cfgTx EXCEPT ![w] = cfg]
    /\ touched' = [touched EXCEPT ![w] = {}] /\ stale' = [stale EXCEPT ![w] = {}]

-----------------------------------------------------------------------------
(* Requests users start.                                                   *)

BeginUI(w, r) ==
    /\ w \in UIWorkers /\ pc[w] = "idle" /\ uiOps < MaxUiOps
    /\ req' = [req EXCEPT ![w] = r]
    /\ pc' = [pc EXCEPT ![w] = "start"]
    /\ uiOps' = uiOps + 1
    /\ UNCHANGED <<remote, db, cfg, ret, snap, tx, cfgSnap, cfgTx, todo, listed, tries, failures, extOps, rowVars>>

Existing == {l \in LIds : db[l] # NoRec}
\* Bound: a create starts only if the model's pools of appliance ids and
\* of rows leave room for it, for the administrator's remaining creates and
\* for a sync importing every appliance id.
CreateRoom(k) ==
    /\ Cardinality(FreeRids) >= k + MaxExternal - extOps
    /\ Cardinality(FreeLids) >= k + Cardinality(RIds)
Batches(S) == {B \in SUBSET S : B # {} /\ Cardinality(B) <= MaxBatch}
Vals == [field: {"name"}, value: Names] \cup [field: {"active"}, value: BOOLEAN]

UserRequest(w) ==
    \/ \E k \in 1..MaxBatch : \E ns \in [1..k -> Names] :
          /\ CreateRoom(k)
          /\ BeginUI(w, [NoReq EXCEPT !.op = "create", !.names = ns])
    \/ \E B \in Batches(Existing) : \E v \in Vals :
          BeginUI(w, [NoReq EXCEPT !.op = "write", !.lids = B, !.vals = v])
    \/ \E B \in Batches(Existing) :
          BeginUI(w, [NoReq EXCEPT !.op = "unlink", !.lids = B])
    \/ BeginUI(w, [NoReq EXCEPT !.op = "sync"])

-----------------------------------------------------------------------------
(* pritunl.organization handlers.                                          *)

\* The records of B that have a pritunl_id, in id order.
WithPid(t, B) == SetToSortSeq({l \in B : t[l].pid # NoPid}, <)

\* Move on to the handler's next loop item, or past the loop to pc `after`.
AdvanceIn(q, w, loop, after) ==
    /\ q' = [q EXCEPT ![w] = Tail(@)]
    /\ pc' = [pc EXCEPT ![w] = IF Tail(q[w]) = <<>> THEN after ELSE loop]
Advance(w, loop, after) == AdvanceIn(todo, w, loop, after)

Raise(w) == pc' = [pc EXCEPT ![w] = "raise"]

-----------------------------------------------------------------------------
(* The SDK calls (python_scripts/organizations.py): one signed request     *)
(* each.                                                                   *)

\* create_organization(): POST /organization {name}; the appliance creates
\* organization p with that name.
CreateOrganization(p, n) == [remote EXCEPT ![p] = n]

\* update_organization(): PUT /organization/{org_id} of the name given.
UpdateOrganization(p, n) == [remote EXCEPT ![p] = n]

\* delete_organization(): DELETE /organization/{org_id}.
DeleteOrganization(p) == [remote EXCEPT ![p] = Gone]

-----------------------------------------------------------------------------

\* create(): super().create(vals_list), then one create_organization call
\* per record without a pritunl_id.
StartCreate(w) ==
    LET ns == req[w].names
        ls == NewLids(Len(ns))
    IN /\ pc[w] = "start" /\ req[w].op = "create"
       /\ Len(ls) = Len(ns)
       /\ Snapshot(w)
       /\ tx' = [tx EXCEPT ![w] = [l \in LIds |->
                   IF \E i \in 1..Len(ls) : ls[i] = l
                   THEN [name |-> ns[CHOOSE i \in 1..Len(ls) : ls[i] = l],
                         pid |-> NoPid, active |-> TRUE]
                   ELSE db[l]]]
       /\ todo' = [todo EXCEPT ![w] = ls]
       /\ pc' = [pc EXCEPT ![w] = "cr_call"]
       /\ UNCHANGED <<listed, remote, db, cfg, req, ret, tries, budgetVars>>

\* Mutant: the except branch logs and goes on instead of raising.
CreateCallLogAndContinue(w) ==
    LET l == Head(todo[w])
        p == NewRid
    IN /\ pc[w] = "cr_call" /\ FreeRids # {}
       /\ \E o \in Outcomes(TRUE) :
            /\ remote' = IF Applied(o) THEN CreateOrganization(p, tx[w][l].name) ELSE remote
            /\ CountFailure(o)
            /\ tx' = IF o = "ok" THEN [tx EXCEPT ![w][l].pid = p] ELSE tx
            /\ Advance(w, "cr_call", "commit")
       /\ UNCHANGED <<listed, db, cfg, req, ret, snap, tries, cfgVars, extOps, uiOps, rowVars>>

CreateCall(w) ==
    LET l == Head(todo[w])
        p == NewRid
    IN /\ pc[w] = "cr_call" /\ FreeRids # {}
       /\ \E o \in Outcomes(TRUE) :
            /\ remote' = IF Applied(o) THEN CreateOrganization(p, tx[w][l].name) ELSE remote
            /\ CountFailure(o)
            /\ IF o = "ok"
               THEN /\ tx' = [tx EXCEPT ![w][l].pid = p]
                    /\ Advance(w, "cr_call", "commit")
               ELSE /\ Raise(w) /\ UNCHANGED <<tx, todo>>
       /\ UNCHANGED <<listed, db, cfg, req, ret, snap, tries, cfgVars, extOps, uiOps, rowVars>>

\* write(): super().write(vals); when vals has 'name', one
\* update_organization call per record with a pritunl_id.  A record
\* another transaction deleted raises MissingError.
StartWrite(w) ==
    LET B == req[w].lids
        f == req[w].vals.field
    IN /\ pc[w] = "start" /\ req[w].op = "write"
       /\ Snapshot(w)
       /\ IF B \subseteq Existing
          THEN LET t == [l \in LIds |-> IF l \in B THEN [db[l] EXCEPT ![f] = req[w].vals.value]
                                                   ELSE db[l]]
                   calls == IF f = "name" THEN WithPid(t, B) ELSE <<>>
               IN /\ tx' = [tx EXCEPT ![w] = t]
                  /\ todo' = [todo EXCEPT ![w] = calls]
                  /\ pc' = [pc EXCEPT ![w] = IF calls = <<>> THEN "commit" ELSE "wr_call"]
          ELSE /\ Raise(w) /\ tx' = [tx EXCEPT ![w] = db] /\ UNCHANGED todo
       /\ UNCHANGED <<listed, remote, db, cfg, req, ret, tries, budgetVars>>

\* One PUT /organization/<id> of the record's (new) name.  The appliance
\* answers an error for an organization it no longer has.
WriteCall(w) ==
    LET l == Head(todo[w])
        p == tx[w][l].pid
    IN /\ pc[w] = "wr_call"
       /\ IF Live(p)
          THEN \E o \in Outcomes(TRUE) :
                 /\ remote' = IF Applied(o) THEN UpdateOrganization(p, tx[w][l].name) ELSE remote
                 /\ CountFailure(o)
                 /\ IF o = "ok" THEN Advance(w, "wr_call", "commit")
                                ELSE Raise(w) /\ UNCHANGED todo
          ELSE Raise(w) /\ UNCHANGED <<remote, todo, failures>>
       /\ UNCHANGED <<listed, db, cfg, req, ret, snap, tx, tries, cfgVars, extOps, uiOps, rowVars>>

\* unlink(): one delete_organization call per record with a pritunl_id,
\* then super().unlink().
Unlinked(w) == [l \in LIds |-> IF l \in req[w].lids THEN NoRec ELSE tx[w][l]]

StartUnlink(w) ==
    LET B == req[w].lids
    IN /\ pc[w] = "start" /\ req[w].op = "unlink"
       /\ Snapshot(w)
       /\ IF B \subseteq Existing
          THEN /\ todo' = [todo EXCEPT ![w] = WithPid(db, B)]
               /\ IF WithPid(db, B) = <<>>
                  THEN /\ tx' = [tx EXCEPT ![w] = [l \in LIds |-> IF l \in B THEN NoRec ELSE db[l]]]
                       /\ pc' = [pc EXCEPT ![w] = "commit"]
                  ELSE /\ tx' = [tx EXCEPT ![w] = db]
                       /\ pc' = [pc EXCEPT ![w] = "un_call"]
          ELSE /\ Raise(w) /\ tx' = [tx EXCEPT ![w] = db] /\ UNCHANGED todo
       /\ UNCHANGED <<listed, remote, db, cfg, req, ret, tries, budgetVars>>

\* Mutant: the except branch logs and goes on to super().unlink().
UnlinkCallLogAndContinue(w) ==
    LET p == tx[w][Head(todo[w])].pid
    IN /\ pc[w] = "un_call"
       /\ \E o \in Outcomes(TRUE) :
            /\ remote' = IF Live(p) /\ Applied(o) THEN DeleteOrganization(p) ELSE remote
            /\ CountFailure(o)
            /\ Advance(w, "un_call", "commit")
            /\ tx' = IF Tail(todo[w]) = <<>> THEN [tx EXCEPT ![w] = Unlinked(w)] ELSE tx
       /\ UNCHANGED <<listed, db, cfg, req, ret, snap, tries, cfgVars, extOps, uiOps, rowVars>>

UnlinkCall(w) ==
    LET p == tx[w][Head(todo[w])].pid
    IN /\ pc[w] = "un_call"
       /\ IF Live(p)
          THEN \E o \in Outcomes(TRUE) :
                 /\ remote' = IF Applied(o) THEN DeleteOrganization(p) ELSE remote
                 /\ CountFailure(o)
                 /\ IF o = "ok"
                    THEN /\ Advance(w, "un_call", "commit")
                         /\ tx' = IF Tail(todo[w]) = <<>> THEN [tx EXCEPT ![w] = Unlinked(w)] ELSE tx
                    ELSE Raise(w) /\ UNCHANGED <<todo, tx>>
          ELSE Raise(w) /\ UNCHANGED <<remote, todo, tx, failures>>
       /\ UNCHANGED <<listed, db, cfg, req, ret, snap, tries, cfgVars, extOps, uiOps, rowVars>>

\* action_sync_from_pritunl(): list_organizations, then for each listed
\* organization either write its name on the record found by
\* search([('pritunl_id', '=', id)], limit=1) -- whose write() override
\* sends update_organization back to the appliance -- or create a record
\* carrying the pritunl_id (whose create() override then makes no call).
\* search() leaves archived records out.
StartSync(w) ==
    /\ pc[w] = "start" /\ req[w].op = "sync"
    /\ Snapshot(w)
    /\ tx' = [tx EXCEPT ![w] = db]
    /\ pc' = [pc EXCEPT ![w] = "sy_list"]
    /\ UNCHANGED <<remote, db, cfg, req, ret, todo, listed, tries, budgetVars>>

Listing == LET ids == SetToSortSeq({p \in RIds : Live(p)}, <)
           IN [i \in 1..Len(ids) |-> [id |-> ids[i], name |-> remote[ids[i]]]]

SyncList(w) ==
    /\ pc[w] = "sy_list"
    /\ \E o \in Outcomes(FALSE) :
         /\ CountFailure(o)
         /\ IF o = "ok"
            THEN /\ listed' = [listed EXCEPT ![w] = Listing]
                 /\ pc' = [pc EXCEPT ![w] = IF Listing = <<>> THEN "sy_done" ELSE "sy_item"]
            ELSE Raise(w) /\ UNCHANGED listed
    /\ UNCHANGED <<remote, db, cfg, req, ret, snap, tx, todo, tries, cfgVars, extOps, uiOps, rowVars>>

Found(w, p) == {l \in LIds : tx[w][l] # NoRec /\ tx[w][l].pid = p /\ tx[w][l].active}

\* Mutant: the import stores the name as pritunl_id (keys swapped).
SyncItemNameAsId(w) ==
    LET i == Head(listed[w])
    IN /\ pc[w] = "sy_item" /\ Found(w, i.id) = {} /\ FreeLids # {}
       /\ tx' = [tx EXCEPT ![w][Lowest(FreeLids)] = [name |-> i.name, pid |-> i.name, active |-> TRUE]]
       /\ AdvanceIn(listed, w, "sy_item", "sy_done")
       /\ UNCHANGED <<remote, failures, db, cfg, req, ret, snap, todo, tries, cfgVars, extOps, uiOps, rowVars>>

\* Mutant: an organization with no record is skipped, never imported.
SyncItemNoImport(w) ==
    LET i == Head(listed[w])
    IN /\ pc[w] = "sy_item"
       /\ IF Found(w, i.id) # {}
          THEN LET l == Lowest(Found(w, i.id))
               IN /\ tx' = [tx EXCEPT ![w][l].name = i.name]
                  /\ touched' = [touched EXCEPT ![w] = @ \cup {l}]
                  /\ IF Live(i.id)
                     THEN \E o \in Outcomes(TRUE) :
                            /\ remote' = IF Applied(o) THEN UpdateOrganization(i.id, i.name)
                                                       ELSE remote
                            /\ CountFailure(o)
                            /\ IF o = "ok" THEN AdvanceIn(listed, w, "sy_item", "sy_done")
                                           ELSE Raise(w) /\ UNCHANGED listed
                     ELSE Raise(w) /\ UNCHANGED <<remote, listed, failures>>
          ELSE /\ AdvanceIn(listed, w, "sy_item", "sy_done")
               /\ UNCHANGED <<remote, failures, tx, touched>>
       /\ UNCHANGED <<db, cfg, req, ret, snap, todo, tries, cfgVars, extOps, uiOps, stale>>

SyncItem(w) ==
    LET i == Head(listed[w])
    IN /\ pc[w] = "sy_item"
       /\ IF Found(w, i.id) # {}
          THEN LET l == Lowest(Found(w, i.id))
               IN /\ tx' = [tx EXCEPT ![w][l].name = i.name]
                  /\ touched' = [touched EXCEPT ![w] = @ \cup {l}]
                  /\ IF Live(i.id)
                     THEN \E o \in Outcomes(TRUE) :
                            /\ remote' = IF Applied(o) THEN UpdateOrganization(i.id, i.name)
                                                       ELSE remote
                            /\ CountFailure(o)
                            /\ IF o = "ok" THEN AdvanceIn(listed, w, "sy_item", "sy_done")
                                           ELSE Raise(w) /\ UNCHANGED listed
                     ELSE Raise(w) /\ UNCHANGED <<remote, listed, failures>>
          ELSE /\ FreeLids # {}
               /\ tx' = [tx EXCEPT ![w][Lowest(FreeLids)] =
                           [name |-> i.name, pid |-> i.id, active |-> TRUE]]
               /\ AdvanceIn(listed, w, "sy_item", "sy_done")
               /\ UNCHANGED <<remote, failures, touched>>
       /\ UNCHANGED <<db, cfg, req, ret, snap, todo, tries, cfgVars, extOps, uiOps, stale>>

\* The sync returns to its caller: the top of the request, or
\* action_sync_all, which goes on to the servers.
SyncDone(w) ==
    /\ pc[w] = "sy_done"
    /\ pc' = [pc EXCEPT ![w] = IF ret[w] = "top" THEN "commit" ELSE "sa_servers"]
    /\ UNCHANGED <<remote, db, cfg, req, ret, snap, tx, todo, listed, tries, cfgVars, budgetVars, rowVars>>

-----------------------------------------------------------------------------
(* An administrator working on the appliance directly.                     *)

External ==
    /\ extOps < MaxExternal
    /\ extOps' = extOps + 1
    /\ \/ FreeRids # {} /\ \E n \in Names : remote' = [remote EXCEPT ![NewRid] = n]
       \/ \E p \in RIds, n \in Names : Live(p) /\ remote[p] # n /\ remote' = [remote EXCEPT ![p] = n]
       \/ \E p \in RIds : Live(p) /\ remote' = [remote EXCEPT ![p] = Gone]
    /\ UNCHANGED <<db, cfg, pc, req, ret, snap, tx, cfgSnap, cfgTx, todo, listed, tries, failures, uiOps, rowVars>>

-----------------------------------------------------------------------------

\* The steps of a request in progress.
OrgStep(w) ==
    \/ StartCreate(w) \/ CreateCall(w)
    \/ StartWrite(w) \/ WriteCall(w)
    \/ StartUnlink(w) \/ UnlinkCall(w)
    \/ StartSync(w) \/ SyncList(w) \/ SyncItem(w) \/ SyncDone(w)
    \/ Commit(w) \/ Rollback(w)

OrgNext == External \/ \E w \in Workers : UserRequest(w) \/ OrgStep(w)

OrgSpec == Init /\ [][OrgNext]_vars

-----------------------------------------------------------------------------
(* Properties.                                                             *)

\* create() never leaves a committed organization without a pritunl_id:
\* when create_organization fails for any record of the batch, the whole
\* request, the records already pushed included, is rolled back.
NoUnpushedOrg == \A l \in LIds : db[l] # NoRec => db[l].pid # NoPid

\* unlink() never removes a record from Odoo while its organization is
\* still on the appliance: the committed delete of a record with a
\* pritunl_id happens only after delete_organization took effect.
UnlinkDeletesRemoteFirst ==
    [][\A l \in LIds : (db[l] # NoRec /\ db'[l] = NoRec /\ db[l].pid # NoPid)
                          => remote'[db[l].pid] = Gone]_vars

\* Every committed record points at an organization the appliance still
\* has.  unlink() calls delete_organization before the local delete, so a
\* failure of a later record of the batch, or a read timeout after the
\* appliance deleted, rolls the local delete back and leaves the record
\* pointing at nothing; every later write or unlink of it fails.
NoDanglingMirror == \A l \in LIds : db[l] # NoRec => Live(db[l].pid) \/ db[l].pid = NoPid

\* At most one record mirrors each appliance organization.
\* action_sync_from_pritunl looks the pritunl_id up with search(), which
\* skips archived records, and there is no unique constraint on pritunl_id.
NoDuplicateMirror ==
    \A l, m \in LIds : (l # m /\ db[l] # NoRec /\ db[m] # NoRec /\ db[l].pid # NoPid)
                         => db[l].pid # db[m].pid

\* At most one active record mirrors each appliance organization: two syncs
\* running at once (the cron and a user's button) each miss the other's
\* uncommitted insert in their snapshot.
NoDuplicateActiveMirror ==
    \A l, m \in LIds : (l # m /\ db[l] # NoRec /\ db[m] # NoRec /\ db[l].pid # NoPid
                          /\ db[l].active /\ db[m].active)
                         => db[l].pid # db[m].pid

\* A name on the appliance changes only through a user's rename (write()
\* with 'name') or the administrator.  action_sync_from_pritunl is a pull:
\* it should never change the appliance.
SyncDoesNotWriteBack ==
    [][\A p \in RIds : (Live(p) /\ Live(p)' /\ remote'[p] # remote[p])
                         => (extOps' # extOps \/ \E w \in Workers : pc[w] = "wr_call")]_vars

=============================================================================
