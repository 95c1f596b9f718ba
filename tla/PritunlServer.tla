---------------------------- MODULE PritunlServer ----------------------------
(***************************************************************************)
(* The pritunl.server model (models/pritunl_server.py) with the calls of   *)
(* python_scripts/servers.py it makes, and the pull-only mirrors           *)
(* pritunl.host and pritunl.link (models/pritunl_host.py,                  *)
(* models/pritunl_link.py).  Users create servers, start, stop and restart *)
(* them, attach their organizations, archive or delete records and press   *)
(* the sync buttons; the cron's action_sync_all syncs the organizations,   *)
(* then the servers, then the hosts, in one transaction.                   *)
(*                                                                         *)
(* Environment, as in PritunlUser: each request is one REPEATABLE READ     *)
(* transaction (rollback on an exception, first committer wins, an aborted *)
(* HTTP request re-run, an aborted cron job left to its next run); the     *)
(* appliance performs each call atomically and its answer may be lost      *)
(* after the effect.  Of a server record the model keeps pritunl_id,       *)
(* status, active and organization_ids; of host and link records           *)
(* pritunl_id and active.  A row's kind says which table it is in.         *)
(***************************************************************************)
EXTENDS Naturals, FiniteSets, Sequences, SequencesExt

CONSTANTS
    Pids,          \* appliance object ids, allocated in increasing order
    KindOf,        \* KindOf[p]: whether id p is a "server", "host" or "link"
    Orgs,          \* pritunl.organization records
    OrgPid,        \* OrgPid[o]: o's pritunl_id, or NoPid
    MaxRecords,    \* row ids are 1..MaxRecords
    UIWorkers, Cron,
    Timeouts,      \* whether a failed call may have taken effect (read timeout)
    ServerOps,     \* the requests users make, a subset of the handlers below
    MaxTries, MaxFailures, MaxExternal, MaxUiOps,
    NoPid, NoRec, Free, Gone

Kinds == {"server", "host", "link"}
Statuses == {"offline", "online"}

ASSUME KindOf \in [Pids -> Kinds] /\ Pids \subseteq Nat /\ Cron \notin UIWorkers
ASSUME OrgPid \in [Orgs -> Nat \cup {NoPid}] /\ Timeouts \in BOOLEAN
ASSUME ServerOps \subseteq {"create", "start", "stop", "restart", "attach", "archive",
                            "unlink", "sync"}

LIds == 1..MaxRecords
Workers == UIWorkers \cup {Cron}
OrgIds == {OrgPid[o] : o \in Orgs} \ {NoPid}
Rec == [kind: Kinds, pid: Pids \cup {NoPid}, status: Statuses, active: BOOLEAN,
        orgs: SUBSET Orgs]
Table == [LIds -> Rec \cup {NoRec}]
EmptyTable == [l \in LIds |-> NoRec]
Ops == {"none", "create", "start", "stop", "restart", "attach", "archive", "unlink",
        "sync", "sync_all"}
NoReq == [op |-> "none", lid |-> 1, kind |-> "server", orgs |-> {}]
\* What the appliance holds of object p.
Obj == [status: Statuses, orgs: SUBSET OrgIds]

VARIABLES
    remote,    \* remote[p]: appliance object p, or Free or Gone
    db,        \* committed rows of pritunl_server, pritunl_host, pritunl_link
    pc, req, snap, tx,
    todo,      \* todo[w]: organization ids the attach loop has still to send
    kinds,     \* kinds[w]: the syncs w has still to run, in order
    listed,    \* listed[w]: entries of the current listing still to handle
    touched,   \* touched[w]: rows w wrote with the values they had
    stale,     \* stale[w]: rows others committed writes to since w's snapshot
    tries, failures, extOps, uiOps

vars == <<remote, db, pc, req, snap, tx, todo, kinds, listed, touched, stale,
          tries, failures, extOps, uiOps>>

ServerTypeOK ==
    /\ remote \in [Pids -> Obj \cup {Free, Gone}]
    /\ db \in Table /\ snap \in [Workers -> Table] /\ tx \in [Workers -> Table]
    /\ pc \in [Workers -> {"idle", "start", "commit", "raise", "cr_call", "op_call",
                           "at_call", "sy_org", "sy_list", "sy_item"}]
    /\ req \in [Workers -> [op: Ops, lid: LIds, kind: Kinds, orgs: SUBSET Orgs]]
    /\ todo \in [Workers -> Seq(OrgIds)] /\ kinds \in [Workers -> Seq(Kinds)]
    /\ listed \in [Workers -> Seq([id: Pids, status: Statuses])]
    /\ touched \in [Workers -> SUBSET LIds] /\ stale \in [Workers -> SUBSET LIds]
    /\ tries \in [Workers -> 0..MaxTries]
    /\ failures \in 0..MaxFailures /\ extOps \in 0..MaxExternal /\ uiOps \in 0..MaxUiOps

Init ==
    /\ remote = [p \in Pids |-> Free]
    /\ db = EmptyTable
    /\ pc = [w \in Workers |-> "idle"] /\ req = [w \in Workers |-> NoReq]
    /\ snap = [w \in Workers |-> EmptyTable] /\ tx = snap
    /\ todo = [w \in Workers |-> <<>>] /\ kinds = todo /\ listed = todo
    /\ touched = [w \in Workers |-> {}] /\ stale = touched
    /\ tries = [w \in Workers |-> 0]
    /\ failures = 0 /\ extOps = 0 /\ uiOps = 0

-----------------------------------------------------------------------------
(* The appliance and the transactions (environment).                       *)

Live(p) == p \in Pids /\ remote[p] \in Obj
FreeOf(k) == {p \in Pids : KindOf[p] = k /\ remote[p] = Free}
Lowest(S) == CHOOSE x \in S : \A y \in S : x <= y
Outcomes == {"ok"} \cup IF failures < MaxFailures
                        THEN IF Timeouts THEN {"lost", "late"} ELSE {"lost"} ELSE {}
Applied(o) == o \in {"ok", "late"}
CountFailure(o) == failures' = IF o = "ok" THEN failures ELSE failures + 1

FreeLids == {l \in LIds : db[l] = NoRec /\ \A v \in Workers : snap[v][l] = NoRec /\ tx[v][l] = NoRec}
Written(w) == {l \in LIds : tx[w][l] # snap[w][l]} \cup touched[w]
Conflict(w) == Written(w) \cap stale[w] # {}
Invalidate(D) == [v \in Workers |-> IF pc[v] \in {"idle", "start"} THEN stale[v] ELSE stale[v] \cup D]

Close(w) ==
    /\ pc' = [pc EXCEPT ![w] = "idle"] /\ req' = [req EXCEPT ![w] = NoReq]
    /\ snap' = [snap EXCEPT ![w] = EmptyTable] /\ tx' = [tx EXCEPT ![w] = EmptyTable]
    /\ todo' = [todo EXCEPT ![w] = <<>>] /\ kinds' = [kinds EXCEPT ![w] = <<>>]
    /\ listed' = [listed EXCEPT ![w] = <<>>]
    /\ tries' = [tries EXCEPT ![w] = 0] /\ touched' = [touched EXCEPT ![w] = {}]

Commit(w) ==
    /\ pc[w] = "commit"
    /\ IF ~Conflict(w)
       THEN /\ db' = [l \in LIds |-> IF l \in Written(w) THEN tx[w][l] ELSE db[l]]
            /\ stale' = [Invalidate(Written(w)) EXCEPT ![w] = {}]
            /\ Close(w)
       ELSE /\ UNCHANGED db
            /\ stale' = [stale EXCEPT ![w] = {}]
            /\ IF w \in UIWorkers /\ tries[w] < MaxTries
               THEN /\ pc' = [pc EXCEPT ![w] = "start"]
                    /\ tries' = [tries EXCEPT ![w] = @ + 1]
                    /\ touched' = [touched EXCEPT ![w] = {}]
                    /\ UNCHANGED <<req, snap, tx, todo, kinds, listed>>
               ELSE Close(w)
    /\ UNCHANGED <<remote, failures, extOps, uiOps>>

Rollback(w) ==
    /\ pc[w] = "raise"
    /\ Close(w) /\ stale' = [stale EXCEPT ![w] = {}]
    /\ UNCHANGED <<remote, db, failures, extOps, uiOps>>

Begin(w, t, next) ==
    /\ snap' = [snap EXCEPT ![w] = db] /\ tx' = [tx EXCEPT ![w] = t]
    /\ pc' = [pc EXCEPT ![w] = next]
    /\ touched' = [touched EXCEPT ![w] = {}] /\ stale' = [stale EXCEPT ![w] = {}]

Raise(w) == Begin(w, db, "raise")

\* An exception: a request raises UserError and rolls back; in the cron,
\* action_sync_all's except and cron_sync_pritunl_data's catch it, and the
\* job commits what it has done.
Fail(w) == pc' = [pc EXCEPT ![w] = IF w = Cron THEN "commit" ELSE "raise"]

-----------------------------------------------------------------------------
(* The SDK calls (python_scripts/servers.py, lib/hosts.py,                 *)
(* python_scripts/links.py): one signed request each.                      *)

\* create_server(): POST /server; the appliance creates server p, offline
\* and without organizations.
CreateServer(p) == [remote EXCEPT ![p] = [status |-> "offline", orgs |-> {}]]

\* start_server(), stop_server(), restart_server():
\* PUT /server/{id}/operation/<op>.  A restart leaves the status as it is.
Operation(p, op) ==
    [remote EXCEPT ![p].status = CASE op = "start" -> "online"
                                   [] op = "stop" -> "offline"
                                   [] OTHER -> @]

\* attach_organization(): PUT /server/{id}/organization/{org_id}.
AttachOrganization(p, g) == [remote EXCEPT ![p].orgs = @ \cup {g}]

\* The appliance's list of its objects of kind k, in id order.
ListOf(k) == LET ids == SetToSortSeq({p \in Pids : KindOf[p] = k /\ Live(p)}, <)
             IN [i \in 1..Len(ids) |-> [id |-> ids[i], status |-> remote[ids[i]].status]]

\* list_servers(): GET /server.
ListServers == ListOf("server")

\* list_hosts(): GET /host.
ListHosts == ListOf("host")

\* list_links(): GET /link.
ListLinks == ListOf("link")

\* The listing each action_sync_from_pritunl() asks for.
Listing(k) == CASE k = "server" -> ListServers [] k = "host" -> ListHosts [] OTHER -> ListLinks

-----------------------------------------------------------------------------
(* Requests users start.                                                   *)

Existing == {l \in LIds : db[l] # NoRec}
ServerRows == {l \in Existing : db[l].kind = "server"}

BeginUI(w, r) ==
    /\ w \in UIWorkers /\ pc[w] = "idle" /\ uiOps < MaxUiOps /\ r.op \in ServerOps
    /\ req' = [req EXCEPT ![w] = r] /\ pc' = [pc EXCEPT ![w] = "start"]
    /\ uiOps' = uiOps + 1
    /\ UNCHANGED <<remote, db, snap, tx, todo, kinds, listed, touched, stale, tries,
                   failures, extOps>>

UserRequest(w) ==
    \/ \E S \in SUBSET Orgs : BeginUI(w, [NoReq EXCEPT !.op = "create", !.orgs = S])
    \/ \E l \in ServerRows, op \in {"start", "stop", "restart", "attach"} :
          BeginUI(w, [NoReq EXCEPT !.op = op, !.lid = l])
    \/ \E l \in Existing, op \in {"archive", "unlink"} :
          BeginUI(w, [NoReq EXCEPT !.op = op, !.lid = l])
    \/ \E k \in Kinds : BeginUI(w, [NoReq EXCEPT !.op = "sync", !.kind = k])

-----------------------------------------------------------------------------
(* pritunl.server handlers.                                                *)

\* create(): super().create(), then create_server for the record, which has
\* no pritunl_id, and write of pritunl_id and synced; any error raises.
StartCreate(w) ==
    LET l == Lowest(FreeLids)
    IN /\ pc[w] = "start" /\ req[w].op = "create" /\ FreeLids # {}
       /\ Begin(w, [db EXCEPT ![l] = [kind |-> "server", pid |-> NoPid, status |-> "offline",
                                      active |-> TRUE, orgs |-> req[w].orgs]], "cr_call")
       /\ req' = [req EXCEPT ![w].lid = l]
       /\ UNCHANGED <<remote, db, todo, kinds, listed, tries, failures, extOps, uiOps>>

CreateCall(w) ==
    LET l == req[w].lid
        p == Lowest(FreeOf("server"))
    IN /\ pc[w] = "cr_call" /\ FreeOf("server") # {}
       /\ \E o \in Outcomes :
            /\ remote' = IF Applied(o) THEN CreateServer(p) ELSE remote
            /\ CountFailure(o)
            /\ tx' = IF o = "ok" THEN [tx EXCEPT ![w][l].pid = p] ELSE tx
            /\ pc' = [pc EXCEPT ![w] = IF o = "ok" THEN "commit" ELSE "raise"]
       /\ UNCHANGED <<touched, stale, db, req, snap, todo, kinds, listed, tries, extOps, uiOps>>

\* action_start_server(), action_stop_server(), action_restart_server():
\* UserError without a pritunl_id; the operation; then start and stop
\* write the status they expect, restart writes nothing.
StartOperation(w) ==
    LET l == req[w].lid
    IN /\ pc[w] = "start" /\ req[w].op \in {"start", "stop", "restart"}
       /\ IF l \in Existing /\ db[l].pid # NoPid THEN Begin(w, db, "op_call") ELSE Raise(w)
       /\ UNCHANGED <<remote, db, req, todo, kinds, listed, tries, failures, extOps, uiOps>>

\* Mutant: writes the operation's name as the status.
OperationStatusAsOp(op) == op

\* The status start and stop write after the call.
OperationStatus(op) == IF op = "start" THEN "online" ELSE "offline"

OperationCall(w) ==
    LET l == req[w].lid
        op == req[w].op
        p == tx[w][l].pid
    IN /\ pc[w] = "op_call"
       /\ IF Live(p)
          THEN \E o \in Outcomes :
                 /\ remote' = IF Applied(o) THEN Operation(p, op) ELSE remote
                 /\ CountFailure(o)
                 /\ IF o = "ok" /\ op # "restart"
                    THEN /\ tx' = [tx EXCEPT ![w][l].status = OperationStatus(op)]
                         /\ touched' = [touched EXCEPT ![w] = @ \cup {l}]
                    ELSE UNCHANGED <<tx, touched>>
                 /\ pc' = [pc EXCEPT ![w] = IF o = "ok" THEN "commit" ELSE "raise"]
          ELSE pc' = [pc EXCEPT ![w] = "raise"] /\ UNCHANGED <<remote, failures, tx, touched>>
       /\ UNCHANGED <<stale, db, req, snap, todo, kinds, listed, tries, extOps, uiOps>>

\* action_attach_organizations(): UserError without a pritunl_id; then
\* attach_organization for each organization with a pritunl_id, in turn.
\* An error raises, and the organizations attached before it stay attached.
StartAttach(w) ==
    LET l == req[w].lid
        ids == SetToSortSeq({OrgPid[o] : o \in db[l].orgs} \ {NoPid}, <)
    IN /\ pc[w] = "start" /\ req[w].op = "attach"
       /\ IF l \in Existing /\ db[l].pid # NoPid
          THEN /\ Begin(w, db, IF ids = <<>> THEN "commit" ELSE "at_call")
               /\ todo' = [todo EXCEPT ![w] = ids]
          ELSE Raise(w) /\ UNCHANGED todo
       /\ UNCHANGED <<remote, db, req, kinds, listed, tries, failures, extOps, uiOps>>

AttachCall(w) ==
    LET p == tx[w][req[w].lid].pid
    IN /\ pc[w] = "at_call"
       /\ IF Live(p)
          THEN \E o \in Outcomes :
                 /\ remote' = IF Applied(o) THEN AttachOrganization(p, Head(todo[w])) ELSE remote
                 /\ CountFailure(o)
                 /\ todo' = IF o = "ok" THEN [todo EXCEPT ![w] = Tail(@)] ELSE todo
                 /\ pc' = [pc EXCEPT ![w] = CASE o # "ok" -> "raise"
                                              [] Tail(todo[w]) = <<>> -> "commit"
                                              [] OTHER -> "at_call"]
          ELSE pc' = [pc EXCEPT ![w] = "raise"] /\ UNCHANGED <<remote, failures, todo>>
       /\ UNCHANGED <<touched, stale, db, req, snap, tx, kinds, listed, tries, extOps, uiOps>>

\* Archiving (write active=False) and deleting a record: the ORM's own
\* write() and unlink(), which no model of these tables overrides.
StartLocalWrite(w) ==
    LET l == req[w].lid
    IN /\ pc[w] = "start" /\ req[w].op \in {"archive", "unlink"}
       /\ IF l \in Existing
          THEN Begin(w, [db EXCEPT ![l] = IF req[w].op = "unlink" THEN NoRec
                                          ELSE [@ EXCEPT !.active = FALSE]], "commit")
          ELSE Raise(w)
       /\ UNCHANGED <<remote, db, req, todo, kinds, listed, tries, failures, extOps, uiOps>>

-----------------------------------------------------------------------------
(* The syncs: action_sync_from_pritunl() of pritunl.server, pritunl.host   *)
(* and pritunl.link, alone (a button) or in action_sync_all (the cron).    *)

StartSync(w) ==
    /\ pc[w] = "start" /\ req[w].op = "sync"
    /\ Begin(w, db, "sy_list") /\ kinds' = [kinds EXCEPT ![w] = <<req[w].kind>>]
    /\ UNCHANGED <<remote, db, req, todo, listed, tries, failures, extOps, uiOps>>

\* cron_sync_pritunl_data() runs action_sync_all(): the organization sync
\* (PritunlOrganization; here one call that succeeds or fails), then the
\* server sync, then the host sync.
CronBegin ==
    /\ pc[Cron] = "idle"
    /\ req' = [req EXCEPT ![Cron].op = "sync_all"]
    /\ kinds' = [kinds EXCEPT ![Cron] = <<"server", "host">>]
    /\ Begin(Cron, db, "sy_org")
    /\ UNCHANGED <<remote, db, todo, listed, tries, failures, extOps, uiOps>>

OrgSync(w) ==
    /\ pc[w] = "sy_org"
    /\ \E o \in Outcomes \ {"late"} :
         /\ CountFailure(o)
         /\ IF o = "ok" THEN pc' = [pc EXCEPT ![w] = "sy_list"] ELSE Fail(w)
    /\ UNCHANGED <<remote, db, req, snap, tx, todo, kinds, listed, touched, stale, tries,
                   extOps, uiOps>>

\* The current sync is done: go on with the next one, or commit.
KindDone(w) ==
    /\ kinds' = [kinds EXCEPT ![w] = Tail(@)]
    /\ pc' = [pc EXCEPT ![w] = IF Tail(kinds[w]) = <<>> THEN "commit" ELSE "sy_list"]

SyncList(w) ==
    LET k == Head(kinds[w])
    IN /\ pc[w] = "sy_list"
       /\ \E o \in Outcomes \ {"late"} :
            /\ CountFailure(o)
            /\ listed' = [listed EXCEPT ![w] = IF o = "ok" THEN Listing(k) ELSE <<>>]
            /\ IF o # "ok" THEN Fail(w) /\ UNCHANGED kinds
               ELSE IF Listing(k) = <<>> THEN KindDone(w)
               ELSE pc' = [pc EXCEPT ![w] = "sy_item"] /\ UNCHANGED kinds
       /\ UNCHANGED <<remote, db, req, snap, tx, todo, touched, stale, tries, extOps, uiOps>>

\* search([('pritunl_id', '=', id)], limit=1): the default active_test
\* leaves archived records out.
Found(w, k, p) ==
    {l \in LIds : tx[w][l] # NoRec /\ tx[w][l].kind = k /\ tx[w][l].active /\ tx[w][l].pid = p}

\* Mutant: the server sync writes name and synced, not the status.
SyncValuesNoStatus(k, r, i) == r

\* The values the sync writes on a record it finds: name (left out) and
\* synced, and for a server the listed status.
SyncValues(k, r, i) == IF k = "server" THEN [r EXCEPT !.status = i.status] ELSE r

\* For each listed object: write name, status (servers only) and synced on
\* the record found, or create one with the pritunl_id (which create()
\* then does not push).
SyncItem(w) ==
    LET i == Head(listed[w])
        k == Head(kinds[w])
    IN /\ pc[w] = "sy_item"
       /\ IF Found(w, k, i.id) # {}
          THEN LET l == Lowest(Found(w, k, i.id))
               IN /\ tx' = [tx EXCEPT ![w][l] = SyncValues(k, @, i)]
                  /\ touched' = [touched EXCEPT ![w] = @ \cup {l}]
          ELSE /\ FreeLids # {}
               /\ tx' = [tx EXCEPT ![w][Lowest(FreeLids)] =
                           [kind |-> k, pid |-> i.id, active |-> TRUE, orgs |-> {},
                            status |-> IF k = "server" THEN i.status ELSE "offline"]]
               /\ UNCHANGED touched
       /\ listed' = [listed EXCEPT ![w] = Tail(@)]
       /\ IF Tail(listed[w]) = <<>> THEN KindDone(w)
          ELSE pc' = [pc EXCEPT ![w] = "sy_item"] /\ UNCHANGED kinds
       /\ UNCHANGED <<remote, db, req, snap, todo, stale, tries, failures, extOps, uiOps>>

-----------------------------------------------------------------------------
(* The rest of the world.                                                  *)

\* An administrator on the appliance: adds a server, host or link, starts
\* or stops a server, or deletes an object.
External ==
    /\ extOps < MaxExternal
    /\ extOps' = extOps + 1
    /\ \/ \E k \in Kinds : FreeOf(k) # {} /\ remote' = [remote EXCEPT ![Lowest(FreeOf(k))] =
                                                     [status |-> "offline", orgs |-> {}]]
       \/ \E p \in Pids : Live(p) /\ KindOf[p] = "server"
                          /\ remote' = [remote EXCEPT ![p].status =
                                          IF @ = "online" THEN "offline" ELSE "online"]
       \/ \E p \in Pids : Live(p) /\ remote' = [remote EXCEPT ![p] = Gone]
    /\ UNCHANGED <<db, pc, req, snap, tx, todo, kinds, listed, touched, stale, tries,
                   failures, uiOps>>

-----------------------------------------------------------------------------

Step(w) ==
    \/ StartCreate(w) \/ CreateCall(w) \/ StartOperation(w) \/ OperationCall(w)
    \/ StartAttach(w) \/ AttachCall(w) \/ StartLocalWrite(w)
    \/ StartSync(w) \/ OrgSync(w) \/ SyncList(w) \/ SyncItem(w)
    \/ Commit(w) \/ Rollback(w)

Next ==
    \/ External \/ CronBegin
    \/ \E w \in Workers : UserRequest(w) \/ Step(w)

\* Requests in progress end (each call is bounded by the client's timeout)
\* and the scheduler starts cron_sync_pritunl_data again and again.
Fairness == /\ \A w \in Workers : WF_vars(Step(w))
            /\ WF_vars(CronBegin)

Spec == Init /\ [][Next]_vars /\ Fairness

-----------------------------------------------------------------------------
(* Properties.                                                             *)

\* An active record of kind k with pritunl_id p shows what the appliance
\* holds of p (for a server, its status).
Mirrors(p) == \E l \in LIds : /\ db[l] # NoRec /\ db[l].active
                              /\ db[l].kind = KindOf[p] /\ db[l].pid = p
                              /\ (KindOf[p] = "server" => db[l].status = remote[p].status)

\* Once users and the administrator stop, every server and host on the
\* appliance -- made by create(), imported, or left behind by a timed-out
\* create, an archived or a deleted record -- ends up mirrored by an
\* active record showing its current status, and stays so: the cron's
\* action_sync_all rewrites the status it lists and re-imports what it
\* cannot find, whatever transactions it lost to in between.
EventuallyMirrored ==
    <>[](\A p \in Pids : KindOf[p] \in {"server", "host"} /\ Live(p) => Mirrors(p))

\* Every active server record whose server is still on the appliance ends
\* up showing the server's status, once users and the administrator stop:
\* the status a user sees on any record of a server is eventually right.
EveryRecordMirrors ==
    <>[](\A l \in LIds : (/\ db[l] # NoRec /\ db[l].active /\ db[l].kind = "server"
                          /\ Live(db[l].pid))
                         => db[l].status = remote[db[l].pid].status)

=============================================================================
