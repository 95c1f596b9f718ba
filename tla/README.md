# TLA+ models of the Odoo Pritunl management module

This directory holds TLA+ models of `src/odoo_pritunl_management`, an Odoo
add-on that mirrors a Pritunl VPN appliance's organizations, users, servers,
hosts and links as Odoo records, and of the SDK in `src/python_scripts`
it calls. The models are checked with TLC.

## The system

- **API client** (`lib/auth.py`, `PritunlAuth`). It signs each HTTP call
  with HMAC-SHA256 over `token&timestamp&nonce&METHOD&path` and calls
  `raise_for_status`. It never retries.
- **SDK functions** (`python_scripts/*.py`, `lib/*.py`). Each one is a single
  signed call such as `create_organization`, `list_organizations` or
  `update_user`. They keep no state.
- **Odoo models** (`models/*.py`):
  - `pritunl.config` holds the credentials and `sync_status`. It has
    `action_test_connection` and `action_sync_all`. The scheduled action
    `cron_sync_pritunl_data` runs `action_sync_all` for every active
    configuration.
  - `pritunl.organization` and `pritunl.user` override `create`, `write`
    and `unlink`. The override calls the appliance for every record. The
    `action_sync_from_pritunl` methods (users: `action_sync_from_organization`)
    pull the appliance's list and update or create records.
  - `pritunl.server` has start, stop, restart, attach and sync.
  - `pritunl.host` and `pritunl.link` are pull-only mirrors.
  - `res.partner` adds computed fields and window actions.

### How the parts interact

The models call the appliance from inside an Odoo request. That request is
one PostgreSQL REPEATABLE READ transaction:

- a `UserError` rolls back every database write of the request;
- an appliance call that has already happened stays done;
- two transactions updating the same row: the later committer is aborted
  with a serialization failure, and Odoo re-runs an aborted HTTP request
  from the start.

The cron job runs in its own transaction and catches the exceptions of each
configuration, so whatever it did before an error is committed. An
administrator can also change the appliance directly.

This is the environment the modules assume. Odoo and the appliance are not
part of this repository; the modules model them from their documented
behaviour, as unmapped definitions (`Commit`, `Rollback`, `Conflict`,
`Outcomes`, `External`, ...).

## Modules

| Module | Models | State | Actions |
|---|---|---|---|
| `PritunlOrganization` | `models/pritunl_organization.py`, the organization calls of `python_scripts/organizations.py`, Odoo's transactions, the appliance | `remote` (appliance organizations by id), `db` (committed rows), and per worker `pc`, `req`, `snap`, `tx`, `todo`, `listed`, `tries`, `touched`, `stale` | `StartCreate`/`CreateCall`, `StartWrite`/`WriteCall`, `StartUnlink`/`UnlinkCall`, `StartSync`/`SyncList`/`SyncItem`/`SyncDone`, `Commit`, `Rollback`, `External` |
| `PritunlConfig` | `models/pritunl_config.py`, composed with the organization mirror | adds `attempt` (history: the latest test or sync outcome); `cfg`/`cfgSnap`/`cfgTx` (sync_status) live in the organization module because they share its transaction | `StartTest`/`TestCall`, `StartSyncAll`/`SyncServers`/`SyncHosts`/`SyncAllExcept`, `CronBegin`/`CronExcept` |
| `PritunlUser` | `models/pritunl_user.py` and the calls of `lib/users.py` it makes; `sale.subscription` states; Odoo's transactions; the appliance's users | `remote` (appliance user: its disabled flag, or `Free`/`Gone`), `secret` (its OTP secret), `subState` (each subscription's state), `db` (rows: `pid`, `sub`, stored related `state`, `disabled`, `otp`), per worker `pc`, `req`, `snap`, `tx`, `todo`, `listed`, `touched`, `stale` | `StartCreate`/`CreateCall`, `StartWriteSub`, `StartToggle`, `UpdateCall`, `StartOtp`/`OtpCall`, `StartUnlink`/`UnlinkCall`, `StartSync`/`SyncList`/`SyncItem`, `CronBegin`/`CheckItem`, `Commit`, `Rollback`, `SubscriptionChange`, `External` |
| `PritunlServer` | `models/pritunl_server.py` and the calls of `python_scripts/servers.py` it makes; the syncs of `models/pritunl_host.py` and `models/pritunl_link.py`; the server and host steps of `action_sync_all` | `remote` (appliance servers, hosts and links: status and attached organizations, or `Free`/`Gone`), `db` (rows of the three tables: `kind`, `pid`, `status`, `active`, `orgs`), per worker `pc`, `req`, `snap`, `tx`, `todo` (attach loop), `kinds` (syncs still to run), `listed`, `touched`, `stale` | `StartCreate`/`CreateCall`, `StartOperation`/`OperationCall`, `StartAttach`/`AttachCall`, `StartLocalWrite`, `StartSync`, `CronBegin`/`OrgSync`, `SyncList`/`SyncItem`, `Commit`, `Rollback`, `External` |
| `PritunlDefaultConfig` | several `pritunl.config` records (`models/pritunl_config.py`): the form writes of `is_default` and `active` with `_check_default_config`, `get_default_config`, the Sync button and `cron_sync_pritunl_data`'s loop | `db` (rows: `active`, `is_default`, `sync_status`, and `fetched`, a history field naming the appliance the last successful sync read), per worker `pc`, `req`, `snap`, `tx`, `todo` (the cron's remaining configurations), `touched`, `stale` | `Request`, `Write`, `Sync`, `CronStart`, `CronSync`, `Commit`, `Rollback` |
| `GetOrCreate` | the SDK helpers `get_or_create_organization` (`python_scripts/organizations.py`) and `get_or_create_user` (`lib/users.py`) with the `find_*_by_name` lookups they call; concurrent scripts; the appliance's objects | `obj` (appliance objects: kind and name, or `Free`), per caller `pc`, `want`, `tries`; per POST `body`, and RemoteCall's `cst`/`capplied` | `GetOrCreateOrganization`, `GetOrCreateUser`, `Find`, `Create`, `Created`, `TimedOut`, `Retry`, `Perform` |
| `RemoteCall` | what one call through the client promises its caller (abstract) | `status` per call, `applied` (the appliance performed it) | `Issue`, `Apply`, `Return`, `Raise` |
| `PritunlAuth` | `lib/auth.py` (`PritunlAuth`), the network, the appliance's signature check | `client`, `token`/`secret`/`timeout`, per call `cst`, `wire` (the request sent), `orig`/`copies` (in flight), `resp`; the appliance's `seen` nonces and `count` of performed calls | `Construct`, `Send`, `Receive`, `Timeout`; environment `Duplicate`, `Lose`, `DeliverOrig`, `DeliverCopy` |
| `MCPritunlOrganization`, `MCPritunlConfig`, `MCPritunlUser`, `MCPritunlAuth`, `MCPritunlServer`, `MCGetOrCreate` | model-checking instances | | |

Each appliance call is its own step. Another worker or the administrator
can act between two calls of one handler, as happens in reality.

Each call ends in one of three outcomes:

- `ok`: the call succeeded;
- `lost`: an HTTP error or a refused connection, with no effect;
- `late`: a read timeout after the appliance acted. The client reports an
  error.

### The user module

`PritunlUser` models one synced organization's users. The SDK calls are
operators of their own: `CreateUser`, `UpdateUser`, `DeleteUser` and
`Listing`. Of the values `_prepare_pritunl_values` sends, the model keeps
`disabled`, the one value that subscriptions control.

- `write({'subscription_id': s})` (`StartWriteSub`) runs
  `_handle_subscription_change` on the row as it was before the write.
  It flips `disabled` if the old subscription calls for it, and the
  nested write sends `update_user`.
- `action_toggle_disable` flips `disabled`, which also sends `update_user`.
- The user sync writes the listed `disabled` on each record it finds.
  That write is a write of a Pritunl field, so it is PUT back to the
  appliance.
- `action_generate_otp` (`StartOtp`, `OtpCall`) raises without a
  `pritunl_id`, PUTs `/otp_secret` (`GenerateOtpSecret`: the appliance
  replaces the user's secret) and writes the returned secret into
  `otp_secret`, which is not a Pritunl field. A secret is a number: the one
  made with the user is 0, each PUT makes the next.
- `cron_check_subscriptions` (`CronBegin`, `CheckItem`, `UpdateCall`) walks
  the users with a subscription in id order. It has no `try`, so one
  failing user rolls the whole job back.
- `SubscriptionChange` stands for a subscription being renewed or closed
  elsewhere in Odoo. The ORM recomputes the stored `subscription_state` of
  the linked users in the same transaction. `pritunl.user.write` is not
  called, so only the cron enforces the change.

Conflicts follow PostgreSQL's rule for REPEATABLE READ: a transaction is
aborted when it updates a row that another transaction committed an update
to after its snapshot. This holds even when the update leaves every value
as it was: the sync's write always sets `synced` and `last_sync_date`.
`touched` records such same-value updates, and `stale` the rows committed
by others since the snapshot. `PritunlOrganization` and `PritunlServer`
use the same rule. In the organization module the `pritunl.config` row is
row `CfgRow` (0): every write of `sync_status` also sets
`last_sync_date`, so it always counts as an update.

### The server, host and link mirrors

`PritunlServer` keeps the rows of `pritunl_server`, `pritunl_host` and
`pritunl_link` in one table, with a `kind` for each row. It uses the same
transaction environment as `PritunlUser`.

- `create()` (`StartCreate`, `CreateCall`) calls `create_server` for a
  record without a `pritunl_id`, then writes the id. Every error raises.
- `action_start_server` and `action_stop_server` (`StartOperation`,
  `OperationCall`) need a `pritunl_id`. Each makes its call, then writes
  the status it expects (`OperationStatus`). `action_restart_server`
  writes nothing, and the appliance keeps the status.
- `action_attach_organizations` sends `attach_organization` for each
  selected organization that has a `pritunl_id`, in turn. A failure
  raises, and the earlier attachments stay on the appliance.
- Archiving and deleting a record (`StartLocalWrite`) are the ORM's own
  `write` and `unlink`. No model of these tables overrides them, so the
  appliance is never told.
- The three `action_sync_from_pritunl` methods share one shape: list,
  `search` the active record with the id, then write it or import a new
  one. `SyncList` and `SyncItem` model all three, and only the server
  sync writes a status (`SyncValues`). A button runs one of them in a
  request. The cron's `action_sync_all` runs the organization sync (one
  call here, modelled in `PritunlOrganization`), then the server sync,
  then the host sync, in one transaction. The link sync is never run by
  the cron. An error in the cron is caught, and its partial work is
  committed.

### The client and its refinement

`PritunlAuth` models `lib/auth.py`. The constructor falls back to the
defaults for a token, secret or timeout that is `None` or empty, and raises
`ValueError` when the token or secret stays empty. The timeout argument is
either `None` (a script's `PritunlAuth()`) or 0 (the empty configuration
field `get_client()` passes); the run builds the client with each. Without
the fallback, `None` would let a lost request wait for ever, which breaks
`ImplementsRemoteCall` (its calls always end); `requests` rejects a timeout
of 0 at once, and the model keeps no client with 0 after the fallback. `request()` adds the
missing leading `/`, signs `METHOD&path` with a fresh nonce, sends, and
`raise_for_status` turns a 4xx/5xx into an exception. HMAC-SHA256 and base64
are the tuple of their inputs (an injective MAC), a nonce is the call's own
id (`token_hex(16)` is fresh per request), and the timestamp is left out:
there is no clock, so the appliance's time window is not modelled. The
network may lose a request or its response and may deliver extra copies
(a re-sending proxy or a replay); a copy's response never reaches the client.

`RemoteCall` is what every handler of the other modules assumes of a call:
it is performed or not (how many times is abstracted away: a network copy
can make the appliance perform it twice), returns normally only if
performed, may raise although performed (even if the appliance performs it
after the timeout), and always ends. `PritunlAuth` implements it under the
mapping `status <- cst`, `applied <- count[k] > 0`; the run checks
`RC!Spec` as a property. The three call outcomes `ok`, `lost` and `late` of
the other modules are exactly the ends this specification allows.

### Several configurations

`PritunlDefaultConfig` holds several configuration records under the same
transaction rules as the other modules. A form save writes `is_default`
or `active` on one record. Odoo runs `_check_default_config` at the
flush, before the commit, and only when `is_default` was written. Its
`search` sees the writer's snapshot and, like every `search`, skips
archived records. `get_default_config` takes the lowest active default,
else the lowest active record (the model has no `_order`), else raises.
`action_sync_all` syncs the appliance of `get_default_config()`, then
writes the status of the record it was called on. The cron searches the
active records once, then runs `action_sync_all` on each in id order in
one transaction. A failure writes 'failed' and the loop goes on. What the
model syncs write is left to `PritunlConfig` and `PritunlServer`.

### The SDK's check-then-create helpers

`GetOrCreate` models `get_or_create_organization` and `get_or_create_user`.
Each runs its `find_*_by_name` (a list call, then the first object with the
name) and returns what it found, or POSTs a create. No Odoo model calls
them; scripts do, each with its own client. The POST is a call of
`RemoteCall`, and the module's actions use RemoteCall's own actions through
`INSTANCE` (`RC!Issue`, `RC!Apply`, `RC!Return`, `RC!Raise`). The constant `Asked` is the set of
kinds the scripts ask for: the retry run asks only for users, so its
trace is `get_or_create_user`'s. A create may
therefore be performed after its caller's timeout. `Retry` is a script
calling the helper again with the same name after it raised; this is the
caller's code, not the repository's. Users are those of one organization,
so a user's name is looked up within it.

In the models, row ids are the lowest free ones and appliance ids are taken
in increasing order.

## Runs

| Run | cfg | Expect | Shows |
|---|---|---|---|
| org_batches | `MCPritunlOrganization.cfg` | pass | One user; batches of two; one failure; one administrator change; 4 requests. Checks `NoUnpushedOrg` and `UnlinkDeletesRemoteFirst`. |
| org_with_cron | `MCPritunlConfig.cfg` | pass | One user and the cron, with serialization failures and re-runs. Same two properties, plus `ConfigTypeOK`. About 1.2M states under symmetry of names, about 2 minutes. |
| cron_imports | `MCPritunlConfigLive.cfg` | pass | `ImportedEventually`: every appliance organization, including orphans left by failed creates, is eventually mirrored. |
| status_rolled_back | `MCStatusRolledBack.cfg` | violation | The 'failed' sync_status of a failed test is rolled back. |
| auth_refines_remote_call | `MCPritunlAuth.cfg` | pass | Two calls, one network copy: the client implements `RemoteCall` (`ImplementsRemoteCall`), and `SignedRequestAccepted`: a request signed with the appliance's credentials is refused only as a replay of a copy already accepted, so the signature covers the normalised path and upper-cased method that go on the wire. |
| server_cron_mirrors | `MCPritunlServer.cfg` | pass | `EventuallyMirrored`: with every server request, the host and link sync buttons, a call that fails or times out after taking effect, a re-run and an administrator change beside the cron, every server and host on the appliance ends up mirrored by an active record showing its current status. This covers servers whose create timed out, archived or deleted records, and start/stop answers that were lost. 0.44M states, about 2.5 minutes. |
| user_all_ops | `MCPritunlUser.cfg` | pass | Every user operation (OTP generation included), the cron, one failure, one administrator change and one subscription change (0.65M states, about 35 seconds). `UserTypeOK`, and `UnlinkDeletesUserFirst`: no record is deleted before its appliance user. |
| user_cron_enforces | `MCPritunlUserLive.cfg` | pass | `SubscriptionEventuallyEnforced`: with creates, deletes and a failed call, the cron brings every user's appliance state in line with its subscription. `create()` ignores the subscription, so this repair is the only enforcement of a new user's subscription. |
| stale_subscription_write | `MCStaleSubscriptionWrite.cfg` | violation | `SubscriptionWriteApplied`: linking a user to a closed subscription leaves it enabled. |
| get_or_create_retry_duplicate | `MCGetOrCreateRetry.cfg` (module `MCGetOrCreate`, `Asked = {"user"}`) | violation | `NoDuplicateName`: one script calls `get_or_create_user`; the create times out, and the script calls the helper again. The second list does not show the first POST, which the appliance performs later, so the user is created twice (10 steps). |
| default_race | `MCDefaultRace.cfg` (module `PritunlDefaultConfig`) | violation | `AtMostOneDefault`: two users save `is_default` on two configurations at once. Each constraint search sees no other default in its snapshot. The rows differ, so both commits succeed, and two configurations are active defaults (6 steps). |
| cron_nondefault_success | `MCCronNonDefault.cfg` (module `PritunlDefaultConfig`) | violation | `SyncedFromOwnAppliance`: with two active configurations, the cron syncs the default's appliance twice and marks both 'success' (4 steps). |

Each passing user run keeps to the operations whose interleavings the code
gets right. With the toggle, the subscription write or the sync running
beside the cron, `SubscriptionEventuallyEnforced` fails in the ways
`MCUserSyncEcho.cfg` and `MCCronBlocked.cfg` show (see below).

### Further counterexamples

The organization module states four more properties that the code breaks.
Their configurations are kept, and each one reproduces the counterexample
with `tlc -config MCArchivedDuplicate.cfg MCPritunlOrganization` or, for
the other three, which include the cron, `tlc -config <cfg> MCPritunlConfig`.
They are not among the
runs, because the user runs show the same mechanisms in a more harmful form.

- `MCDanglingMirror.cfg`, `NoDanglingMirror`. `unlink` deletes on the
  appliance before deleting locally. A read timeout after the appliance
  deleted, or a failure on a later record of the batch, rolls back the
  local delete. The record then points at an organization that is gone.
- `MCSyncWriteBack.cfg`, `SyncDoesNotWriteBack`.
  `action_sync_from_pritunl`'s `write({'name'})` sends `update_organization`
  with the name it listed earlier. This undoes a user's rename made in
  between.
- `MCArchivedDuplicate.cfg`, `NoDuplicateMirror`. The sync's `search()`
  skips archived records, and `pritunl_id` has no unique constraint. So
  every sync after archiving creates a second record.
- `MCConcurrentSync.cfg`, `NoDuplicateActiveMirror`. A sync whose snapshot
  predates a create's commit imports the new organization again.

The user module has four more (`tlc -config <cfg> MCPritunlUser`):

- `MCUserSyncEcho.cfg`, `SubscriptionEventuallyEnforced`. The user sync
  PUTs back the flag it listed and undoes the cron's disable. The sync
  then fails and rolls back; the cron's commit says disabled, so it never
  sends the disable again.
- `MCCronBlocked.cfg`, `SubscriptionEventuallyEnforced`. A record whose
  delete timed out after the appliance deleted the user makes every cron
  run raise. The lapsed users after it are never disabled.

- `MCRenewalRace.cfg`, `SubscriptionEventuallyEnforced`. The cron's disable
  PUT lands; then the subscription is renewed, and the cron's transaction
  aborts. The record says enabled, the appliance says disabled, and nothing
  repairs it.
- `MCOtpStale.cfg`, `OtpSecretCurrent`. `action_generate_otp`'s PUT
  replaces the secret on the appliance. The request's commit then loses to
  a subscription change that recomputed the same row. Odoo re-runs the
  request, the second PUT fails, and the request rolls back. The record
  shows a secret the appliance no longer accepts (17 steps). A read
  timeout after the PUT does the same in three steps.

`MCGetOrCreate.cfg` (`tlc -config MCGetOrCreate.cfg MCGetOrCreate`) shows
`NoDuplicateName` violated by two scripts calling
`get_or_create_organization`. Both list, both miss the name,
and both create (9 steps).

The server module has one more, `MCServerDuplicate.cfg`, `EveryRecordMirrors`
(`tlc -config MCServerDuplicate.cfg MCPritunlServer`). The cron's snapshot
predates a create's commit, so its `search` misses the new record, and it
imports the server a second time. From then on `search(limit=1)` updates
only the lower record. The other record shows a status that is never
corrected (counterexample in 12 steps).

The configuration module has one more, `MCUnarchiveDefault.cfg`,
`AtMostOneDefault` (`tlc -config MCUnarchiveDefault.cfg
PritunlDefaultConfig`). It needs no race. An archived default is invisible
to the constraint's search, so another record can be made default, and
unarchiving the first runs no constraint at all (6 steps, one user).

`PROJECT.json` lists the findings these violations stand for, the mutants
that show each passing property can fail, and the hazards.

### Bounds

- Two names and three appliance ids: two organizations can share a name, and
  a third id leaves room for the administrator's create.
- Six rows: enough for the creates plus a sync importing every appliance id.
  `CreateRoom` refuses a create that could exhaust the rows or ids, so that
  running out is never mistaken for a deadlock of the code.
- At most 2 records per batch: the second record is where partial failures
  start.
- One failed call, one administrator change, one re-run, 2–4 user requests.
  Every violation above appears within these bounds in 16 steps or fewer.
- The cron's runs are unbounded; its state is finite.
- Users: two appliance ids, four rows, two subscriptions (one in
  progress, one closed), one user worker and the cron, 3 requests, one
  failure, one re-run. Two ids let the cron meet a second user after a
  failing one, and two subscriptions let a write move a user between
  states. Every user violation appears within 40 steps.

- Helpers: one name, three object ids, one retry per caller and one failed
  call. One caller with a retry is the smallest case in which a late POST
  meets a later list; two callers show the race without any failure. OTP
  secrets are bounded by the requests: at most `MaxUiOps * (MaxTries + 1)`
  PUTs per user.

- Configurations: two records, two user workers (one for the sequential
  path), one failure and one re-run. Two records are the fewest that can
  both be default, and `Init` allows every saved state with at most one
  default, archived ones included.

- Client: two calls, two methods, two endpoint names (one public), one
  extra network copy. The copy is what makes a replay and a duplicate
  application possible; a second call is what a shared nonce would break.
  Both unset timeouts (`None`, 0) are tried, so a missing fallback shows.

- Servers: two server ids, one host id and one link id, one organization
  with a `pritunl_id`, six rows (every id imported once plus one extra
  row for each of the two requests: a duplicate after an archive, or a
  create racing the cron). There is one user worker making two requests
  of any kind, one failure (which may have taken effect), one re-run and
  one administrator change. Two server ids are enough for an
  administrator's server beside a created one, and two requests are
  enough to create or archive a server and then act on it.

`org_with_cron` uses batches of one and symmetry of the (interchangeable) names to stay within five minutes; the liveness run uses no symmetry. Batches of
two are checked without the cron in `org_batches`.

### Fairness

`Spec` (in both modules) assumes weak fairness of every worker's
in-progress step and of `CronBegin`:

- a running request ends, because every call is bounded by the client's
  timeout;
- Odoo's scheduler starts the cron again at its interval.

Users and the administrator are not assumed to act.

`PritunlServer` assumes the same fairness as the user module, with
`CronBegin` starting `cron_sync_pritunl_data`. Its liveness property
speaks of the states after the last user request and administrator
change. Both are bounded, so such states always come.

`PritunlAuth` assumes weak fairness of `Receive` and `Timeout`: the client
reads a response that arrived, and the socket's timer fires otherwise (the
timeout always has a value, `REQUEST_TIMEOUT` by default). The network and
the appliance get no fairness: a request may be lost for good. The run does
not check deadlock: when both calls have ended the client stops.

`GetOrCreate` assumes no fairness: its only property is a safety
invariant. Its runs do not check deadlock, because the scripts stop once
every call has ended.

`PritunlDefaultConfig` assumes no fairness either: its properties are
invariants. The cron can always start again, so its runs check deadlock.

## Not modelled

Every component that changes state is now modelled. Left out for good:

- `res.partner`: computed fields and window actions only;
- the settings, administrators, logs, devices, status, keys and SSO
  wrappers: one stateless call each;
- the manifest and views.

Deployment issues noticed while reading:

- the models import `organizations` and others from `lib/`, which has no
  such files;
- `sale.subscription` is used without a dependency on it;
- `lib/users.py` imports `from .auth import PritunlAuth`, but the models
  import it as the top-level module `users`, where a relative import fails.
  As shipped, every user call would raise and become a `UserError`. The
  model assumes the import works. `lib/auth.py` likewise imports
  `from . import config`, and `lib/config.py` does not exist; the model
  takes the defaults as constants.

Not modelled in the server mirror: the fields other than `pritunl_id`,
`status`, `active` and `organization_ids`. Network, port, protocol and the
rest are sent once by `create_server` and never read back or pushed again,
because there is no `write` override. Also not modelled: the `message_post`
chatter and the notifications. What the appliance answers to an attach
of an organization already attached, or to an attach on a running server,
is not documented in the repository, so an attach either takes effect or
fails.

Not modelled in the user mirror: `action_download_vpn_config`, which is
read-only, and writes of the other Pritunl fields, which take the same
`update_user` path as `disabled`.
