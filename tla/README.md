# A TLA+ model of ai-infraops

ai-infraops is an operations console: a FastAPI backend (`src/services/backend`), two Next.js
frontends (`src/apps`), a small Go agent (`src/services/linux-agent`), a MySQL database for the
platform's own tables and a Redis for its sessions. The backend manages resources that other
people use as well: accounts, passwords and grants on MySQL and Doris servers, secret values in
Nacos and Kubernetes, keys in Redis, workloads in Kubernetes. Its core logic is what it does when it
changes or reads something *remote* that no transaction covers together with its own tables, and who
may see a secret. That is what this project models, checks with TLC and, for the parts where it
matters most, proves with TLAPS.

All paths below are relative to the repository root. `B/` stands for `src/services/backend/app/`.

## 1. Inventory

| part | state it keeps | operations | what is hard | what makes it correct |
|---|---|---|---|---|
| account actions, `B/database_account_actions.py` | `database_account_action_operations` (one row per operation id, `lock_key` unique while the result is open); the advisory lock | preview, perform (disable, delete), status, verify | retries of one id, crashes between the statement and its record, lost and late answers, accounts replaced meanwhile | one statement per operation; a row in doubt occupies its account until it is known what happened; success is only recorded when true |
| permission edits, `B/database_permission_routes.py`, `B/database_permissions.py` | `database_permission_operations`: the grants before and after, status, `lock_key` | update, reconcile (verify, restore) | a list of statements without a transaction, undone by another such list | final statuses tell the truth; nobody else's grants are touched; settled rows free the account |
| managed accounts, `B/database_accounts.py`, `B/database_account_client.py`, `B/database_account_expiry.py` | `database_managed_accounts`; a marker in the comment of the remote account | create, verify, undo, save_password; expiry worker | no lock at all, rollback of a half-made account, several workers, crashes | statuses are true when written; only accounts of the platform are dropped or cut; due accounts are cut in the end |
| value access, `B/value_access.py`, `B/nacos_value_selection.py` | `value_access_requests` with the encrypted snapshot | create_request, review, read | rights and sources change between request, review, capture and reading; two reviewers | decided once, by an entitled person other than the requester; nothing but the approved content is shown, to nobody but those entitled |
| sessions and login, `B/session_store.py`, `B/main.py` 222-389 | tokens in Redis with the user's `auth_version` | login, load, logout | a password reset between reading the hash and saving the session | no session outlives the password it was made with |
| users, `B/user_management.py`, `B/user_passwords.py` | `rbac_users`, `rbac_user_roles` | create, edit, reset password, read password | row locks in different orders, an operator disabled meanwhile | changes only by an operator entitled at the commit; no cycle of row locks |
| middleware instances and passwords, `B/main.py` 740-1960, `B/mysql_client.py`, `B/doris_client.py`, `B/nacos_client.py` | `middleware_instances`, `doris_account_credentials`, `mysql_account_credentials` | create, edit, delete an instance; list accounts, verify, reset, save a password; Nacos catalogue and structure | instance edited or deleted between reading its row and writing the record; unanswered ALTER USER; a login that reaches another account of the name | a stored password was in force, and is what the server has unless somebody overtook the request |
| hosts and clusters, `B/main.py` 2195-3205 | `machine_hosts`, `k8s_clusters` | save, probe, delete a host; clusters by their own API; ten queries that write a status | a save is three steps without a common transaction; a cluster adopted by its name | the columns say what the stored kubeconfig says; a save that was not overtaken leaves what it asked for |
| Kubernetes reads, `B/k8s_client.py`, `B/k8s_workload_images.py` | none; the namespace they look at changes | image inventory (five lists), a variable of a workload (list, list, command) | objects deleted and created again under one name between two calls | rows are grouped by the real owner; the value comes from a pod of the workload asked for |
| monitoring platforms, `B/main.py` 555-711 | `monitoring_platforms` | create, edit, probe, delete | an edit that raises before its commit | no two of one type and address; an accepted edit is stored (it is not: section 4) |
| Redis browser, `B/redis_data.py` | remote keys; `redis_import_batches`, `redis_import_files`; cached clients | write, delete, import, refresh; reads | EXISTS and SET apart, partly failed batches, a crash in a batch | a batch tells what its rows tell; nothing is overwritten that should be kept |
| platform database, `B/db.py` | a pool of connections, advisory locks on them | get_connection, transaction, close | handlers that hold one connection and wait for another; connections the server closes | every request ends; no lock stays behind in the pool |
| audit, `B/audit.py` | `security_audit_events` | one insert per request | a failing insert is swallowed | reported, never blocking |
| frontends, Linux agent, migrations | browser state; none; schema | pages, a read-only daemon, SQL files | - | every decision is taken again by the backend |

Interactions. A request handler runs in a thread of its own; an import is a coroutine that keeps the
event loop between two waits. The account components meet in four places: the remote server, the
three account tables, the advisory lock (`account_change_lock`, `GET_LOCK` without waiting on a
connection of its own), and the checks each makes of the other's table (`PendingActions` in edits,
`PendingPerms` in actions). Creation, undo and the expiry worker do not take the lock. Database
administrators change the same servers without the platform. Value access asks the RBAC tables at
every stage and the source twice, at request and at approval; for an environment variable the source
is `get_workload_environment_keys`. The other parts share no table with each other.

## 2. Modules

`AccountPlatform` holds what the account components share; it has no behaviour of its own but the
world outside (`Outside`): a statement its client gave up lands (`Land`), Doris lets a one-second
password lifetime run out (`Settle`), an administrator drops, creates, re-grants or unlocks an
account (`Dba`). An account is the pair (instance fingerprint, user identity) that is the unique
key of `database_managed_accounts`, so its record is one row and its marker one Boolean. A remote
statement either executes with its answer seen (`Executes`) or ends in an error (`Fails`): it was
refused or never arrived, ran with its answer lost, or still runs (`late`).

| module | models | its state in the code | its actions in the code |
|---|---|---|---|
| `AccountActions` | account actions | `ask`: the request an id stands for; `act`: the handlers' program counters; `sent`: history of issued statements | `Submit` preview and confirmation; `Perform`, `Lock`, `Check`, `Busy`, `Insert`, `Exec`, `Poll`, `FinishPerform`, `Fail`, `Release` the steps of `perform`; `Verify`, `VerifyOutcome`, `VerifyFinish`, `VerifyNot` those of `verify`; `Die` a crash or an error outside the inner `try` |
| `PermissionEdits` | permission edits | `edit`: the request; `perm`: handlers with the statements left | `Update` ... `Applied` the update, one statement a step (`Exec`); `Failed`, `RestoreExec`, `RestoreVerify`, `Restored` `restore()` inside the update or for a request; `Reconcile`, `Judge` the later verification |
| `ManagedAccounts` | managed accounts | `mgr`: handlers; `wrk`: expiry workers with the rows claimed | `Create...` create_account; `Rollback...` rollback_operation inside a creation or for `Undo`; `CheckOperation` ... verify; `Save` save_password; `Claim`, `NextRow`, `Expire...` the worker; `Due`, `Lapse`, `AgeRecord` the clock |
| `AccountLifecycle` | the three together | all of the above on one `AccountPlatform` | each component's next-state relation, the others' state unchanged |
| `ValueAccess` | value access | `source`, `rights`, `row`, `job`; `given`: history of what was handed out | `Create`; `Review`, `ReviewOwner`, `Capture`, `Again`, `WriteDecision`; `ReadOwn`, `ReadPermission`, `ReadBack`, `ReadAny`, `ReadAdmin`, `ReadRow` |
| `ValueDecision` | what an approval promises (abstract) | a decision, the contents covered, the content captured, what was shown | `Ask`, `Approve`, `Reject`, `Show` |
| `UserSessions` | sessions and users | `row` the users, `lock` their row locks, `sessions` the tokens in Redis, `job` the handlers | `Login`, `LoginTouch`, `LoginSave`; `Forget` logout, expiry or refusal; `Reset...` reset_password; `Change`, `Operate...` authorize; `EditTarget`, `EditWrite` edit; `CreateWrite` create |
| `MiddlewareInstances` | instances, stored passwords | `instRow`, `managed` the tables; `remotePwd` the servers; `lateAlter` unanswered statements; `instReq` the handlers | `CreateInstance`, `UpdateInstance`, `DeleteInstance`; `Load` the row of a request; `Fetch`, `VerifyLogin`, `LoginFails`, `Alter...` its remote step; `SavePassword`, `MarkStatus` its last write; `Doris...`, `Mysql...`, `Nacos...` the endpoints; `LandAlter`, `OtherPassword` the outside |
| `HostClusters` | hosts and clusters | `hosts`, `clusters` the tables; `hostReq` the handlers | `CreateHost`, `UpdateHost`, then `WriteHost`, `ReadCluster`, `WriteCluster`; `CreateCluster`, `DeleteCluster`, `DeleteHost`; `K8sNamespaces` ... `ResourceMetrics` the queries, `AskCluster`, `MarkCluster`, `MarkHost` their steps |
| `WorkloadReads` | Kubernetes reads | `controllers`, `replicaSets`, `pods` the namespace; `request` the lists read so far; `born`: history of what every uid was | `StartImages`, `ListPods` ... `ListDaemonSets` the inventory with its grouping (`Controller`, `ImageRow`, `Health`); `StartEnv`, `ReadWorkload`, `ListEnvPods`, `ListEnvSets`, `ChoosePod`, `Exec` the variable; the rest is Kubernetes |
| `RedisData` | imports and single keys | `redis` who wrote each key; `batch` the two tables; `import` the coroutines; `writer` the handlers | `BeginImport`, `OpenClient`, `ReadUpload`, `SetKey`, `SetMeta`, `RecordWritten`, `RecordFailed`, `CloseUpload`, `FailImport`, `WriteSummary`, `AbortImport`; `KeyExists`, `WriteKey`, `DeleteKey` |
| `ConnectionPool` | the pool | `lease` each connection: where it is, what it has locked; `handler` who holds or waits for what | `GetConnection`, `PoolTimesOut`, `GetLock`, `SecondConnection`, `SecondReturned`, `BodyEnds`, `ReleaseLock`, `RunQuery`; `Break` the server closes a connection |
| `MonitoringPlatforms` | monitoring platforms | `platRow` the table, `platReq` the handlers | `CreatePlatform`, `UpdatePlatform`, `AskPlatform`, `MarkPlatform`, `DeletePlatform` |
| `...Proofs` | theorems about the module of that name | | |
| `AccountPlatformProofs` | lemmas shared by the account components | | |
| `ManagedAccountsProofs` | theorems about `ManagedAccounts`, and the types of `MCAccounts` | | |
| `AccountLifecycleProofs` | theorems about `AccountLifecycle`; instantiates `ManagedAccountsProofs` (which extends `AccountActionsProofs`) and `PermissionEditsProofs` | | |
| `ResourceProofs` | theorems about `MiddlewareInstances`, `HostClusters` and `MonitoringPlatforms` | | |
| `ConsoleProofs` | theorems about `ConnectionPool`, `RedisData`, `WorkloadReads` and `UserSessions`, and the types of `MCConsole` | | |
| `MC...` | instances for TLC | | symmetry, bounds, forms |

`MCAccounts`, `MCLive` and `MCConsole` hold several modules that share no state in that run. A
variable `part`, chosen in the initial state, says which of them takes all the steps: a behaviour of
all of them at once is an interleaving of behaviours of each, and a property of one module cannot
tell the difference.

Abstractions. One step is one remote statement, one platform transaction or one check, in the
order of the code; everything the code does between two of them belongs to the step. Grants are
sets of (scope, privilege) pairs, each pair one statement. The identity of an account is an
incarnation number on MySQL, where the credential checksum tells two accounts of one name apart, and
nothing on Doris, where it does not. Time is a flag that an action sets at any moment (`aged`,
`due`, `claimed`). A user's role and superuser flag, always written together,
are one Boolean, a password is a number, and locking a user that does not exist is harmless. Login's
SELECTs belong to one transaction and see one snapshot. Documents are functions from lines to values,
their HMAC revision the document itself; what can be parsed at all is assumed. Passwords of created
accounts appear as "issued" or "typed by hand", those of middleware accounts as values of
`Secrets`; encryption is left out. A kubeconfig is who issued it and its TLS setting. A value in
Redis is the name of who wrote it. A pod has one container; the figures beside a row of the
inventory are the uid of the workload they were taken from; every pod of the namespace matches every
selector, which is what workloads with the same labels come to and leaves the work to the owners.

History variables are read by properties only: `sent`, `touched`, `stirred`, `given`, `late` in
`ValueAccess`, `everHeld`, `born`, and the fields `raced` of requests. `touched`, `stirred` and
`raced` mark what somebody else changed in the middle of a handler's work: no client of a server can
exclude that, so the properties that speak of the remote state except it, and nothing else. In
`AccountLifecycle` the somebody else is also a creation, an undo request or an expiry worker:
they take no lock, so for whoever holds it their statements come from outside, and `touched` marks
them (`Lockless`). Statements of a handler with the lock are marked by nobody.

## 3. Runs

| run | configuration | shows |
|---|---|---|
| `accounts` | Doris, 1 account; actions: 2 operations, 2 threads, 1 late statement, 2 outside changes; managed accounts: 2 threads, 1 worker, 1 outside change | `NeverReissued`, `OpenIffUnsettled`, `OneInDoubt`, `ConfirmedAccount`, `SucceededIsTrue`; `CreateReportsTruth`, `FailedIsGone`, `OnlyOwnTouched`, `ExpiredIsCut` |
| `permissions` | MySQL, 2 edits, 2 privileges, 2 threads, 1 outside change | `PlanConfined`, `AppliedIsTrue`, `RestoredIsTrue`; settled rows free the account (`SettledFrees`, a conjunct of the type) |
| `lifecycle` | all three account components on Doris, two requests at a time; no worker, no late statement, no outside change | `NoOpenPair`, `Serialised`; `ActionsTrue`, `EditsTrue`: both keep their word beside creations and undo requests |
| `approvals` | 2 users, 1 request, 2 threads, 2 lines, one change of a source, one of rights | `ReviewerEntitled`, `ReaderEntitled`, and `Decides`: `ValueAccess` implements `ValueDecision` |
| `console` | instances: 2 threads, ids, servers and secrets, 2 requests, 1 outside change; hosts: 2 threads, ids, environments, addresses and kubeconfigs, 2 requests, 1 outside change; Redis: 2 imports of 2 files into the same 2 keys, 1 writer with 1 write; pool: 3 handlers, 2 connections, 2 accounts, 1 broken connection; platforms: 3 requests; workloads: 1 name, 1 template, 5 objects and changes; sessions: 2 users, 2 threads, two changes of users, one session at a time | `WrongNeverSaved`, `SavedIsTrue`; `TlsAgrees`, `SavedUnlessRaced`; `SummaryTrue`, `KeepsUnlessRaced`; `PoolLocks`; `RowsTrue`, `StaysResolved`; `AcceptedIsCurrent`, `NoLockCycle`, `AuthorisedCommit` |
| `live` | MySQL; managed accounts with 2 competing workers, actions with 1 operation and 2 threads, the pool as in `console`; nothing changes from outside | `DueExpires`; `RequestsEnd`, `DoubtEnds`; `RequestEnds` |
| `denied` | Doris, 1 operation, 1 thread, nothing from outside, no row gets old (`Prompt`) | violated: a disabling that is settling is called not applied |
| `stuck_doubt` | MySQL, 1 operation, 1 outside change | violated: an account changed while an operation is in doubt stays blocked for ever |
| `stale_restore` | two reconciliations and a later edit | violated: a restoration judged before the lock undoes an operation settled meanwhile |
| `undo_created` | undo against verification | violated: an account reported as created is dropped |
| `deleted` | one request at a time | violated: verifying the creation of a deleted account takes its record out of `deleted` |
| `old_pod` | 1 workload, 3 objects, one of them changes once | violated: a variable is read in a pod of a workload deleted before |

`accounts`, `permissions` and `console` also check the type invariants of their modules; the types of
the other passing runs are theorems (`TypesHold`, `ValueTypes`; for `live` those of its parts).

Why the bounds are enough. All hazards of the account components concern one account (every guard and
key is per account), so one account with two operations and two threads shows every pair of handlers,
and a handler against a crash of another: a dead thread's slot is free for the next request, so a run
contains any number of requests one after another. Two incarnations of an account (`MaxInc`) are needed
for "dropped and created again"; one late statement and two outside changes let one of each hit every
step. Two privileges let a list of statements break in the middle. `lifecycle` allows two requests at a
time (`Pairwise`): its properties relate two handlers, and it leaves end dates, hand-made records,
creations that died (`PlainRecords`), workers, late statements and outside changes to `accounts` and
`permissions`; the theorems about
`AccountLifecycle` have them all, in any number. In `approvals`, two users are enough for a requester
who is an administrator himself, and two threads for two deciders or a decider and a reader; one line of
the documents never changes so that both a redacted and a changed line occur.

In `console`, two requests and one change from outside are what a race takes: a save, one that
overtakes it, and a password changed, a credential renewed or a login answered late between. Two
instances and two servers let a row point to another server after an edit, two accounts of one name
let a login reach the wrong one. Two hosts and two clusters let a save find the cluster of another
host, or one made by its name. Two imports of two files into the same two keys break
between the files and overlap; the writer of a single key comes between EXISTS and SET. With two
connections, two handlers that each hold one and want another leave a third one waiting, and locks
of two accounts tell apart the connection and the account. Five objects are a Deployment, its
ReplicaSet and a pod, and then Deployment and ReplicaSet again under the same names; a request meets
at most three objects and changes when it begins, and one for a variable, of whose pod no property of
this run speaks, ends there too; images are listed where no pod comes or changes, for the pods of the
answer are those of the first list (`SmallAtFirst`). A request of a user keeps a copy of its session,
so one session at a time still gives two requests with different sessions, and a login racing a
reset; `Admin` and one other user take the row locks in both orders. Two changes of users are what it
takes to withdraw a right before it is used: a behaviour ends with the second, which the properties
still see (`FewChanges`).

What a verification says of a disabling differs by server. On MySQL the lock is there or not, and
`NotAppliedIsTrue` holds: no run checks it there, it is proved, with everything that may come between
(`NotAppliedHolds`, and `NotAppliedTruthful` beside the other components). On Doris a password lifetime
of one second has to run out first, with a margin (lines 71-73 of the actions module); the request
itself polls for it, a verification looks once. If the answer to the statement was lost and somebody
asks at once, the row says not applied, frees the account, and the disabling takes effect a moment
later (`denied`). `Prompt` keeps time out of that run: no thirty seconds pass anywhere in it.

Fairness. `ThreadFairness` and `RequestFairness`: a handler that can take a step takes one, because
every remote call has a read timeout of ten seconds, every platform call fifteen, and the polling a
deadline of four; nothing is assumed of clients, so no request is ever obliged to arrive.
`VerifyFairness` (only for `DoubtEnds`): an administrator asks again for the result of an open
operation and is not refused the lock or interrupted every single time, hence strong fairness.
`ExpiryFairness` (only for `DueExpires`): the loop of `expiry_loop` ticks every 30 seconds, claims
lapse after two minutes, and a row is not answered with an error for ever; without the last one an
unreachable server rightly keeps its row `expiring`. `PoolFairness` (only for `RequestEnds`): weak
fairness of each handler's steps, since a wait for a connection ends with the pool's timeout at the
latest, and strong fairness of the end of a handler's body, which makes a bounded number of queries.

`Deadlock`: every run says `CHECK_DEADLOCK FALSE`, since a bounded number of operations, edits,
requests and outside changes may all be used up with nothing left to ask for.

## 4. Findings

The six violated runs are disagreements of the code with its own messages and documents; each
names the line in PROJECT.json. In short:

- nothing ever writes the status `conflict` that `verify` treats as final (`stuck_doubt`);
- `verify` calls a disabling not applied that is settling on Doris, where
  `src/docs/vibecoding/database-account-management.md:49` has it wait (`denied`);
- `reconcile` judges a row it loaded before it took the lock (`stale_restore`);
- `undo_operation` judges a record before `rollback_operation` drops the account (`undo_created`);
- `check_operation` does not know the statuses `deleted` and `disabled` (`deleted`);
- a variable is read in a pod found by the kind and name of its owner (`B/k8s_client.py:264-282`),
  never by the owner's uid, which `B/k8s_workload_images.py:89` does compare. While a pod of a workload
  that was deleted still runs, it stands for the one created again under the name, and is preferred to
  new ones that are not ready. `src/docs/vibecoding/k8s-env-key-inventory.md:23` promises a pod of the
  workload (`old_pod`); that it is one of the kind and name asked for is the theorem `ReadsAsAsked`.

Four more were met while modelling and have no run:

- The clause that removes the copy of an imported file (`B/redis_data.py:533-536`) expects only that
  the copy is missing. Any other error of it, as with a file name too long to be opened, is taken for
  one of Redis (lines 148-151), and lines 546-549 make the batch `failed` with no figures beside the
  rows already committed, those of written files too. Line 538 and the console
  (`src/apps/admin-web/src/app/redis-browser.tsx:149`) call such a batch partial. `RedisData` has the
  path (`CloseUpload`, `FailImport`); `SummaryTrue` speaks of batches with figures and of those said to
  have succeeded, and leaves open what a batch without figures has written.
- `update_monitoring_platform` calls a function with a name it does not have (`B/main.py:628`), so that
  every edit of a platform is rolled back and answered 500. `UpdatePlatform` does the same.
- The command goes to a pod name, and the uid recorded is that of the list (`B/k8s_client.py:302,332`):
  with a StatefulSet the name may belong to the next pod by then.
- `pod_health` looks for errors before it looks for a deletion (`B/k8s_workload_images.py:60`), so a
  terminating pod whose container ended with an error counts as abnormal;
  `src/docs/vibecoding/k8s-image-inventory.md:56` wants terminating pods counted apart. `Health` has the
  order of the code.

## 5. Proofs

Eight modules of proofs; every theorem holds for all values of the constants that satisfy the named
assumptions of its modules. They say little: `PlatformAssumption`, `ManagedAssumption`,
`ValueAssumption`, `SessionAssumption`, `InstAssumption`, `HostAssumption`, `RedisAssumption`,
`PlatAssumption`, `PoolAssumption` and `WorkloadAssumption` make bounds naturals and sets what the
code's are; `ActionAssumption`, `PermAssumption` and `LifecycleAssumption` say that whoever handles a
request is a thread that can hold the lock, and that the handlers of two components are different
ones. Three theorems assume more and say so in their statement: `NotAppliedHolds` and
`NotAppliedTruthful` (MySQL) and `NeverBothOpen` (one spelling). None of the properties is inductive
as it stands; each proof states an invariant that is, one lemma per kind of step and one step per
action under each conjunct the action can disturb. `Inv => Inv'` is proved under `UNCHANGED` as well,
and PTL does the rest.

`AccountPlatformProofs` has the lemmas the three account components share: what a statement,
a lost answer, a late landing, a settling lifetime and an administrator leave of the server's type, of
the lock and of the history. `Spares(T)` is what a step must do for the threads of `T` if it is not
theirs: their locks stay with them, and the account of such a lock stays as it is or is marked in
`touched`. Statements without the lock spare everybody because of that mark (`Noted`), those under
the lock because nobody else holds it. `Own` (an account has the marker or is gone) and `Settled` (on
MySQL a lock is open or locked, nothing in between) are kept by every statement of the backend.

`AccountActionsProofs`: `TypeCorrect`, `MutualExclusion`, `AtMostOnce`, `Occupation`, `SingleDoubt`,
`MeetsPreview`, `SuccessIsReal` and `NotAppliedHolds`, for any number of accounts, privileges,
operations, threads, late statements and outside changes and, but for the last, for both kinds of
server. All but the first rest on `ActionInv` (theorem `Invariant`):

- `NeverReissued` needs `IssuedOnce` (an issued operation has a row, and a thread about to issue is
  the first) because the guard of `Insert` is about rows, not about statements; two threads about to
  issue the same operation are excluded by `LockHeld`.
- `OpenIffUnsettled` needs `Working`: the except branch writes `uncertain` without looking, which is
  only right because the row still says `applying`, which is only so because nobody else writes a row
  whose account's lock one holds.
- `OneInDoubt` is the unique key, and needs `OpenIffUnsettled` for rows that become uncertain.
- `ConfirmedAccount` needs `Confirmed`: from the check of the preview to the statement only the
  outside world (`touched`) changes the account; `SucceededIsTrue` needs `Found` likewise from the
  read-back to the record of it.
- `NotAppliedIsTrue` adds `Settled` (on MySQL a lock is open or locked, nothing in between) and
  `NotFound` (from a reading that found no effect to the record of it the account is open).
- `Known` ties rows and threads to requests that were made.

`PermissionEditsProofs`: `EditTypes` (`PermTypeOK`, with `SettledFrees`), `Confined`
(`PlanConfined`), `AppliedHolds`, `RestoredHolds`, from `PermInv`: a handler in its section holds the
account's lock, alone (`EditLock`); a row repeats the request it was made from (`Recorded`); what was
last seen of the account is still so unless it was touched (`Watched`); the statements an update has
left lie within what its two plans differ in, those of a restoration within their union (`Planned`). A
restoration is judged by a row loaded before the lock: `Recorded` therefore speaks of the row's plan,
which never changes, and not of its status, which may have (`stale_restore`).

`ManagedAccountsProofs`: `ManagedTypes`, `CreationsTrue` (`CreateReportsTruth`), `FailedHolds`
(`FailedIsGone`), `ExpiredHolds` (`ExpiredIsCut`), `OwnTouched` (`OnlyOwnTouched`), from `ManagedInv`.
Nobody takes a lock here; what stands in for it is `Exclusive`: while a creation runs, the status and
the age of its record keep other creations, verifications, undos and workers away from it, and whoever
works for a record finds it (`HasRecord`). On that rest `MgrSeen` and
`RowSeen`: what a handler or a worker has read of an account holds until its write, unless somebody
else stirred the account in between, and an account found gone stays gone. The part of this that
needs neither statuses nor the absence of actions is `BaseInv` (types and `HasRecord`) with
`MarkSeen`: an account found marked is marked or gone when it is dropped or cut; `OwnTouched` rests on
these alone. `AccountsTypes` (`AccountsTypeOK`) chooses between `TypeCorrect` and `ManagedTypes` as
`MCAccounts` chooses its part.

`AccountLifecycleProofs`, about the three components on one platform. First, what the lock and the
tables promise each other: `EditsSerialised` (`Serialised`), `OpenPairIsPlain` and `NeverBothOpen`
(`NoOpenPair`), from `LifecycleInv`. Inside the section one holds the account's lock, whichever
component one belongs to (`Locks`); what was not found in the other component's table is still not
there when one's own row is written, because the other side would need the lock to put it there
(`Clear`); hence an open edit stands beside an open action only if the request spelt the user without
quotes, which hides the action from the search (`Pair`). Creations, undos, workers and the outside take
no part in this: they leave the lock and both tables as they are.

Second, what becomes of the theorems about the parts. The invariant is `Together`: `ActionInv`,
`PermInv` and `BaseInv`, each as it was proved for its part. A step of a part keeps the invariant of
that part by the part's own proof, and those of the others because it spares their threads
(`ActionsTogether`, `EditsTogether`, `OthersTogether`; the lemmas with `Beside` in the modules of the
parts). The proofs of the parts are brought in with INSTANCE over the variables of the whole; the
lemmas `Same...` show that a step of the composition is a step of the part the theorems are about. From
`Together`:

- `TypesHold`: the types of the three parts;
- `ActionsExact`: `NeverReissued`, `OpenIffUnsettled` and `OneInDoubt`;
- `ActionsTruthful` (`ActionsTrue`: `ConfirmedAccount` and `SucceededIsTrue`) and, with `Settled` and
  `NotFound` as above, `NotAppliedTruthful` (`NotAppliedIsTrue`, MySQL);
- `EditsTruthful` (`EditsTrue`: `AppliedIsTrue` and `RestoredIsTrue`) and `EditsConfined`
  (`PlanConfined`);
- `OwnTouchedTogether` (`OnlyOwnTouched`), with `MarkSeen`: actions and edits leave no account without
  its marker, so they need not be excepted there.

`ValueAccessProofs`: `ValueTypes`, `ReviewersEntitled`, `ReadersEntitled` and the refinement
`Implements` (`Decides`: `Spec` implements `ValueDecision` under the mapping in `ValueAccess`; one
lemma per kind of step maps it to an abstract step or a stutter). They rest on `ValueInv`: a row that is
not there has no columns and one that is not decided no snapshot (`RowOK`); a job carries what the
code has checked by its place (`JobOK`): of a review, that the request is somebody else's, that the
content captured is one the request covers, and that the right to approve still holds when it is
written, unless it was withdrawn after it was asked for; of a reading, whose request it is and what
was loaded.

`ResourceProofs`, instances, hosts and platforms:

- `OnlyRealPasswords` (`WrongNeverSaved`), from `PasswordInv`: every password in force has been noted
  in `everHeld`; a request about to save knows the row its password was tried for, and the password
  was in force when it saw it; so does every stored record. A record is written long after the
  login, by then the instance may point elsewhere and the password be another: what survives is that
  it was once in force.
- `StoredInForce` (`SavedIsTrue`), from `FreshInv`: a request nobody has overtaken (`~raced`) works on
  the address its row still has, and the password it is about to store is the one in force there.
- `InstTypes` (`InstTypeOK`, with: no record of a password outlives its instance), from `OwnedInv`,
  which adds that a request under way has an existing id and a real address (`Underway`): the foreign
  key is looked at in the transaction that writes the record, and goes on to be kept by the cascade.
- `HostTypes` and `TlsAgreesHolds`, from `HostInv`: a cluster of a host points to an existing host and
  no host has two, the columns agree with the kubeconfig, and a request has at each of its steps all
  that it is about to write (`Ready`).
- `SavedAsAsked` (`SavedUnlessRaced`), from `SaveOK`, which adds that what an unraced save has written
  so far is still there (`Steady`): the three writes of a save are three transactions.
- `PlatTypes` (`PlatTypeOK`, with: no two platforms of one type and address), from `PlatInv`.

`ConsoleProofs`, the parts that stand alone:

- `ImportsKeepValues` (`KeepsUnlessRaced`), from `ImportInv`: only one import is between its look at a
  key and its SET, because nothing is awaited there (`OneInLoop`), and what it saw is free unless a
  single-key request came between (`LookedFree`).
- `RedisTypes` and `SummaryTold` (`SummaryTrue`), from `SummaryInv`: the rows of a running import are
  its results, and it has no figures (`BatchOK`); figures come with the summary alone, which is written
  when every file has its row, so they count the rows and the status follows from them (`Told`). A batch
  that fails on the way keeps its rows and has no figures, which is all that can be said of it
  (section 4). The counting is `Tally`, a cardinality, and no induction is needed.
- `RowsTrueHolds`, from `WorkloadInv`: no uid is given twice, everything there was born, and what was
  true of an object when it was created stays true of every copy in a list, however old.
- `ReadsAsAsked` (`ReadAsAsked`, which no run repeats) and `NothingLost` (`StaysResolved`), from `NamesInv`, which adds that
  names and owners of a copy are those it was born with, that the workload and the lists of a variable
  stand for its request (`EnvOK`), and that an owner that was found in a list is still in it
  (`StillListed`).
- `WorkloadTypes`, the types of the namespace, the lists and the requests, and `ConsoleTypes`
  (`ConsoleTypeOK`), which chooses among the types of seven parts as `MCConsole` chooses its part.
- `PoolLocksHold` (`PoolLocks`) and `PoolTypes` (no connection is held twice), from `PoolInv`: a
  handler has the connections its place in the code says and holds its lock unless the server broke
  the first of them (`Holding`); only connections out of the pool have a lock, and no two have the
  same (`LocksOut`).
- `SessionTypes`, `AcceptedHolds` (`AcceptedIsCurrent`), `CommitsAuthorised` (`AuthorisedCommit`) and
  `NoCircle` (`NoLockCycle`), from `SessionInv`: a handler has the row locks of its place
  (`LocksHeld`), what it has checked of a locked row still holds (`Checked`), and a session that would
  be accepted was made with the password of its user (`AllFresh`). For the circle: whoever waits for a
  row has only smaller ids locked than the one it waits for, so a set of threads that wait for each
  other would have no largest row awaited. That holds although an edit locks the operator first and
  the target after: only `Admin` may edit, and its id is the smallest.

Only model-checked:

- liveness, which is out of TLAPS's reach: `DueExpires`, `RequestsEnd`, `DoubtEnds`, `RequestEnds`;
- the six violated properties, of course; one of them, `NotAppliedIsTrue`, is proved for MySQL.

Of the properties of a part, three are not stated of the composition: `CreateReportsTruth`,
`FailedIsGone` and `ExpiredIsCut`. They rest on `Exclusive`, the statuses that keep others away from the
account of a creation, and a deletion or disabling that succeeds writes `deleted` or `disabled` into the
record of a creation that still runs (`finish` does not look at it), after which a verification or an
undo may work on the same account beside it. What a handler has seen is then also changed by
actions and edits, which `stirred` does not mark. These three hold for managed accounts with the world
outside; beside the other two components nothing in the code promises them (the hazard at
`B/database_accounts.py:404`).

## 6. Not modelled, and why

- Parsing and formatting: grant texts, YAML and JSON, INFO and metric texts, quantities of CPU and
  memory. They are functions of their input; the models take their results from small sets.
- Encryption and hashing: wrappers without state.
- Routing, validation of requests, read-only endpoints (also `read_password`, whose two SELECTs see
  one snapshot), metrics, logging; the audit insert, whose failure is swallowed.
- The frontends and the Linux agent, which take no decision that the backend does not take again.
- The refresh of a Redis topology: its error handler calls `execute` on a connection
  (`B/redis_data.py:412`), which has no such method, so it cannot do what it was written for. The
  registration of a Redis instance is answered 409 (`B/main.py:753`).
- Connections that come back to the pool only when they are collected, as that of an import
  (`B/redis_data.py:491`); statuses written by the id alone after a slow remote call
  (`B/main.py:2057`) are modelled as they are and promise nothing.
- `AccountPlatform` assumes that the advisory lock lives as long as its handler, although it belongs to
  a pooled connection that may be cut. `ConnectionPool` has the cut: `PoolLocks` says that two
  handlers meet only then.
- One server stands for one instance, so two instances with one address (whose action keys differ)
  are not seen; accounts are named in the canonical spelling in the runs (`Spellings = {FALSE}`; with
  `TRUE`, an edit sent as `user@host` does not find an open action, and `NoOpenPair` fails).

## 7. Plan

Done, in this order: `AccountPlatform`, `AccountActions` and its proofs, `PermissionEdits`,
`ManagedAccounts`, `AccountLifecycle`, `ValueDecision` and `ValueAccess`, `UserSessions`,
`MiddlewareInstances`, `HostClusters`, `RedisData`, `ConnectionPool`, `MonitoringPlatforms` and
`WorkloadReads`; then proofs of every safety invariant and every safety action property that a
passing run checks, and of those of the account components again for their composition, but for
the three named in section 5.

Next:

1. The statuses of a record that an action and a creation write without a common lock, with
   `stirred` marking actions and edits: what is left of `CreateReportsTruth`, `FailedIsGone` and
   `ExpiredIsCut` beside them.
2. The advisory lock lost with its connection in `AccountPlatform`, and the statements of an instance
   with a second address.
3. The clients' pure parts (grant texts, selection of lines) as operators checked against reference
   definitions.
