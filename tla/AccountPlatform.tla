---------------------------- MODULE AccountPlatform ----------------------------
(***************************************************************************)
(* What the database-account modules of the backend share: one managed     *)
(* MySQL or Doris server, the platform tables that describe its accounts,  *)
(* the advisory lock of account changes, and the administrators who work   *)
(* on the server without the platform.                                     *)
(*                                                                         *)
(* An account stands for (instance fingerprint, user identity), the unique *)
(* key of database_managed_accounts, so "the record of a" is one row and   *)
(* the comment infraops-managed:<id> it leaves on the server is a Boolean. *)
(***************************************************************************)
EXTENDS Naturals, FiniteSets

CONSTANTS Account,    \* the accounts of one server, existing or not
          Priv,       \* the (scope, privilege) pairs that can be granted
          Kind,       \* "mysql" or "doris"
          ActionOp,   \* operation ids of disable and delete requests
          PermOp,     \* operation ids of permission edits
          Thread,     \* the request threads of all backends
          NoOne,      \* nobody holds the advisory lock
          MaxInc,     \* bound: how often an account is created
          MaxLate,    \* bound: statements that outlive their timeout
          MaxDba      \* bound: changes made behind the platform's back

ASSUME PlatformAssumption ==
    /\ Kind \in {"mysql", "doris"}
    /\ MaxInc \in Nat \ {0}
    /\ MaxLate \in Nat
    /\ MaxDba \in Nat
    /\ NoOne \notin Thread
    /\ Account # {}
    /\ IsFiniteSet(Account)
    /\ IsFiniteSet(Priv)

VARIABLES
    server,     \* the accounts as the remote server holds them
    late,       \* statements given up by a client and still running there
    dba,        \* number of external changes so far
    advisory,   \* the holder of each account's advisory lock
    touched,    \* history: accounts changed from outside while their lock is held
    record,     \* table database_managed_accounts
    actionOps,  \* table database_account_action_operations
    permOps     \* table database_permission_operations

platformVars == <<server, late, dba, advisory, touched, record, actionOps, permOps>>

-----------------------------------------------------------------------------
(* Rows.                                                                   *)

\* The remote account: inc tells two accounts of one name apart (on MySQL the
\* credential checksum does), lock is the native disabling, cut says that the
\* expiry worker replaced the credential.
ServerRow == [live: BOOLEAN, inc: 0..MaxInc, mark: BOOLEAN,
              lock: {"open", "settling", "locked"}, cut: BOOLEAN,
              grants: SUBSET Priv]

RecordStatus == {"absent", "recorded", "provisioning", "verifying", "active",
                 "uncertain", "cleanup_required", "failed", "expiring",
                 "expired", "disabled", "deleted"}

\* confirmed: confirmed_at is set. plan: grant_plan, planned: it is not NULL.
\* timed: expires_at is set, due: it has passed. claimed: expiry_claim_until is
\* in the future. aged: updated_at is more than five minutes old. typed: the
\* password is one an administrator entered, not the one issued at creation.
\* made: the row comes from a creation and has an operation id.
RecordRow == [status: RecordStatus, confirmed: BOOLEAN, planned: BOOLEAN,
              plan: SUBSET Priv, timed: BOOLEAN, due: BOOLEAN,
              claimed: BOOLEAN, aged: BOOLEAN, typed: BOOLEAN, made: BOOLEAN]

NoRecord == [status |-> "absent", confirmed |-> FALSE, planned |-> FALSE,
             plan |-> {}, timed |-> FALSE, due |-> FALSE, claimed |-> FALSE,
             aged |-> FALSE, typed |-> FALSE, made |-> FALSE]

\* identity_fingerprint and the inputs of the revision shown to the administrator.
IdentityRow == [inc: 0..MaxInc, mark: BOOLEAN, grants: SUBSET Priv]

Identity(row) == [inc |-> IF Kind = "mysql" THEN row.inc ELSE 0,
                  mark |-> row.mark, grants |-> row.grants]

NoIdentity == [inc |-> 0, mark |-> FALSE, grants |-> {}]

\* An action operation: key says that lock_key is not NULL, aged that the row is
\* more than 30 seconds old.
ActionRow == [status: {"absent", "applying", "uncertain", "succeeded", "not_applied"},
              acct: Account, key: BOOLEAN, ident: IdentityRow, aged: BOOLEAN]

AnyAccount == CHOOSE a \in Account : TRUE

NoAction == [status |-> "absent", acct |-> AnyAccount, key |-> FALSE,
             ident |-> NoIdentity, aged |-> FALSE]

\* A permission operation with its plans and the account marker it started from;
\* aged: more than five minutes old.
PermRow == [status: {"absent", "applying", "uncertain", "applied", "restored", "conflict"},
            acct: Account, key: BOOLEAN, before: SUBSET Priv, after: SUBSET Priv,
            mark: BOOLEAN, aged: BOOLEAN]

NoPerm == [status |-> "absent", acct |-> AnyAccount, key |-> FALSE, before |-> {},
           after |-> {}, mark |-> FALSE, aged |-> FALSE]

\* The operations that still occupy an account through their lock_key.
PendingActions(a) == {o \in ActionOp : actionOps[o].key /\ actionOps[o].acct = a}

PendingPerms(a) == {o \in PermOp : permOps[o].key /\ permOps[o].acct = a}

PlatformTypeOK ==
    /\ server \in [Account -> ServerRow]
    /\ late \in SUBSET [verb: {"create", "drop", "disable", "expire", "grant", "revoke"},
                        acct: Account, privs: SUBSET Priv]
    /\ dba \in 0..MaxDba
    /\ advisory \in [Account -> Thread \cup {NoOne}]
    /\ touched \in SUBSET Account
    /\ record \in [Account -> RecordRow]
    /\ actionOps \in [ActionOp -> ActionRow]
    /\ permOps \in [PermOp -> PermRow]

-----------------------------------------------------------------------------
(* Statements on the remote server.                                        *)

Statement(verb, a, privs) == [verb |-> verb, acct |-> a, privs |-> privs]

\* CREATE USER needs a free name, every other statement an existing account.
Accepts(s) == IF s.verb = "create"
              THEN ~server[s.acct].live /\ server[s.acct].inc < MaxInc
              ELSE server[s.acct].live

\* The row a statement leaves. Disabling is the account lock on MySQL and a
\* one-second password lifetime on Doris; expiry is the account lock on MySQL
\* and a random password on Doris.
Result(row, s) ==
    CASE s.verb = "create"  -> [live |-> TRUE, inc |-> row.inc + 1, mark |-> TRUE,
                                lock |-> "open", cut |-> FALSE, grants |-> {}]
      [] s.verb = "drop"    -> [row EXCEPT !.live = FALSE, !.mark = FALSE, !.lock = "open",
                                           !.cut = FALSE, !.grants = {}]
      [] s.verb = "disable" -> [row EXCEPT !.lock = IF Kind = "mysql" THEN "locked"
                                                                      ELSE "settling"]
      [] s.verb = "expire"  -> IF Kind = "mysql" THEN [row EXCEPT !.lock = "locked"]
                                                 ELSE [row EXCEPT !.cut = TRUE]
      [] s.verb = "grant"   -> [row EXCEPT !.grants = @ \cup s.privs]
      [] s.verb = "revoke"  -> [row EXCEPT !.grants = @ \ s.privs]

Apply(s) == server' = [server EXCEPT ![s.acct] = Result(@, s)]

\* The statement runs and the client sees it succeed.
Executes(s) == Accepts(s) /\ Apply(s) /\ UNCHANGED late

\* The client sees an error: the server refused the statement or never got it,
\* ran it and the answer was lost, or is still running it when the client gives
\* up after its ten-second read timeout.
Fails(s) ==
    \/ UNCHANGED <<server, late>>
    \/ Accepts(s) /\ Apply(s) /\ UNCHANGED late
    \/ /\ Cardinality(late) < MaxLate
       /\ late' = late \cup {s}
       /\ UNCHANGED server

\* Noted for the properties, which speak of a request that nobody disturbed.
Touch(a) == touched' = IF advisory[a] = NoOne THEN touched ELSE touched \cup {a}

\* A handler that takes no lock is outside too for a request that holds it.
Lockless(a) == IF server' = server THEN UNCHANGED touched ELSE Touch(a)

\* A statement its client gave up takes effect after all.
Land(s) ==
    /\ s \in late
    /\ late' = late \ {s}
    /\ IF Accepts(s) THEN Apply(s) ELSE UNCHANGED server
    /\ Touch(s.acct)
    /\ UNCHANGED <<dba, advisory, record, actionOps, permOps>>

\* Doris reports a one-second password lifetime as expired only once it has run
\* out with the margin for its millisecond clock.
Settle(a) ==
    /\ server[a].lock = "settling"
    /\ server' = [server EXCEPT ![a].lock = "locked"]
    /\ UNCHANGED <<late, dba, advisory, touched, record, actionOps, permOps>>

\* A database administrator works on the server directly.
Dba(a) ==
    /\ dba < MaxDba
    /\ dba' = dba + 1
    /\ \/ /\ server[a].live
          /\ server' = [server EXCEPT ![a] = Result(@, Statement("drop", a, {}))]
       \/ /\ ~server[a].live
          /\ server[a].inc < MaxInc
          /\ \E g \in SUBSET Priv :
                server' = [server EXCEPT ![a] = [server[a] EXCEPT
                              !.live = TRUE, !.inc = server[a].inc + 1, !.grants = g]]
       \/ /\ server[a].live
          /\ \E g \in (SUBSET Priv) \ {server[a].grants} :
                server' = [server EXCEPT ![a].grants = g]
       \/ /\ server[a].live
          /\ server[a].lock # "open"
          /\ server' = [server EXCEPT ![a].lock = "open"]
    /\ Touch(a)
    /\ UNCHANGED <<late, advisory, record, actionOps, permOps>>

\* What happens outside the backend.
Outside == \/ \E s \in late : Land(s)
           \/ \E a \in Account : Settle(a) \/ Dba(a)

-----------------------------------------------------------------------------
(* The advisory lock: GET_LOCK with no wait on a connection of its own,    *)
(* released with the connection.                                           *)

TakeLock(p, a) == /\ advisory[a] = NoOne
                  /\ advisory' = [advisory EXCEPT ![a] = p]
                  /\ UNCHANGED touched

DropLocks(p) ==
    /\ advisory' = [a \in Account |-> IF advisory[a] = p THEN NoOne ELSE advisory[a]]
    /\ touched' = {a \in touched : advisory[a] # p}

\* An account before the platform came to the server.
FirstRow(l, g) == [live |-> l, inc |-> IF l THEN 1 ELSE 0, mark |-> FALSE, lock |-> "open",
                   cut |-> FALSE, grants |-> IF l THEN g ELSE {}]

FirstRows == {FirstRow(l, g) : l \in BOOLEAN, g \in SUBSET Priv}

\* The server starts with any accounts that nobody manages yet; no operation ran.
PlatformInit ==
    /\ server \in [Account -> FirstRows]
    /\ late = {}
    /\ dba = 0
    /\ advisory = [a \in Account |-> NoOne]
    /\ touched = {}
    /\ record = [a \in Account |-> NoRecord]
    /\ actionOps = [o \in ActionOp |-> NoAction]
    /\ permOps = [o \in PermOp |-> NoPerm]
=============================================================================
