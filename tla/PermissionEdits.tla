---------------------------- MODULE PermissionEdits ----------------------------
(***************************************************************************)
(* Editing the grants of an account (database_permission_routes.py): an    *)
(* update is planned from a snapshot, recorded with the grants before and  *)
(* after it, executed statement by statement under the account's advisory  *)
(* lock, and either read back as applied or undone.  An operation whose    *)
(* result stayed open is verified or restored by later requests.           *)
(***************************************************************************)
EXTENDS AccountPlatform

CONSTANTS PermReq,      \* the threads that serve permission requests
          Spellings     \* whether a request may send user@host unquoted

ASSUME PermAssumption == PermReq \subseteq Thread /\ Spellings \subseteq BOOLEAN

VARIABLES
    edit,   \* the request a permission operation id stands for
    perm    \* the threads

permVars == <<server, late, dba, advisory, touched, record, actionOps, permOps, edit, perm>>

\* The revision covers the marker and the grants; plain says that the identity
\* was sent as user@host, not in the quoted form the tables hold.
EditRow == [acct: Account, mark: BOOLEAN, grants: SUBSET Priv, want: SUBSET Priv,
            plain: BOOLEAN, made: BOOLEAN]

Mode == {"update", "verify", "restore"}

LockedLabel == {"pending", "snapshot", "insert", "fresh", "conflict", "exec", "final",
                "apply", "undone", "failed", "rexec", "rverify", "rdone", "unsure",
                "judge", "release"}
PermLabel == {"idle", "lock"} \cup LockedLabel

PermThread == [pc: PermLabel, op: PermOp \cup {NoOne}, mode: Mode,
               revoke: SUBSET Priv, grant: SUBSET Priv]

Idle == [pc |-> "idle", op |-> NoOne, mode |-> "update", revoke |-> {}, grant |-> {}]

Begin(p, o, m) == /\ perm[p].pc = "idle"
                  /\ perm' = [perm EXCEPT ![p] = [Idle EXCEPT !.pc = "lock", !.op = o, !.mode = m]]

Goto(p, l) == perm' = [perm EXCEPT ![p].pc = l]

End(p) == perm' = [perm EXCEPT ![p] = Idle]

Acct(o) == edit[o].acct

Row(p) == permOps[perm[p].op]

Remote(p) == server[Acct(perm[p].op)]

-----------------------------------------------------------------------------
(* Helpers of the handlers.                                                *)

\* delta(): what leads from the grants held to the target, revocations first.
GotoDelta(p, l, held, target) ==
    perm' = [perm EXCEPT ![p].pc = l, ![p].revoke = held \ target, ![p].grant = target \ held]

\* One statement of the delta; a failed one leads to the label given.
DeltaStep(p, onFail) ==
    LET a == Acct(perm[p].op)
        todo == IF perm[p].revoke # {} THEN "revoke" ELSE "grant" IN
    \E g \in IF todo = "revoke" THEN perm[p].revoke ELSE perm[p].grant :
        \/ /\ Executes(Statement(todo, a, {g}))
           /\ perm' = [perm EXCEPT ![p].revoke = @ \ {g},
                                   ![p].grant = IF todo = "revoke" THEN @ ELSE @ \ {g}]
        \/ Fails(Statement(todo, a, {g})) /\ Goto(p, onFail)

Emptied(p) == perm[p].revoke = {} /\ perm[p].grant = {}

\* check_incarnation() on a fresh snapshot, which needs the account to exist.
SameAccount(p) == Remote(p).live /\ Remote(p).mark = Row(p).mark

\* Mutant: lock_key stays.
CloseKeeps(p, status) ==
    permOps' = [permOps EXCEPT ![perm[p].op] = [@ EXCEPT !.status = status, !.aged = FALSE]]

\* finish(): the final status, and the account is free again.
Close(p, status) ==
    permOps' = [permOps EXCEPT ![perm[p].op] =
                    [@ EXCEPT !.status = status, !.key = FALSE, !.aged = FALSE]]

\* Mutant: changed is not set, so every error counts as "nothing was issued".
OnErrorUndone(p) == "undone"

\* Where an error leads: the update undoes what it did if it issued a statement;
\* restore() inside the update leaves the row uncertain; a reconcile only ends.
OnError(p) == IF Row(p).before = Row(p).after THEN "undone" ELSE "failed"

OnRestoreError(p) == IF perm[p].mode = "update" THEN "unsure" ELSE "release"

-----------------------------------------------------------------------------
(* Requests and the lock.                                                  *)

\* The administrator reads the permissions and saves an edit of them.
Submit(o, a, want, plain) ==
    /\ ~edit[o].made
    /\ server[a].live
    /\ edit' = [edit EXCEPT ![o] = [acct |-> a, mark |-> server[a].mark,
                                    grants |-> server[a].grants, want |-> want,
                                    plain |-> plain, made |-> TRUE]]
    /\ UNCHANGED <<platformVars, perm>>

\* The update or a retry of it; a recorded operation is only reported.
Update(p, o) ==
    /\ edit[o].made
    /\ permOps[o].status = "absent"
    /\ Begin(p, o, "update")
    /\ UNCHANGED <<platformVars, edit>>

\* reconcile(): the row is loaded and judged before the lock is taken.
Reconcile(p, o, m) ==
    /\ permOps[o].status \in {"applying", "uncertain"}
    /\ permOps[o].status = "applying" => permOps[o].aged
    /\ Begin(p, o, m)
    /\ UNCHANGED <<platformVars, edit>>

Lock(p) ==
    /\ perm[p].pc = "lock"
    /\ TakeLock(p, Acct(perm[p].op))
    /\ Goto(p, IF perm[p].mode = "update" THEN "pending" ELSE "judge")
    /\ UNCHANGED <<server, late, dba, record, actionOps, permOps, edit>>

LockBusy(p) ==
    /\ perm[p].pc = "lock"
    /\ advisory[Acct(perm[p].op)] # NoOne
    /\ End(p)
    /\ UNCHANGED <<platformVars, edit>>

Release(p) ==
    /\ perm[p].pc = "release"
    /\ DropLocks(p)
    /\ End(p)
    /\ UNCHANGED <<server, late, dba, record, actionOps, permOps, edit>>

\* The process or its platform connection dies, and the lock with it.
Die(p) ==
    /\ perm[p].pc # "idle"
    /\ DropLocks(p)
    /\ End(p)
    /\ UNCHANGED <<server, late, dba, record, actionOps, permOps, edit>>

-----------------------------------------------------------------------------
(* update_permissions                                                      *)

\* An open disable or delete blocks the edit.  The table is searched for the
\* identity as the request spells it.
Pending(p) ==
    LET e == edit[perm[p].op] IN
    /\ perm[p].pc = "pending"
    /\ Goto(p, IF ~e.plain /\ PendingActions(e.acct) # {} THEN "release" ELSE "snapshot")
    /\ UNCHANGED <<platformVars, edit>>

Snapshot(p) ==
    LET e == edit[perm[p].op] IN
    /\ perm[p].pc = "snapshot"
    /\ IF Remote(p).live /\ Remote(p).mark = e.mark /\ Remote(p).grants = e.grants
       THEN GotoDelta(p, "insert", e.grants, e.want)
       ELSE Goto(p, "release")
    /\ UNCHANGED <<platformVars, edit>>

Insert(p) ==
    LET o == perm[p].op IN
    /\ perm[p].pc = "insert"
    /\ IF Row(p).status # "absent" \/ PendingPerms(Acct(o)) # {}
       THEN Goto(p, "release") /\ UNCHANGED permOps
       ELSE /\ permOps' = [permOps EXCEPT ![o] =
                   [status |-> "applying", acct |-> Acct(o), key |-> TRUE,
                    before |-> edit[o].grants, after |-> edit[o].want,
                    mark |-> edit[o].mark, aged |-> FALSE]]
            /\ Goto(p, "fresh")
    /\ UNCHANGED <<server, late, dba, advisory, touched, record, actionOps, edit>>

\* The state is read again: a change since the first snapshot is a conflict, an
\* error ends in the except branch with no statement issued.
Fresh(p) ==
    /\ perm[p].pc = "fresh"
    /\ \/ /\ Remote(p).live
          /\ Goto(p, IF SameAccount(p) /\ Remote(p).grants = Row(p).before
                     THEN "exec" ELSE "conflict")
       \/ Goto(p, "undone")
    /\ UNCHANGED <<platformVars, edit>>

Conflict(p) ==
    /\ perm[p].pc = "conflict"
    /\ \/ Close(p, "conflict") /\ Goto(p, "release")
       \/ Goto(p, "undone") /\ UNCHANGED permOps
    /\ UNCHANGED <<server, late, dba, advisory, touched, record, actionOps, edit>>

Exec(p) ==
    /\ perm[p].pc = "exec"
    /\ IF Emptied(p) THEN Goto(p, "final") /\ UNCHANGED <<server, late>>
                     ELSE DeltaStep(p, "failed")
    /\ UNCHANGED <<dba, advisory, touched, record, actionOps, permOps, edit>>

\* The final snapshot, the incarnation and verify_grants().
Final(p) ==
    /\ perm[p].pc = "final"
    /\ \/ SameAccount(p) /\ Remote(p).grants = Row(p).after /\ Goto(p, "apply")
       \/ Goto(p, OnError(p))
    /\ UNCHANGED <<platformVars, edit>>

Applied(p) ==
    /\ perm[p].pc = "apply"
    /\ \/ Close(p, "applied") /\ Goto(p, "release")
       \/ /\ perm[p].mode = "update"
          /\ Goto(p, OnError(p))
          /\ UNCHANGED permOps
    /\ UNCHANGED <<server, late, dba, advisory, touched, record, actionOps, edit>>

\* Nothing was issued, or the grants were read back: the row says restored.
Restored(p) ==
    /\ perm[p].pc \in {"undone", "rdone"}
    /\ \/ Close(p, "restored") /\ Goto(p, "release")
       \/ perm[p].mode = "update" /\ Goto(p, "unsure") /\ UNCHANGED permOps
    /\ UNCHANGED <<server, late, dba, advisory, touched, record, actionOps, edit>>

\* The result could not be established: the row keeps its account.
Unsure(p) ==
    /\ perm[p].pc = "unsure"
    /\ permOps' = [permOps EXCEPT ![perm[p].op] = [@ EXCEPT !.status = "uncertain", !.aged = FALSE]]
    /\ Goto(p, "release")
    /\ UNCHANGED <<server, late, dba, advisory, touched, record, actionOps, edit>>

-----------------------------------------------------------------------------
(* restore and reconcile                                                   *)

\* Mutant: grants of neither plan do not stop the restoration.
FailedBlind(p) ==
    /\ perm[p].pc = "failed"
    /\ \/ SameAccount(p) /\ GotoDelta(p, "rexec", Remote(p).grants, Row(p).before)
       \/ Goto(p, OnRestoreError(p))
    /\ UNCHANGED <<platformVars, edit>>

\* restore() stops when the account holds a grant of neither plan.
Failed(p) ==
    /\ perm[p].pc = "failed"
    /\ \/ /\ SameAccount(p)
          /\ Remote(p).grants \subseteq Row(p).before \cup Row(p).after
          /\ GotoDelta(p, "rexec", Remote(p).grants, Row(p).before)
       \/ Goto(p, OnRestoreError(p))
    /\ UNCHANGED <<platformVars, edit>>

RestoreExec(p) ==
    /\ perm[p].pc = "rexec"
    /\ IF Emptied(p) THEN Goto(p, "rverify") /\ UNCHANGED <<server, late>>
                     ELSE DeltaStep(p, OnRestoreError(p))
    /\ UNCHANGED <<dba, advisory, touched, record, actionOps, permOps, edit>>

RestoreVerify(p) ==
    /\ perm[p].pc = "rverify"
    /\ \/ SameAccount(p) /\ Remote(p).grants = Row(p).before /\ Goto(p, "rdone")
       \/ Goto(p, OnRestoreError(p))
    /\ UNCHANGED <<platformVars, edit>>

\* Mutant: a verification that finds the account takes the edit for applied.
JudgeTrusting(p) ==
    /\ perm[p].pc = "judge"
    /\ Goto(p, IF ~SameAccount(p) THEN "release"
               ELSE IF perm[p].mode = "verify" THEN "apply"
               ELSE IF Remote(p).grants = Row(p).before THEN "rdone" ELSE "failed")
    /\ UNCHANGED <<platformVars, edit>>

\* What reconcile() makes of the grants it finds under the lock.
Judge(p) ==
    /\ perm[p].pc = "judge"
    /\ Goto(p, IF ~SameAccount(p) THEN "release"
               ELSE IF Remote(p).grants = Row(p).after /\ perm[p].mode = "verify" THEN "apply"
               ELSE IF Remote(p).grants = Row(p).before THEN "rdone"
               ELSE IF perm[p].mode = "restore" THEN "failed" ELSE "unsure")
    /\ UNCHANGED <<platformVars, edit>>

\* Five minutes pass without a change of the row.
Age(o) ==
    /\ permOps[o].status = "applying"
    /\ ~permOps[o].aged
    /\ permOps' = [permOps EXCEPT ![o].aged = TRUE]
    /\ UNCHANGED <<server, late, dba, advisory, touched, record, actionOps, edit, perm>>

-----------------------------------------------------------------------------
(* The system.                                                             *)

PermInit ==
    /\ PlatformInit
    /\ edit = [o \in PermOp |-> [acct |-> AnyAccount, mark |-> FALSE, grants |-> {},
                                 want |-> {}, plain |-> FALSE, made |-> FALSE]]
    /\ perm = [p \in PermReq |-> Idle]

PermStep(p) ==
    \/ Lock(p) \/ LockBusy(p) \/ Pending(p) \/ Snapshot(p) \/ Insert(p) \/ Fresh(p)
    \/ Conflict(p) \/ Exec(p) \/ Final(p) \/ Applied(p) \/ Restored(p) \/ Unsure(p)
    \/ Failed(p) \/ RestoreExec(p) \/ RestoreVerify(p) \/ Judge(p) \/ Release(p)

PermNext ==
    \/ \E o \in PermOp :
          \/ \E a \in Account, w \in SUBSET Priv, s \in Spellings : Submit(o, a, w, s)
          \/ \E p \in PermReq : Update(p, o) \/ \E m \in {"verify", "restore"} : Reconcile(p, o, m)
          \/ Age(o)
    \/ \E p \in PermReq : PermStep(p) \/ Die(p)

Next == PermNext \/ (Outside /\ UNCHANGED <<edit, perm>>)

Spec == PermInit /\ [][Next]_permVars

-----------------------------------------------------------------------------
(* Properties.                                                             *)

\* A settled edit never keeps its account occupied, and one that is being applied
\* always does.
SettledFrees == \A o \in PermOp :
    /\ permOps[o].key => permOps[o].status \in {"applying", "uncertain"}
    /\ permOps[o].status = "applying" => permOps[o].key

\* Every variable keeps its type, and the status and the key of a row agree.
PermTypeOK ==
    /\ PlatformTypeOK
    /\ SettledFrees
    /\ edit \in [PermOp -> EditRow]
    /\ perm \in [PermReq -> PermThread]
    /\ \A p \in PermReq : perm[p].pc # "idle" => perm[p].op \in PermOp

\* "Stop when other permission changes are found": a statement issued for an
\* operation only ever touches privileges in which its two plans differ or that
\* one of them contains, whatever is granted on the account by others meanwhile.
PlanConfined == [][\A p \in PermReq, g \in Priv :
    /\ perm[p].pc \in {"exec", "rexec"}
    /\ perm'[p] # perm[p]
    /\ g \notin Row(p).before \cup Row(p).after
    => LET a == Acct(perm[p].op) IN
       g \in server[a].grants <=> g \in server'[a].grants]_permVars

\* An operation that starts to say applied is applied: the account of the request
\* holds exactly the planned grants, unless somebody outside changed it within
\* the locked section.
AppliedIsTrue == [][\A o \in PermOp :
    permOps[o].status # "applied" /\ permOps'[o].status = "applied" =>
        LET row == server[permOps[o].acct] IN
        \/ permOps[o].acct \in touched
        \/ row.live /\ row.mark = permOps[o].mark /\ row.grants = permOps[o].after]_permVars

\* An operation that starts to say restored left the grants as it found them,
\* unless somebody outside changed the account within the locked section.
RestoredIsTrue == [][\A o \in PermOp :
    permOps[o].status # "restored" /\ permOps'[o].status = "restored" =>
        LET row == server[permOps[o].acct] IN
        \/ permOps[o].acct \in touched
        \/ row.live /\ row.mark = permOps[o].mark /\ row.grants = permOps[o].before]_permVars

\* A restoration works for the operation that occupies the account: it never
\* undoes an operation that was settled in the meantime, nor a later one.
RestoresOpenOnly == [][\A p \in PermReq :
    perm[p].pc = "rexec" /\ server' # server /\ perm'[p] # perm[p] => Row(p).key]_permVars
=============================================================================
