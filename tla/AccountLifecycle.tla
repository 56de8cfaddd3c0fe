---------------------------- MODULE AccountLifecycle ----------------------------
(***************************************************************************)
(* The whole of database-account management: creations, undo requests and  *)
(* expiry (ManagedAccounts), disabling and deleting (AccountActions) and   *)
(* permission edits (PermissionEdits) at work on the same accounts.  They  *)
(* meet in the server, in the three tables and in the advisory lock, which *)
(* only the last two of them take.                                         *)
(***************************************************************************)
EXTENDS AccountPlatform

CONSTANTS ActionReq, PermReq, AcctReq, Worker, Spellings, Batch

ASSUME LifecycleAssumption ==
    /\ ActionReq \cap PermReq = {}
    /\ ActionReq \subseteq Thread /\ PermReq \subseteq Thread
    /\ AcctReq \cap Worker = {} /\ Batch \in Nat \ {0}
    /\ Spellings \subseteq BOOLEAN

VARIABLES ask, act, sent, edit, perm, mgr, wrk, stirred

actionState == <<ask, act, sent>>
permState == <<edit, perm>>
managedState == <<mgr, wrk>>

vars == <<server, late, dba, advisory, touched, record, actionOps, permOps,
          ask, act, sent, edit, perm, mgr, wrk, stirred>>

AA == INSTANCE AccountActions
PP == INSTANCE PermissionEdits
MM == INSTANCE ManagedAccounts

Init == AA!ActionInit /\ PP!PermInit /\ MM!ManagedInit

ActionsMove == AA!ActionNext /\ UNCHANGED <<permState, managedState, stirred>>

PermissionsMove == PP!PermNext /\ UNCHANGED <<actionState, managedState, stirred>>

ManagedMove == MM!ManagedNext /\ UNCHANGED <<actionState, permState>>

OutsideMove == MM!ManagedEnv /\ UNCHANGED <<actionState, permState>>

Next == ActionsMove \/ PermissionsMove \/ ManagedMove \/ OutsideMove

Spec == Init /\ [][Next]_vars

-----------------------------------------------------------------------------
(* Properties of the composition.                                          *)

\* "An open permission operation blocks a deletion", and an open disabling or
\* deletion blocks an edit: no account has both in doubt.  Each side looks at the
\* other's table and writes its own in two transactions.
NoOpenPair == \A a \in Account : PendingActions(a) = {} \/ PendingPerms(a) = {}

\* "Edits and disabling or deleting are serialised by the advisory lock": while a
\* disabling or DROP is between its check and its result, no edit or restoration
\* of the same account is between its own.
Serialised == \A p \in ActionReq, q \in PermReq :
    /\ act[p].pc \in {"exec", "poll", "finish"}
    /\ perm[q].pc \in {"exec", "final", "rexec", "rverify"}
    => ask[act[p].op].acct # edit[perm[q].op].acct

\* Disabling and deleting keep their word beside edits, which take the same lock,
\* and beside creations, undo requests and the workers, which take none: the
\* statement meets the account of the preview, and an operation that says succeeded
\* had its effect, unless one of those without the lock changed the account meanwhile.
ActionsTrue == AA!ConfirmedAccount /\ AA!SucceededIsTrue

\* So do the edits: an operation that says applied or restored left the grants it says.
EditsTrue == PP!AppliedIsTrue /\ PP!RestoredIsTrue

\* "The password, status and plan of the old account are not applied to a new
\* account of its name": verifying the creation of an account deleted since leaves
\* its record deleted, which is what keeps the list from showing the old password.
VerifyKeepsDeleted == [][\A p \in AcctReq :
    mgr[p].pc \in {"vactive", "vcleanup"} /\ mgr'[p] # mgr[p] /\ record' # record =>
        record[mgr[p].acct].status # "deleted"]_vars
=============================================================================
