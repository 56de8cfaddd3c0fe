------------------------------ MODULE MCAccounts ------------------------------
(***************************************************************************)
(* Account actions and managed accounts on one account, for TLC, each by   *)
(* itself (AccountLifecycle has them together): the part that runs is      *)
(* chosen at the start.                                                    *)
(***************************************************************************)
EXTENDS AccountActions, ManagedAccounts, TLC

VARIABLES part

actionOwn == <<ask, act, sent>>
managedOwn == <<mgr, wrk, stirred>>

AccountsInit == part \in {"actions", "managed"} /\ ActionInit /\ ManagedInit

AccountsNext ==
    \/ part = "actions" /\ Next /\ UNCHANGED <<part, managedOwn>>
    \/ part = "managed" /\ ManagedSystemNext /\ UNCHANGED <<part, actionOwn>>

AccountsSpec == AccountsInit /\ [][AccountsNext]_<<part, platformVars, actionOwn, managedOwn>>

\* Threads are interchangeable, and so are operation ids.
Symmetry == Permutations(ActionReq) \cup Permutations(ActionOp)

\* Bound: managed accounts meet one outside change and no late statement.
Calm == part = "managed" => dba <= 1 /\ late = {}

\* Rows, handlers and workers keep their types (AccountActions, ManagedAccounts).
AccountsTypeOK == IF part = "actions" THEN ActionTypeOK ELSE ManagedTypeOK
=============================================================================
