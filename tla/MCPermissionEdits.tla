---------------------------- MODULE MCPermissionEdits ----------------------------
(* PermissionEdits on one account, for TLC.                                *)
EXTENDS PermissionEdits, TLC

\* Threads, operation ids and privileges are interchangeable.
Symmetry == Permutations(PermReq) \cup Permutations(PermOp) \cup Permutations(Priv)

\* No update runs for five minutes; rows in doubt come from reported errors only.
YoungRows == \A o \in PermOp : ~permOps[o].aged
=============================================================================
