---------------------------- MODULE MCManagedAccounts ----------------------------
(* ManagedAccounts on one account, for TLC.                                *)
EXTENDS ManagedAccounts, TLC

\* Threads and workers are interchangeable.
Symmetry == Permutations(AcctReq) \cup Permutations(Worker)
=============================================================================
