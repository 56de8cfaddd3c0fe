-------------------------------- MODULE MCLive --------------------------------
(***************************************************************************)
(* What must happen in the end, for TLC: managed accounts and their expiry *)
(* workers, account actions, and the connection pool. Each is checked by   *)
(* itself, under its own fairness: the part that runs is chosen at the     *)
(* start.                                                                  *)
(***************************************************************************)
EXTENDS AccountActions, ManagedAccounts, ConnectionPool

VARIABLES part

actionOwn == <<ask, act, sent>>
managedOwn == <<mgr, wrk, stirred>>
poolOwn == <<lease, handler, breaksLeft>>

LiveInit ==
    /\ part \in {"managed", "actions", "pool"}
    /\ ManagedInit /\ ActionInit /\ PoolInit

LiveNext ==
    \/ part = "managed" /\ ManagedSystemNext /\ UNCHANGED <<part, actionOwn, poolOwn>>
    \/ part = "actions" /\ Next /\ UNCHANGED <<part, managedOwn, poolOwn>>
    \/ part = "pool" /\ PoolNext /\ UNCHANGED <<part, managedVars, actionOwn>>

LiveSpec ==
    /\ LiveInit /\ [][LiveNext]_<<part, managedVars, actionOwn, poolOwn>>
    /\ \/ part = "managed" /\ ExpiryFairness /\ RequestFairness
       \/ part = "actions" /\ ThreadFairness /\ VerifyFairness
       \/ part = "pool" /\ PoolFairness
=============================================================================
