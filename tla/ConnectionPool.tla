---------------------------- MODULE ConnectionPool ----------------------------
(***************************************************************************)
(* The pool of connections to the platform's database (db.py) and the      *)
(* advisory lock of account_change_lock, which belongs to one of them.     *)
(*                                                                         *)
(* A handler that changes an account takes a connection, locks the account *)
(* on it, and keeps it idle while it takes, uses and returns others: it    *)
(* holds one and waits for a second. A handler that waits longer than the  *)
(* pool allows is answered DatabaseBusy. The server may close a connection *)
(* at any time; its locks go with it and its holder learns it at the next  *)
(* statement. A connection that is returned is rolled back and used again  *)
(* by whoever comes next: RELEASE_LOCK is the only thing that takes a lock *)
(* off it.                                                                 *)
(***************************************************************************)
EXTENDS Integers, FiniteSetsExt

CONSTANTS PoolHandlers,   \* requests at work
          Leases,         \* pool_size + max_overflow connections
          PoolAccounts,   \* accounts that can be locked
          Breaks          \* bound: connections closed by the server

\* "none" stands for no connection and for no account.
ASSUME PoolAssumption ==
  /\ "none" \notin Leases /\ "none" \notin PoolAccounts
  /\ Breaks \in Nat

VARIABLES lease,     \* each connection: where it is and what it has locked
          handler,   \* the request of each handler
          breaksLeft

poolVars == <<lease, handler, breaksLeft>>

Unlocked == [at |-> "pool", lock |-> "none"]
NoHandler == [pc |-> "idle", account |-> "none", first |-> "none", second |-> "none"]

LeaseRow == [at : {"pool", "out", "broken"}, lock : {"none"} \cup PoolAccounts]
HandlerRow == [pc : {"idle", "wait", "lock", "holds", "wait2", "uses2", "release", "uses"},
               account : {"none"} \cup PoolAccounts,
               first : {"none"} \cup Leases, second : {"none"} \cup Leases]

\* The type invariant; no connection is held twice.
PoolTypeOK ==
  /\ lease \in [Leases -> LeaseRow]
  /\ handler \in [PoolHandlers -> HandlerRow]
  /\ \A g, h \in PoolHandlers : g /= h =>
       {handler[g].first, handler[g].second} \cap {handler[h].first, handler[h].second} \subseteq {"none"}

PoolInit ==
  /\ lease = [l \in Leases |-> Unlocked]
  /\ handler = [h \in PoolHandlers |-> NoHandler]
  /\ breaksLeft = Breaks

-----------------------------------------------------------------------------
(* The pool.                                                               *)

Free == {l \in Leases : lease[l].at = "pool"}

\* A connection leaves the pool; pre_ping has replaced it if it was dead.
Checkout(h, field, pc) ==
  \E l \in Free :
    /\ lease' = [lease EXCEPT ![l].at = "out"]
    /\ handler' = [handler EXCEPT ![h].pc = pc, ![h][field] = l]

\* close: rolled back and put back, or dropped if it was found broken.
Returned(leases, l) ==
  [leases EXCEPT ![l] = IF leases[l].at = "broken" THEN Unlocked ELSE [leases[l] EXCEPT !.at = "pool"]]

PoolAt(h, pc) == handler[h].pc = pc
PoolGoto(h, pc) == handler' = [handler EXCEPT ![h].pc = pc]

-----------------------------------------------------------------------------
(* A handler: one query, or a change of an account under its lock.         *)

Arrive(h, a) ==
  /\ PoolAt(h, "idle")
  /\ handler' = [handler EXCEPT ![h].pc = "wait", ![h].account = a]
  /\ UNCHANGED <<lease, breaksLeft>>

GetConnection(h) ==
  /\ PoolAt(h, "wait")
  /\ Checkout(h, "first", IF handler[h].account = "none" THEN "uses" ELSE "lock")
  /\ UNCHANGED breaksLeft

\* Mutant: the pool waits without a limit.
PoolWaits(h) == FALSE

\* QueuePool gives up after mysql_pool_timeout_seconds: DatabaseBusy.
PoolTimesOut(h) ==
  /\ Free = {}
  /\ \/ PoolAt(h, "wait") /\ handler' = [handler EXCEPT ![h] = NoHandler]
     \/ PoolAt(h, "wait2") /\ PoolGoto(h, "release")
  /\ UNCHANGED <<lease, breaksLeft>>

\* execute_query and the transactions of requests without a lock.
RunQuery(h) ==
  /\ PoolAt(h, "uses")
  /\ lease' = Returned(lease, handler[h].first)
  /\ handler' = [handler EXCEPT ![h] = NoHandler]
  /\ UNCHANGED breaksLeft

\* GET_LOCK(key, 0): another connection has the lock, or this one gets it.
LockedBy(a, l) == lease[l].lock = a
GetLock(h) ==
  LET l == handler[h].first
      a == handler[h].account IN
  /\ PoolAt(h, "lock")
  /\ IF lease[l].at = "out" /\ \A m \in Leases \ {l} : ~LockedBy(a, m)
     THEN lease' = [lease EXCEPT ![l].lock = a] /\ PoolGoto(h, "holds")
     ELSE lease' = Returned(lease, l) /\ handler' = [handler EXCEPT ![h] = NoHandler]
  /\ UNCHANGED breaksLeft

\* The body takes and returns connections of its own, and ends or raises.
NextQuery(h) == PoolAt(h, "holds") /\ PoolGoto(h, "wait2") /\ UNCHANGED <<lease, breaksLeft>>
SecondConnection(h) == PoolAt(h, "wait2") /\ Checkout(h, "second", "uses2") /\ UNCHANGED breaksLeft
SecondReturned(h) ==
  /\ PoolAt(h, "uses2")
  /\ lease' = Returned(lease, handler[h].second)
  /\ \E pc \in {"holds", "release"} : handler' = [handler EXCEPT ![h].pc = pc, ![h].second = "none"]
  /\ UNCHANGED breaksLeft
BodyEnds(h) == PoolAt(h, "holds") /\ PoolGoto(h, "release") /\ UNCHANGED <<lease, breaksLeft>>

\* Mutant: the connection is closed without RELEASE_LOCK.
ReleaseByClose(h) ==
  /\ PoolAt(h, "release")
  /\ lease' = Returned(lease, handler[h].first)
  /\ handler' = [handler EXCEPT ![h] = NoHandler]
  /\ UNCHANGED breaksLeft

\* The finally clause: RELEASE_LOCK, which raises on a broken connection, and
\* close in a finally clause of its own.
ReleaseLock(h) ==
  LET l == handler[h].first IN
  /\ PoolAt(h, "release")
  /\ lease' = Returned([lease EXCEPT ![l].lock = "none"], l)
  /\ handler' = [handler EXCEPT ![h] = NoHandler]
  /\ UNCHANGED breaksLeft

\* The server ends a session: its lock is free from then on.
Break(l) ==
  /\ breaksLeft > 0 /\ breaksLeft' = breaksLeft - 1
  /\ lease[l].at = "out"
  /\ lease' = [lease EXCEPT ![l] = [at |-> "broken", lock |-> "none"]]
  /\ UNCHANGED handler

PoolStep(h) ==
  \/ GetConnection(h) \/ PoolTimesOut(h) \/ RunQuery(h) \/ GetLock(h)
  \/ NextQuery(h) \/ SecondConnection(h) \/ SecondReturned(h) \/ BodyEnds(h) \/ ReleaseLock(h)

PoolNext ==
  \/ \E h \in PoolHandlers, a \in {"none"} \cup PoolAccounts : Arrive(h, a)
  \/ \E h \in PoolHandlers : PoolStep(h)
  \/ \E l \in Leases : Break(l)

\* A handler that can go on does, and its body ends: it makes a bounded number
\* of queries.
PoolFairness == \A h \in PoolHandlers : WF_poolVars(PoolStep(h)) /\ SF_poolVars(BodyEnds(h))
PoolSpec == PoolInit /\ [][PoolNext]_poolVars

-----------------------------------------------------------------------------
(* Properties.                                                             *)

InSection(h) == handler[h].pc \in {"holds", "wait2", "uses2", "release"}

\* No connection in the pool still holds a lock: the account would be refused
\* to everybody else until that connection is recycled. And two handlers are
\* at work on one account only if one of them lost the connection of its lock.
PoolLocks ==
  /\ \A l \in Leases : lease[l].at = "pool" => lease[l].lock = "none"
  /\ \A g, h \in PoolHandlers :
       (g /= h /\ InSection(g) /\ InSection(h) /\ handler[g].account = handler[h].account) =>
         "broken" \in {lease[handler[g].first].at, lease[handler[h].first].at}

\* Every request ends, also when all connections are held by handlers that
\* wait for a second one.
RequestEnds == \A h \in PoolHandlers : handler[h].pc /= "idle" ~> handler[h].pc = "idle"
=============================================================================
