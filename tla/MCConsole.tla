------------------------------ MODULE MCConsole ------------------------------
(***************************************************************************)
(* The parts of the console that share no table and no remote object, for  *)
(* TLC: middleware instances, hosts and clusters, the Redis browser, the   *)
(* connection pool, monitoring platforms, what is read of workloads, and   *)
(* users with their sessions.                                              *)
(* No step of one reads a variable of another, so a behaviour of all is an *)
(* interleaving of behaviours of each, and a run lets one part, chosen at  *)
(* the start, do all its steps.                                            *)
(***************************************************************************)
EXTENDS MiddlewareInstances, HostClusters, RedisData, ConnectionPool, MonitoringPlatforms,
        WorkloadReads, UserSessions, TLC

CONSTANTS e1, e2, u1, u2, k1, k2, ka, kb

VARIABLE part

Parts == {"instances", "hosts", "redis", "pool", "platforms", "workloads", "sessions"}
consoleVars == <<part, instVars, hostVars, redisVars, poolVars, platVars, workloadVars, sessionVars>>

-----------------------------------------------------------------------------
(* The instance.                                                           *)

\* MySQL's 'u'@'%' and 'u'@'host': a login from that host reaches the second.
MCAccountOf == [any |-> "any", host |-> "host"]
MCRowOf == [any |-> "r1", host |-> "r2"]
MCMeets == [any |-> "host", host |-> "host"]
\* A new environment without a credential, TLS changed with and without one, and
\* a new address; a cluster named after host 1 and another one.
MCHostForms ==
  {[env |-> e1, url |-> u1, key |-> "none", skip |-> FALSE], [env |-> e2, url |-> u1, key |-> "none", skip |-> TRUE],
   [env |-> e1, url |-> u1, key |-> k1, skip |-> TRUE], [env |-> e2, url |-> u2, key |-> k2, skip |-> FALSE]}
MCClusterForms ==
  {[env |-> e1, name |-> 1, key |-> k2, skip |-> FALSE], [env |-> e2, name |-> 0, key |-> k2, skip |-> FALSE]}
\* Two files into two keys; a second import uploads them again.
MCUploads == {<<ka, kb>>}

\* Bound: a request begins in a small namespace, and one for a variable (whose pod no
\* property of this run is about) ends in one; while images are listed no pod comes or
\* changes, for the pods of the answer are those of the first list. Behaviours are cut
\* where the answer is complete: what comes next comes also after a failed request.
SmallAtFirst ==
  /\ request.pc \in {"idle", "pods"} \/ request.kind # "none" => uids + changes <= 3
  /\ request.kind = "none" /\ request.pc \notin {"idle", "pods"} => changes = 0 /\ pods = request.pods
  /\ request.pc \notin {"listed", "answered"}

\* Bound: a behaviour ends with the second change of a user, and new users are active.
FewChanges ==
  /\ MapThenSumSet(LAMBDA u : row[u].version, User) < MaxVersion
  /\ \A p \in Thread : job[p].verb = "create" => job[p].active

Symmetry == Permutations(InstThreads) \cup Permutations(Servers)

-----------------------------------------------------------------------------
(* A part that does not run rests in a state without rows and requests.    *)

NoInstances ==
  /\ instRow = [i \in InstIds |-> NoInst]
  /\ managed = [x \in Tables \X InstIds \X Rows |-> NoRec]
  /\ remotePwd = [x \in Servers \X Accounts |-> CHOOSE p \in Secrets : TRUE]
  /\ lateAlter = {} /\ instReq = [t \in InstThreads |-> NoReq]
  /\ instLeft = [requests |-> 0, changes |-> 0] /\ everHeld = InForce(remotePwd)
NoHosts ==
  /\ hosts = [h \in HostIds |-> NoHost] /\ clusters = [c \in ClusterIds |-> NoCluster]
  /\ hostReq = [t \in HostThreads |-> NoHostReq]
  /\ hostLeft = [requests |-> 0, changes |-> 0, host |-> 1, cluster |-> 1]
NoRedis ==
  /\ redis = [k \in RedisKeys |-> "none"] /\ batch = [b \in Batches |-> NoBatch]
  /\ import = [b \in Batches |-> NoImport] /\ writer = [w \in Writers |-> NoWriter] /\ writesLeft = 0
NoPlatforms ==
  /\ platRow = [i \in PlatIds |-> NoPlat] /\ platReq = [t \in PlatThreads |-> NoPlatReq]
  /\ platLeft = [requests |-> 0, id |-> 1]
NoSessions ==
  /\ row = [u \in User |-> [exists |-> u = Admin, version |-> 0, pwd |-> 0, active |-> u = Admin,
                            super |-> u = Admin]]
  /\ lock = [u \in User |-> NoOne] /\ sessions = {} /\ job = [p \in Thread |-> Idle]

ConsoleInit ==
  /\ part \in Parts
  /\ IF part = "instances" THEN InstInit ELSE NoInstances
  /\ IF part = "hosts" THEN HostInit ELSE NoHosts
  /\ IF part = "redis" THEN RedisInit ELSE NoRedis
  /\ IF part = "platforms" THEN PlatInit ELSE NoPlatforms
  /\ IF part = "sessions" THEN Init ELSE NoSessions
  /\ PoolInit /\ WorkloadInit

ConsoleNext ==
  \/ /\ part = "instances" /\ InstNext
     /\ UNCHANGED <<part, hostVars, redisVars, poolVars, platVars, workloadVars, sessionVars>>
  \/ /\ part = "hosts" /\ HostNext
     /\ UNCHANGED <<part, instVars, redisVars, poolVars, platVars, workloadVars, sessionVars>>
  \/ /\ part = "redis" /\ RedisNext
     /\ UNCHANGED <<part, instVars, hostVars, poolVars, platVars, workloadVars, sessionVars>>
  \/ /\ part = "pool" /\ PoolNext
     /\ UNCHANGED <<part, instVars, hostVars, redisVars, platVars, workloadVars, sessionVars>>
  \/ /\ part = "platforms" /\ PlatNext
     /\ UNCHANGED <<part, instVars, hostVars, redisVars, poolVars, workloadVars, sessionVars>>
  \/ /\ part = "workloads" /\ WorkloadNext
     /\ UNCHANGED <<part, instVars, hostVars, redisVars, poolVars, platVars, sessionVars>>
  \/ /\ part = "sessions" /\ Next
     /\ UNCHANGED <<part, instVars, hostVars, redisVars, poolVars, platVars, workloadVars>>

ConsoleSpec == ConsoleInit /\ [][ConsoleNext]_consoleVars

\* The type invariant of the part that runs.
ConsoleTypeOK ==
  CASE part = "instances" -> InstTypeOK
    [] part = "hosts" -> HostTypeOK
    [] part = "redis" -> RedisTypeOK
    [] part = "pool" -> PoolTypeOK
    [] part = "platforms" -> PlatTypeOK
    [] part = "workloads" -> WorkloadTypeOK
    [] part = "sessions" -> SessionTypeOK
=============================================================================
