---------------------------- MODULE HostClusters ----------------------------
(***************************************************************************)
(* Hosts and the Kubernetes clusters whose credentials belong to them      *)
(* (main.py). Saving a host is three steps without a common transaction:   *)
(* node-exporter is scraped, the host row is written, and the cluster row  *)
(* of the host is read, rebuilt and written. A query reads the host or the *)
(* cluster, works on the network, and then writes a status by id.          *)
(*                                                                         *)
(* A credential is a kubeconfig: who issued it, and the TLS setting that   *)
(* normalize_kubeconfig_tls writes into it. The column verify_ssl repeats  *)
(* that setting.                                                           *)
(***************************************************************************)
EXTENDS Integers, FiniteSetsExt

CONSTANTS HostThreads,     \* handlers at work
          HostIds,         \* ids of machine_hosts, 1..n
          ClusterIds,      \* ids of k8s_clusters, 1..n
          Environments,
          ExporterUrls,    \* node-exporter addresses
          Kubeconfigs,     \* issued credentials
          HostForms,       \* what saves ask for: [env, url, key, skip]
          ClusterForms,    \* what the API of clusters is asked for: [env, name, key, skip]
          HostRequests,    \* bound: requests that begin
          HostChanges      \* bound: deletions and clusters without a host

\* A key "none" is a form without a new credential.
ASSUME HostAssumption ==
  /\ HostIds \subseteq Nat \ {0} /\ ClusterIds \subseteq Nat \ {0}
  /\ 1 \in HostIds /\ 1 \in ClusterIds
  /\ "none" \notin Kubeconfigs
  /\ HostForms \subseteq [env : Environments, url : ExporterUrls, key : {"none"} \cup Kubeconfigs, skip : BOOLEAN]
  /\ ClusterForms \subseteq [env : Environments, name : {0} \cup HostIds, key : Kubeconfigs, skip : BOOLEAN]

VARIABLES hosts,       \* machine_hosts
          clusters,    \* k8s_clusters
          hostReq,     \* the request each thread serves
          hostLeft     \* what is left of the two bounds; the next ids

hostVars == <<hosts, clusters, hostReq, hostLeft>>

NoHost == [env |-> "none", url |-> "none", status |-> "none"]
NoCluster == [host |-> 0, env |-> "none", name |-> 0, key |-> "none", skip |-> FALSE,
              verify |-> FALSE, status |-> "none"]
NoHostReq == [pc |-> "idle", op |-> "none", host |-> 0, id |-> 0, env |-> "none", url |-> "none",
              key |-> "none", skip |-> FALSE, result |-> "none", raced |-> FALSE]

Statuses == {"configured", "active", "unreachable"}
\* Names of clusters: n is "host-n", 0 is any other name.
ClusterRows == {NoCluster} \cup
  [host : {0} \cup HostIds, env : Environments, name : {0} \cup HostIds,
   key : {"none"} \cup Kubeconfigs, skip : BOOLEAN, verify : BOOLEAN, status : Statuses]

\* The type invariant, with the unique keys and the foreign key of the schema.
HostTypeOK ==
  /\ hosts \in [HostIds -> {NoHost} \cup
                  [env : Environments, url : ExporterUrls, status : {"active", "unreachable"}]]
  /\ clusters \in [ClusterIds -> ClusterRows]
  /\ \A t \in HostThreads : hostReq[t] = NoHostReq \/
       (hostReq[t].pc /= "idle" /\ hostReq[t].host \in {0} \cup HostIds /\ hostReq[t].id \in {0} \cup ClusterIds)
  /\ \A c \in ClusterIds : clusters[c].host /= 0 => hosts[clusters[c].host] /= NoHost
  /\ \A c, d \in ClusterIds : clusters[c].host = clusters[d].host /\ clusters[c].host /= 0 => c = d

\* One host, with a credential or, from before credentials were stored in the
\* table, with a row that has none.
HostInit ==
  /\ \E f \in HostForms :
       /\ hosts = [h \in HostIds |-> IF h = 1 THEN [env |-> f.env, url |-> f.url, status |-> "active"] ELSE NoHost]
       /\ clusters = [c \in ClusterIds |-> IF c = 1
            THEN [host |-> 1, env |-> f.env, name |-> 1, key |-> f.key, skip |-> f.skip, verify |-> ~f.skip,
                  status |-> "configured"]
            ELSE NoCluster]
  /\ hostReq = [t \in HostThreads |-> NoHostReq]
  /\ hostLeft = [requests |-> HostRequests, changes |-> HostChanges, host |-> 2, cluster |-> 2]

-----------------------------------------------------------------------------
(* Tables.                                                                 *)

ClusterOf(h) == {c \in ClusterIds : clusters[c] /= NoCluster /\ clusters[c].host = h}
Named(env, name) == {c \in ClusterIds : clusters[c] /= NoCluster /\ clusters[c].env = env /\ clusters[c].name = name}

HostAt(t, pc) == hostReq[t].pc = pc
HostGoto(t, pc) == [hostReq EXCEPT ![t].pc = pc]
HostEnd(t) == hostReq' = [hostReq EXCEPT ![t] = NoHostReq]
HostQuiet == UNCHANGED <<hosts, clusters, hostLeft>>

\* Another request, or an administrator, changed the rows of host h.
Overtaken(reqs, h, by) ==
  [t \in HostThreads |-> IF t \notin by /\ reqs[t].host = h /\ reqs[t].pc /= "idle"
                         THEN [reqs[t] EXCEPT !.raced = TRUE] ELSE reqs[t]]

HostChange == hostLeft.changes > 0 /\ hostLeft' = [hostLeft EXCEPT !.changes = @ - 1]
Begun(t, q) ==
  /\ hostReq[t] = NoHostReq /\ hostLeft.requests > 0
  /\ hostLeft' = [hostLeft EXCEPT !.requests = @ - 1]
  /\ hostReq' = [hostReq EXCEPT ![t] = q]
  /\ UNCHANGED <<hosts, clusters>>

-----------------------------------------------------------------------------
(* Saving a host.                                                          *)

\* The payload is validated and the exporter scraped before any row is read;
\* what the scrape found is drawn where it is written.
Save(t, h, f) ==
  Begun(t, [pc |-> "host", op |-> "save", host |-> h, id |-> 0, env |-> f.env, url |-> f.url,
            key |-> f.key, skip |-> f.skip, result |-> "none", raced |-> FALSE])

CreateHost(t, f) == Save(t, 0, f)
UpdateHost(t, h, f) == hosts[h] /= NoHost /\ Save(t, h, f)

UrlTaken(url, h) == \E g \in HostIds \ {h} : hosts[g].url = url

\* Mutant: the address of a host is written, its environment is not.
WriteHostUrl(t) ==
  LET q == hostReq[t] IN
  /\ HostAt(t, "host") /\ q.host /= 0
  /\ hosts' = IF hosts[q.host] = NoHost THEN hosts ELSE [hosts EXCEPT ![q.host].url = q.url]
  /\ hostReq' = Overtaken(HostGoto(t, "read"), q.host, {t})
  /\ UNCHANGED <<clusters, hostLeft>>

\* The host's own transaction; an UPDATE of a host that is gone changes nothing.
WriteHost(t) ==
  LET q == hostReq[t] IN
  /\ HostAt(t, "host") /\ UNCHANGED clusters
  /\ \/ UrlTaken(q.url, q.host) /\ HostEnd(t) /\ UNCHANGED <<hosts, hostLeft>>
     \/ \E r \in {"active", "unreachable"} :
          LET row == [env |-> q.env, url |-> q.url, status |-> r] IN
          /\ ~UrlTaken(q.url, q.host)
          /\ \/ /\ q.host /= 0
                /\ hosts' = IF hosts[q.host] = NoHost THEN hosts ELSE [hosts EXCEPT ![q.host] = row]
                /\ hostReq' = Overtaken(HostGoto(t, "read"), q.host, {t})
                /\ UNCHANGED hostLeft
             \/ /\ q.host = 0 /\ hostLeft.host \in HostIds
                /\ hosts' = [hosts EXCEPT ![hostLeft.host] = row]
                /\ hostReq' = [HostGoto(t, "read") EXCEPT ![t].host = hostLeft.host]
                /\ hostLeft' = [hostLeft EXCEPT !.host = @ + 1]

\* The transaction of the cluster row begins: without a new credential the
\* stored one is taken, to be written again with the TLS setting asked for.
ReadCluster(t) ==
  LET q == hostReq[t] IN
  /\ HostAt(t, "read")
  /\ \/ /\ q.key /= "none"
        /\ hostReq' = HostGoto(t, "cluster") /\ HostQuiet
     \/ /\ q.key = "none" /\ ClusterOf(q.host) = {}
        /\ HostEnd(t) /\ HostQuiet
     \/ \E c \in ClusterOf(q.host) :
          /\ q.key = "none" /\ clusters[c].key /= "none"
          /\ hostReq' = [HostGoto(t, "cluster") EXCEPT ![t].key = clusters[c].key, ![t].op = "blank"]
          /\ HostQuiet
     \/ \E c \in ClusterOf(q.host) :
          /\ q.key = "none" /\ clusters[c].key = "none"
          /\ Named(q.env, q.host) \subseteq {c}
          /\ clusters' = [clusters EXCEPT ![c].env = q.env, ![c].name = q.host, ![c].verify = ~q.skip]
          /\ hostReq' = Overtaken([hostReq EXCEPT ![t] = NoHostReq], q.host, {t})
          /\ UNCHANGED <<hosts, hostLeft>>

\* INSERT ... ON DUPLICATE KEY UPDATE under both unique keys: the row of the
\* host is met first; the row of the name keeps the host it has. A second
\* conflict, or a host that is gone, raises.
Upsert(h, env, name, key, skip) ==
  LET new == [host |-> h, env |-> env, name |-> name, key |-> key, skip |-> skip,
              verify |-> ~skip, status |-> "configured"]
      met == IF h /= 0 /\ ClusterOf(h) /= {} THEN ClusterOf(h) ELSE Named(env, name) IN
  \/ \E c \in met :
       /\ Named(env, name) \subseteq {c}
       /\ clusters' = [clusters EXCEPT ![c] = [new EXCEPT !.host = clusters[c].host]]
       /\ UNCHANGED hostLeft
  \/ /\ met = {} /\ (h /= 0 => hosts[h] /= NoHost)
     /\ hostLeft.cluster \in ClusterIds
     /\ clusters' = [clusters EXCEPT ![hostLeft.cluster] = new]
     /\ hostLeft' = [hostLeft EXCEPT !.cluster = @ + 1]

\* Mutant: without a new credential the stored kubeconfig is not rewritten.
WriteClusterKeepsTls(t) ==
  LET q == hostReq[t] IN
  /\ HostAt(t, "cluster")
  /\ IF q.op = "blank"
     THEN /\ \E c \in ClusterOf(q.host) :
               clusters' = [clusters EXCEPT ![c].env = q.env, ![c].verify = ~q.skip]
          /\ UNCHANGED hostLeft
     ELSE Upsert(q.host, q.env, q.host, q.key, q.skip)
  /\ hostReq' = Overtaken([hostReq EXCEPT ![t] = NoHostReq], q.host, {t})
  /\ UNCHANGED hosts

WriteCluster(t) ==
  LET q == hostReq[t] IN
  /\ HostAt(t, "cluster")
  /\ Upsert(q.host, q.env, q.host, q.key, q.skip)
  /\ hostReq' = Overtaken([hostReq EXCEPT ![t] = NoHostReq], q.host, {t})
  /\ UNCHANGED hosts

\* Any step may raise or the process may die; the open transaction is undone.
HostCrash(t) == hostReq[t] /= NoHostReq /\ HostEnd(t) /\ HostQuiet

-----------------------------------------------------------------------------
(* Clusters by the API of their own, and deletions.                        *)

\* A cluster without a host; its name may be that of the cluster of a host.
CreateCluster(f) ==
  /\ hostLeft.changes > 0
  /\ LET met == Named(f.env, f.name)
         new == [host |-> 0, env |-> f.env, name |-> f.name, key |-> f.key, skip |-> f.skip,
                 verify |-> ~f.skip, status |-> "configured"] IN
     \/ \E c \in met :
          /\ clusters' = [clusters EXCEPT ![c] = [new EXCEPT !.host = clusters[c].host]]
          /\ hostReq' = Overtaken(hostReq, clusters[c].host, {})
          /\ hostLeft' = [hostLeft EXCEPT !.changes = @ - 1]
     \/ /\ met = {} /\ hostLeft.cluster \in ClusterIds
        /\ clusters' = [clusters EXCEPT ![hostLeft.cluster] = new]
        /\ hostLeft' = [hostLeft EXCEPT !.changes = @ - 1, !.cluster = @ + 1]
        /\ UNCHANGED hostReq
  /\ UNCHANGED hosts

DeleteCluster(c) ==
  /\ HostChange /\ clusters[c] /= NoCluster
  /\ clusters' = [clusters EXCEPT ![c] = NoCluster]
  /\ hostReq' = Overtaken(hostReq, clusters[c].host, {})
  /\ UNCHANGED hosts

\* Mutant: the clusters of a deleted host stay.
DeleteHostOnly(h) ==
  /\ HostChange /\ hosts[h] /= NoHost
  /\ hosts' = [hosts EXCEPT ![h] = NoHost]
  /\ hostReq' = Overtaken(hostReq, h, {})
  /\ UNCHANGED clusters

\* The clusters of a host are deleted with it (ON DELETE CASCADE).
DeleteHost(h) ==
  /\ HostChange /\ hosts[h] /= NoHost
  /\ hosts' = [hosts EXCEPT ![h] = NoHost]
  /\ clusters' = [c \in ClusterIds |-> IF clusters[c].host = h THEN NoCluster ELSE clusters[c]]
  /\ hostReq' = Overtaken(hostReq, h, {})

-----------------------------------------------------------------------------
(* Queries: what they read, and the status they write afterwards.          *)

\* get_k8s_cluster_by_host; nothing writes the status disabled.
Query(t, h, op) ==
  \E c \in ClusterOf(h) :
    Begun(t, [NoHostReq EXCEPT !.pc = "remote", !.op = op, !.host = h, !.id = c])

\* _require_allowed_namespaces: the host has a stored credential.
Allowed(h) == \E c \in ClusterOf(h) : clusters[c].key /= "none"

K8sNamespaces(t, h) == Query(t, h, "query")
K8sImages(t, h) == Query(t, h, "query")
NodeportNamespaces(t, h) == Query(t, h, "query")
Nodeports(t, h) == Query(t, h, "query")
EnvNamespaces(t, h) == Allowed(h) /\ Query(t, h, "query")
EnvWorkloads(t, h) == Allowed(h) /\ Query(t, h, "query")
EnvKeys(t, h) == Allowed(h) /\ Query(t, h, "keys")

Scrape(t, h) ==
  /\ hosts[h] /= NoHost
  /\ Begun(t, [NoHostReq EXCEPT !.pc = "scrape", !.op = "probe", !.host = h, !.url = hosts[h].url])
ProbeHost(t, h) == Scrape(t, h)
HostMetrics(t, h) == Scrape(t, h)
\* A host with a credential is asked through its cluster, any other directly.
ResourceMetrics(t, h) ==
  IF Allowed(h) THEN Query(t, h, "resources") ELSE Scrape(t, h)

\* The cluster answers or not; a single node without metrics is then scraped.
AskCluster(t) ==
  LET q == hostReq[t] IN
  /\ HostAt(t, "remote")
  /\ \/ hostReq' = [HostGoto(t, "cstatus") EXCEPT ![t].result = "active"]
     \/ /\ q.op /= "keys"
        /\ hostReq' = [HostGoto(t, "cstatus") EXCEPT ![t].result = "unreachable"]
     \/ q.op = "keys" /\ HostEnd(t)
     \/ /\ q.op = "resources" /\ hosts[q.host] /= NoHost
        /\ hostReq' = [HostGoto(t, "scrape") EXCEPT ![t].url = hosts[q.host].url]
  /\ HostQuiet

\* update_k8s_cluster_status: by id, whatever the row is now.
MarkCluster(t) ==
  LET q == hostReq[t] IN
  /\ HostAt(t, "cstatus")
  /\ clusters' = IF clusters[q.id] = NoCluster THEN clusters ELSE [clusters EXCEPT ![q.id].status = q.result]
  /\ HostEnd(t)
  /\ UNCHANGED <<hosts, hostLeft>>

\* update_host_scrape: by id, whatever the address is now.
MarkHost(t) ==
  LET q == hostReq[t] IN
  /\ HostAt(t, "scrape")
  /\ \E r \in {"active", "unreachable"} :
       hosts' = IF hosts[q.host] = NoHost THEN hosts ELSE [hosts EXCEPT ![q.host].status = r]
  /\ IF q.op = "resources"
     THEN hostReq' = [HostGoto(t, "cstatus") EXCEPT ![t].result = "active"]
     ELSE HostEnd(t)
  /\ UNCHANGED <<clusters, hostLeft>>

HostNext ==
  \/ \E t \in HostThreads :
       \/ WriteHost(t) \/ ReadCluster(t) \/ WriteCluster(t) \/ HostCrash(t)
       \/ AskCluster(t) \/ MarkCluster(t) \/ MarkHost(t)
       \/ \E f \in HostForms : CreateHost(t, f) \/ \E h \in HostIds : UpdateHost(t, h, f)
       \/ \E h \in HostIds :
            \/ K8sNamespaces(t, h) \/ K8sImages(t, h) \/ NodeportNamespaces(t, h) \/ Nodeports(t, h)
            \/ EnvNamespaces(t, h) \/ EnvWorkloads(t, h) \/ EnvKeys(t, h)
            \/ ProbeHost(t, h) \/ HostMetrics(t, h) \/ ResourceMetrics(t, h)
  \/ \E f \in ClusterForms : CreateCluster(f)
  \/ \E c \in ClusterIds : DeleteCluster(c)
  \/ \E h \in HostIds : DeleteHost(h)

HostSpec == HostInit /\ [][HostNext]_hostVars

-----------------------------------------------------------------------------
(* Properties.                                                             *)

\* The column verify_ssl says what the stored kubeconfig says, through saves
\* with and without a new credential, clusters made by name, and races of them.
TlsAgrees ==
  \A c \in ClusterIds : clusters[c].key /= "none" => clusters[c].verify = ~clusters[c].skip

\* A save that no other request, deletion or cluster of the same name overtook
\* leaves host and cluster in the environment it asked for, with the address,
\* the TLS setting and the credential it brought, or the one that was stored.
SavedUnlessRaced ==
  [][\A t \in HostThreads :
       LET q == hostReq[t] IN
       (/\ HostAt(t, "cluster") /\ hostReq'[t] = NoHostReq /\ ~q.raced /\ clusters' /= clusters
        /\ Named(q.env, q.host) \subseteq ClusterOf(q.host))
       => /\ hosts'[q.host].env = q.env /\ hosts'[q.host].url = q.url
          /\ \E c \in ClusterIds :
               /\ clusters'[c].host = q.host /\ clusters'[c].env = hosts'[q.host].env
               /\ clusters'[c].skip = q.skip
               /\ clusters'[c].key = IF q.op = "blank" THEN clusters[c].key ELSE q.key]_hostVars
=============================================================================
