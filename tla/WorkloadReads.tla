---------------------------- MODULE WorkloadReads ----------------------------
(***************************************************************************)
(* What the console reads of a Kubernetes namespace (k8s_client.py,        *)
(* k8s_workload_images.py): the pods and images grouped by workload, put   *)
(* together from five lists, and an environment variable of a workload,    *)
(* read by a command in one of its pods.  Every call sees the namespace as *)
(* it is then: between two of them a workload may be deleted and created   *)
(* again under its name, and a pod replaced.  A request only reads, so one *)
(* is enough.                                                              *)
(***************************************************************************)
EXTENDS Naturals, FiniteSets

CONSTANTS Workloads,   \* names of workloads
          Templates,   \* pod templates: the hash that ends the name of a ReplicaSet
          MaxUids,     \* bound: objects created
          MaxEvents    \* bound: objects created and changes of pods

ASSUME WorkloadAssumption == MaxUids \in Nat /\ MaxEvents \in Nat

VARIABLES
    controllers,   \* the Deployments, StatefulSets and DaemonSets there are
    replicaSets,   \* the ReplicaSets there are
    pods,          \* the pods there are
    uids,          \* objects created so far: the last uid given out
    changes,       \* changes of pods so far
    request,       \* the request being served
    born           \* history: kind, name and top workload of every object by uid

clusterVars == <<controllers, replicaSets, pods, uids, changes, born>>
workloadVars == <<clusterVars, request>>

Kinds == {"Deployment", "StatefulSet", "DaemonSet"}
Healths == {"abnormal", "completed", "terminating", "healthy", "starting"}
Containers == {"Unscheduled", "Creating", "Running", "Crashing", "Error", "Done"}

\* The next object is created; workload is the uid of the workload on top of it.
Bear(kind, name, workload) ==
  /\ uids < MaxUids /\ uids + changes < MaxEvents
  /\ uids' = uids + 1
  /\ born' = [born EXCEPT ![uids + 1] = [kind |-> kind, name |-> name, top |-> workload]]

NotBorn == [kind |-> "none", name |-> "none", top |-> 0]

Ref(kind, name, uid) == [kind |-> kind, name |-> name, uid |-> uid]

-----------------------------------------------------------------------------
(* The namespace.                                                          *)

CreateWorkload(kind, name) ==
  /\ ~ \E c \in controllers : c.kind = kind /\ c.name = name
  /\ Bear(kind, name, uids + 1)
  /\ controllers' = controllers \cup {Ref(kind, name, uids + 1)}
  /\ UNCHANGED <<replicaSets, pods, changes, request>>

\* Background deletion: what it owns goes later.
DeleteWorkload(c) ==
  /\ controllers' = controllers \ {c}
  /\ UNCHANGED <<replicaSets, pods, uids, changes, request, born>>

\* The name of a ReplicaSet follows from its Deployment's and the template.
NewReplicaSet(c, template) ==
  /\ c.kind = "Deployment"
  /\ ~ \E s \in replicaSets : s.name = <<c.name, template>>
  /\ Bear("ReplicaSet", <<c.name, template>>, c.uid)
  /\ replicaSets' = replicaSets \cup {[name |-> <<c.name, template>>, uid |-> uids + 1, owner |-> c]}
  /\ UNCHANGED <<controllers, pods, changes, request>>

DropReplicaSet(s) ==
  /\ replicaSets' = replicaSets \ {s}
  /\ UNCHANGED <<controllers, pods, uids, changes, request, born>>

\* A pod of a StatefulSet has the workload's name and an ordinal, any other a name of its own.
PodName(owner, uid) == IF owner.kind = "StatefulSet" THEN <<owner.name, 0>> ELSE <<"pod", uid>>

NewPod(owner) ==
  LET name == PodName(owner, uids + 1) IN
  /\ ~ \E p \in pods : p.name = name
  /\ Bear("Pod", name, born[owner.uid].top)
  /\ pods' = pods \cup {[name |-> name, uid |-> uids + 1, owner |-> owner,
                         container |-> "Creating", ready |-> FALSE, leaving |-> FALSE]}
  /\ UNCHANGED <<controllers, replicaSets, changes, request>>

PodOfSet(s) == NewPod(Ref("ReplicaSet", s.name, s.uid))
PodOfController(c) == c.kind # "Deployment" /\ NewPod(c)

\* A pod with no owner: the code takes it for its own controller.
LonePod ==
  LET name == <<"pod", uids + 1>> IN
  /\ Bear("Pod", name, uids + 1)
  /\ pods' = pods \cup {[name |-> name, uid |-> uids + 1, owner |-> Ref("Pod", name, uids + 1),
                         container |-> "Creating", ready |-> FALSE, leaving |-> FALSE]}
  /\ UNCHANGED <<controllers, replicaSets, changes, request>>

\* What the kubelet reports next of the one container of a pod.
Later(p) ==
  CASE p.container = "Creating" -> IF p.leaving THEN {"Running"} ELSE {"Unscheduled", "Running"}
    [] p.container = "Unscheduled" -> {"Creating"}
    [] p.container = "Running" -> {"Error", "Done"}
    [] OTHER -> IF p.leaving THEN {} ELSE {"Running", "Crashing"}

PodChange(p, q) ==
  /\ uids + changes < MaxEvents
  /\ changes' = changes + 1
  /\ pods' = (pods \ {p}) \cup q
  /\ UNCHANGED <<controllers, replicaSets, uids, request, born>>

Report(p) == \E c \in Later(p) : PodChange(p, {[p EXCEPT !.container = c, !.ready = FALSE]})
BecomeReady(p) == p.container = "Running" /\ ~p.ready /\ PodChange(p, {[p EXCEPT !.ready = TRUE]})
DeletePod(p) == ~p.leaving /\ p.container # "Unscheduled" /\ PodChange(p, {[p EXCEPT !.leaving = TRUE]})
RemovePod(p) == (p.leaving \/ p.container = "Unscheduled") /\ PodChange(p, {})

\* The phase of a pod whose containers are restarted when they end.
Phase(p) ==
  CASE p.container \in {"Unscheduled", "Creating"} -> "Pending"
    [] p.container = "Error" /\ p.leaving -> "Failed"
    [] p.container = "Done" /\ p.leaving -> "Succeeded"
    [] OTHER -> "Running"

-----------------------------------------------------------------------------
(* collect_images: one row per pod, by the lists of the request.           *)

\* Mutant: the ReplicaSet of that name.
SetNamed(ref) == {s \in request.sets : s.name = ref.name}

\* The ReplicaSet a reference means: that of the name, if its uid is the same.
SetOf(ref) == {s \in request.sets : s.name = ref.name /\ s.uid = ref.uid}

\* Mutant: of the workloads of one name, the last has the figures.
FiguresLast(ref, listed) ==
  {c.uid : c \in {d \in listed : ref.kind \in Kinds /\ d.name = ref.name /\ d.uid = ref.uid
                                 /\ \A o \in listed : o.name = d.name => o.uid <= d.uid}}

\* The workload whose figures are shown beside a row: that of the kind and name,
\* if its uid is the same.
FiguresOf(ref, listed) ==
  {c.uid : c \in {d \in listed : d.kind = ref.kind /\ d.name = ref.name /\ d.uid = ref.uid}}

\* pod_health(): the first that applies.
Health(p) ==
  CASE p.container \in {"Unscheduled", "Crashing", "Error"} \/ Phase(p) = "Failed" -> "abnormal"
    [] Phase(p) = "Succeeded" -> "completed"
    [] p.leaving -> "terminating"
    [] Phase(p) = "Running" /\ ~p.ready -> "abnormal"
    [] Phase(p) = "Running" -> "healthy"
    [] OTHER -> "starting"

\* The controller a row is grouped under: up from the ReplicaSet where it is known.
Controller(p) ==
  IF p.owner.kind = "ReplicaSet" /\ SetOf(p.owner) # {}
  THEN (CHOOSE s \in SetOf(p.owner) : TRUE).owner ELSE p.owner

ImageRow(p, listed) ==
  LET up == Controller(p) IN
  [pod |-> p, key |-> <<up.kind, up.uid>>, figures |-> FiguresOf(up, listed),
   resolved |-> up.kind = "Pod" \/ FiguresOf(up, listed) # {}, health |-> Health(p)]

-----------------------------------------------------------------------------
(* The requests.                                                           *)

Labels == {"idle", "pods", "sets", "Deployment", "StatefulSet", "DaemonSet", "listed",
           "read", "envpods", "envsets", "choose", "exec", "answered"}

NoRequest == [pc |-> "idle", kind |-> "none", name |-> "none", pods |-> {}, sets |-> {},
              listed |-> {}, rows |-> {}, chosen |-> {}, ran |-> 0]

Serve(label, r) == request.pc = label /\ request' = r /\ UNCHANGED clusterVars

\* list_running_controller_images(): pods, ReplicaSets and the three kinds in turn.
StartImages == Serve("idle", [NoRequest EXCEPT !.pc = "pods"])
ListPods == Serve("pods", [request EXCEPT !.pc = "sets", !.pods = pods])
ListReplicaSets == Serve("sets", [request EXCEPT !.pc = "Deployment", !.sets = replicaSets])

Listed(kind) == request.listed \cup {c \in controllers : c.kind = kind}

ListControllers(kind, then) == Serve(kind, [request EXCEPT !.pc = then, !.listed = Listed(kind)])
ListDeployments == ListControllers("Deployment", "StatefulSet")
ListStatefulSets == ListControllers("StatefulSet", "DaemonSet")
ListDaemonSets ==
  Serve("DaemonSet", [NoRequest EXCEPT !.pc = "listed",
                                       !.rows = {ImageRow(p, Listed("DaemonSet")) : p \in request.pods}])

\* get_workload_environment_keys(): the workload, the pods its selector finds (all
\* of them, where workloads share their labels), a Deployment's ReplicaSets.
StartEnv(kind, name) ==
  /\ kind # "DaemonSet"
  /\ Serve("idle", [NoRequest EXCEPT !.pc = "read", !.kind = kind, !.name = name])

\* Of the workload found only the selector is used; listed keeps it for ReadsOwnPod.
ReadWorkload(c) ==
  /\ c.kind = request.kind /\ c.name = request.name
  /\ Serve("read", [request EXCEPT !.pc = "envpods", !.listed = {c}])

ListEnvPods ==
  Serve("envpods", [request EXCEPT !.pc = IF request.kind = "Deployment" THEN "envsets" ELSE "choose",
                                   !.pods = pods])

\* Owners are known by their kind and name.
OwnedBy(owner) == owner.kind = request.kind /\ owner.name = request.name

ListEnvSets == Serve("envsets", [request EXCEPT !.pc = "choose", !.sets = {s \in replicaSets : OwnedBy(s.owner)}])

Belongs(p) ==
  IF request.kind = "Deployment"
  THEN p.owner.kind = "ReplicaSet" /\ \E s \in request.sets : s.name = p.owner.name
  ELSE OwnedBy(p.owner)

\* A running pod of the workload, one whose containers are ready if there is one.
ChoosePod(p) ==
  LET running == {q \in request.pods : Belongs(q) /\ Phase(q) = "Running"} IN
  /\ p \in running
  /\ (\E q \in running : q.ready) => p.ready
  /\ Serve("choose", [request EXCEPT !.pc = "exec", !.chosen = {p}])

\* The command runs in the pod that has the name of the chosen one now.
Exec(p) ==
  /\ p.container = "Running"
  /\ \E q \in request.chosen : q.name = p.name
  /\ Serve("exec", [request EXCEPT !.pc = "answered", !.ran = p.uid])

\* The answer is sent; or a call fails, no pod is running, the command fails.
EndRequest == request.pc # "idle" /\ request' = NoRequest /\ UNCHANGED clusterVars

-----------------------------------------------------------------------------

WorkloadInit ==
  /\ controllers = {} /\ replicaSets = {} /\ pods = {} /\ uids = 0 /\ changes = 0
  /\ request = NoRequest /\ born = [u \in 1..MaxUids |-> NotBorn]

ClusterNext ==
  \/ \E kind \in Kinds, name \in Workloads : CreateWorkload(kind, name)
  \/ \E c \in controllers : DeleteWorkload(c) \/ PodOfController(c)
  \/ \E c \in controllers, t \in Templates : NewReplicaSet(c, t)
  \/ \E s \in replicaSets : DropReplicaSet(s) \/ PodOfSet(s)
  \/ LonePod
  \/ \E p \in pods : Report(p) \/ BecomeReady(p) \/ DeletePod(p) \/ RemovePod(p)

RequestNext ==
  \/ StartImages \/ ListPods \/ ListReplicaSets
  \/ ListDeployments \/ ListStatefulSets \/ ListDaemonSets
  \/ \E kind \in Kinds, name \in Workloads : StartEnv(kind, name)
  \/ \E c \in controllers : ReadWorkload(c)
  \/ ListEnvPods \/ ListEnvSets
  \/ \E p \in request.pods : ChoosePod(p)
  \/ \E p \in pods : Exec(p)
  \/ EndRequest

WorkloadNext == ClusterNext \/ RequestNext

WorkloadSpec == WorkloadInit /\ [][WorkloadNext]_workloadVars

-----------------------------------------------------------------------------
(* Properties.                                                             *)

Uids == 1..uids
Refs == [kind: Kinds, name: Workloads, uid: Uids]

\* Type invariant.
WorkloadTypeOK ==
  /\ uids \in 0..MaxUids /\ changes \in 0..MaxEvents
  /\ controllers \subseteq Refs
  /\ \A s \in replicaSets : s.uid \in Uids /\ s.owner \in Refs
  /\ \A p \in pods : p.uid \in Uids /\ p.owner.uid \in Uids /\ p.container \in Containers
  /\ request.pc \in Labels
  /\ \A row \in request.rows : row.resolved \in BOOLEAN /\ row.health \in Healths

\* A pod is grouped with what it really belongs to, and the figures beside it are
\* those of its own workload, though workload, ReplicaSet and pod may have been
\* replaced by others of the same names between the five lists.
RowsTrue ==
  \A row \in request.rows :
    LET own == born[row.pod.uid].top IN born[row.key[2]].top = own /\ row.figures \subseteq {own}

\* A pod of the list is grouped under its workload, with its figures, if that and
\* its ReplicaSet are still there.
Resolves ==
  ListDaemonSets =>
    \A row \in request'.rows :
      LET own == born[row.pod.uid].top
          alive == {c \in controllers : c.uid = own} IN
      (alive # {} /\ (row.pod.owner.kind = "ReplicaSet" => \E s \in replicaSets : s.uid = row.pod.owner.uid))
        => row.resolved /\ row.figures = {own}

\* A pod whose ReplicaSet and workload are still there when the last list has been
\* read is grouped under that workload, with its figures: nothing that stayed is lost.
StaysResolved == [][Resolves]_workloadVars

\* An environment variable is read in a pod of the workload that was found, or of one
\* that took its place since (k8s-env-key-inventory.md:23), not of one that was gone.
ReadsOwnPod ==
  request.ran # 0 => \A c \in request.listed : born[request.ran].top >= c.uid

\* What does hold: the pod is one of a workload of the kind and name asked for,
\* although the pod found may be gone by then and its name given to another.
ReadAsAsked ==
  request.ran # 0 =>
    LET own == born[born[request.ran].top] IN own.kind = request.kind /\ own.name = request.name
=============================================================================
