--------------------------- MODULE VllmController ---------------------------
(***************************************************************************)
(* The reconcile of one VllmService (src/src/main.rs) against the API      *)
(* server, and what Kubernetes makes of the objects it applies:            *)
(*                                                                         *)
(*   idle --> Service --> NetworkPolicy --> status --> idle                *)
(*                                                                         *)
(* pc names the next call; the first one, the Deployment, is sent from     *)
(* idle, since nothing is read between the start and it.  The phase that   *)
(* is written last is computed from the Deployment as the first call       *)
(* returned it.  A reconcile may be abandoned after any call (an API       *)
(* error, the 30 s timeout, a crash); what it applied stays.  The          *)
(* VllmService it is handed comes from a watch cache that may lag, and     *)
(* all calls go by name: the object they reach may be another of that name.*)
(*                                                                         *)
(* The Deployment controller, the kubelet and the garbage collector are    *)
(* not part of the repository.  They are modelled as far as the code       *)
(* relies on them: a rolling update within maxSurge and maxUnavailable, a  *)
(* status that follows the pods, and the collection of objects whose owner *)
(* is gone.  A pod template is known by the node it is pinned to.          *)
(***************************************************************************)
EXTENDS Integers, FiniteSets, Functions

CONSTANTS
    Nodes,            \* names of the nodes of the cluster
    NoNode,           \* spec.nodeName unset
    ReplicaValues,    \* values of spec.replicas
    PolicyEnabled,    \* NETWORK_POLICY_ENABLED
    MaxIncarnations,  \* bound on the VllmServices created under the name
    MaxAborts,        \* bound on abandoned reconciles
    MaxIncidents      \* bound on what users and the cluster do

ASSUME VllmAssumption ==
    /\ IsFiniteSet(Nodes)
    /\ NoNode \notin Nodes
    /\ ReplicaValues \subseteq Nat
    /\ ReplicaValues # {}
    /\ PolicyEnabled \in BOOLEAN
    /\ {MaxIncarnations, MaxAborts, MaxIncidents} \subseteq Nat

VARIABLES
    \* The API server: the VllmService of this name.
    exists,       \* whether there is one
    uid,          \* which of those created under this name it is, or was
    pin,          \* spec.nodeName
    replicas,     \* spec.replicas
    phase,        \* status.phase; "" for no status
    \* The API server: what the operator applies, under the same name.
    object,       \* kind -> whether it exists, and the uid of its owner
    dep,          \* the Deployment's spec, and the readyReplicas it reports
    pods,         \* template -> pods starting and pods ready
    \* The operator.
    seen,         \* the VllmService in the watch cache
    step,         \* where the reconcile is
    handed,       \* the VllmService this reconcile was handed
    applied,      \* readyReplicas of the Deployment its apply returned
    \* Bounds.
    aborts, incidents

service    == <<exists, uid, pin, replicas>>
cluster    == <<object, dep, pods>>
locals     == <<step, handed, applied>>
serviceVars == <<service, phase, cluster, seen, locals, aborts, incidents>>

-----------------------------------------------------------------------------
(***************************************************************************)
(* Values.                                                                 *)
(***************************************************************************)
Templates == Nodes \cup {NoNode}

Phases == {"Pending", "Warming", "Ready"}

Kinds == {"Deployment", "Service"}
            \cup (IF PolicyEnabled THEN {"NetworkPolicy"} ELSE {})

\* An object without an owner reference has owner 0.
Object == [live : BOOLEAN, owner : Nat]

Absent == [live |-> FALSE, owner |-> 0]

VllmService == [exists : BOOLEAN, uid : Nat, pin : Templates,
                replicas : Nat, phase : Phases \cup {""}]

NoService == [exists |-> FALSE, uid |-> 0, pin |-> NoNode, replicas |-> 0,
              phase |-> ""]

Stored == IF exists
          THEN [exists |-> TRUE, uid |-> uid, pin |-> pin,
                replicas |-> replicas, phase |-> phase]
          ELSE NoService

NoDeployment == [pin |-> NoNode, replicas |-> 0, ready |-> 0]

NoPods == [t \in Templates |-> [starting |-> 0, ready |-> 0]]

PodsOf(t) == pods[t].starting + pods[t].ready

AllPods == SumFunction([t \in Templates |-> PodsOf(t)])

ReadyPods == SumFunction([t \in Templates |-> pods[t].ready])

-----------------------------------------------------------------------------
(***************************************************************************)
(* The reconcile.                                                          *)
(***************************************************************************)
\* Plausible slips, substituted one at a time when the properties are tested.

DefaultOfOne == 1

BorrowsTheFleetsPhase(desired, ready) ==
    IF ready < desired THEN "Placing" ELSE "Ready"

NoOwner(s) == 0

OnlyCreates ==
    /\ step = "idle"
    /\ seen.exists
    /\ handed' = seen
    /\ object' = [object EXCEPT !["Deployment"] = [live |-> TRUE, owner |-> seen.uid]]
    /\ dep' = IF object["Deployment"].live THEN dep
              ELSE [pin |-> seen.pin, replicas |-> seen.replicas, ready |-> 0]
    /\ applied' = dep.ready
    /\ step' = "Service"
    /\ UNCHANGED <<service, phase, pods, seen, aborts, incidents>>

OnlyOnDrift ==
    /\ step = "idle"
    /\ seen.exists
    /\ <<dep.pin, dep.replicas, object["Deployment"].owner>>
          # <<seen.pin, seen.replicas, seen.uid>>
    /\ handed' = seen
    /\ object' = [object EXCEPT !["Deployment"] = [live |-> TRUE, owner |-> seen.uid]]
    /\ dep' = [pin |-> seen.pin, replicas |-> seen.replicas, ready |-> dep.ready]
    /\ applied' = dep.ready
    /\ step' = "Service"
    /\ UNCHANGED <<service, phase, pods, seen, aborts, incidents>>

ReplacesTheDeployment ==
    /\ step = "idle"
    /\ seen.exists
    /\ handed' = seen
    /\ object' = [object EXCEPT !["Deployment"] = [live |-> TRUE, owner |-> seen.uid]]
    /\ dep' = [pin |-> seen.pin, replicas |-> seen.replicas, ready |-> dep.ready]
    /\ pods' = IF dep.pin = seen.pin THEN pods ELSE NoPods
    /\ applied' = dep.ready
    /\ step' = "Service"
    /\ UNCHANGED <<service, phase, seen, aborts, incidents>>

-----------------------------------------------------------------------------
\* strategy.rollingUpdate, declared rather than inherited.
MaxSurge == 1
MaxUnavailable == 0

\* phase_for
PhaseFor(desired, ready) ==
    IF ready = 0 THEN "Pending"
    ELSE IF ready < desired THEN "Warming" ELSE "Ready"

\* The owner reference of everything built from the VllmService s.
OwnerRef(s) == s.uid

\* Server-side apply of an object built from s: created, or taken over.
Applied(kind, s) ==
    [object EXCEPT ![kind] = [live |-> TRUE, owner |-> OwnerRef(s)]]

ForgetReconcile ==
    /\ step' = "idle"
    /\ handed' = NoService
    /\ applied' = 0

\* The whole spec is forced, the status of an existing Deployment is kept and
\* comes back with the answer.
ApplyDeployment ==
    /\ step = "idle"
    /\ seen.exists
    /\ handed' = seen
    /\ object' = Applied("Deployment", seen)
    /\ dep' = [pin |-> seen.pin, replicas |-> seen.replicas, ready |-> dep.ready]
    /\ applied' = dep.ready
    /\ step' = "Service"
    /\ UNCHANGED <<service, phase, pods, seen, aborts, incidents>>

ApplyService ==
    /\ step = "Service"
    /\ object' = Applied("Service", handed)
    /\ step' = IF PolicyEnabled THEN "NetworkPolicy" ELSE "status"
    /\ UNCHANGED <<service, phase, dep, pods, seen, handed, applied, aborts,
                   incidents>>

ApplyNetworkPolicy ==
    /\ step = "NetworkPolicy"
    /\ object' = Applied("NetworkPolicy", handed)
    /\ step' = "status"
    /\ UNCHANGED <<service, phase, dep, pods, seen, handed, applied, aborts,
                   incidents>>

\* A merge patch by name.  It fails when the VllmService is gone; one
\* re-created under the name takes the phase of its predecessor.
WriteServiceStatus ==
    /\ step = "status"
    /\ phase' = IF exists THEN PhaseFor(handed.replicas, applied) ELSE phase
    /\ ForgetReconcile
    /\ UNCHANGED <<service, cluster, seen, aborts, incidents>>

\* error_policy requeues, or the next process starts over.
AbandonReconcile ==
    /\ step # "idle"
    /\ aborts < MaxAborts
    /\ aborts' = aborts + 1
    /\ ForgetReconcile
    /\ UNCHANGED <<service, phase, cluster, seen, incidents>>

ReconcileService ==
    \/ ApplyDeployment
    \/ ApplyService
    \/ ApplyNetworkPolicy
    \/ WriteServiceStatus

\* The watch brings the cache up to date with the newest version.
SyncService ==
    /\ seen # Stored
    /\ seen' = Stored
    /\ UNCHANGED <<service, phase, cluster, locals, aborts, incidents>>

\* vllmservice_phase as scraped: the series at 1, read from the same cache.
\* Without a status there is no series.
ScrapedPhases == {p \in Phases : seen.exists /\ seen.phase = p}

-----------------------------------------------------------------------------
(***************************************************************************)
(* Kubernetes.                                                             *)
(***************************************************************************)
Serving == object["Deployment"].live

\* The rolling update adds a pod of the current template.
SurgeUp ==
    /\ Serving
    /\ PodsOf(dep.pin) < dep.replicas
    /\ AllPods < dep.replicas + MaxSurge
    /\ pods' = [pods EXCEPT ![dep.pin].starting = @ + 1]
    /\ UNCHANGED <<service, phase, object, dep, seen, locals, aborts, incidents>>

\* Pods of an earlier template the rolling update may take down now.
Excess == AllPods - (dep.replicas - MaxUnavailable) - pods[dep.pin].starting

\* One pod goes, an unready one first: the current template has too many, or
\* an earlier one can be spared.
ScaleDown(t) ==
    /\ Serving
    /\ PodsOf(t) > 0
    /\ \/ t = dep.pin /\ PodsOf(t) > dep.replicas
       \/ /\ t # dep.pin
          /\ Excess > 0
          /\ pods[t].starting > 0 \/ ReadyPods > dep.replicas - MaxUnavailable
    /\ pods' = IF pods[t].starting > 0
               THEN [pods EXCEPT ![t].starting = @ - 1]
               ELSE [pods EXCEPT ![t].ready = @ - 1]
    /\ UNCHANGED <<service, phase, object, dep, seen, locals, aborts, incidents>>

\* The Deployment's status follows its pods.
ReportReady ==
    /\ Serving
    /\ dep.ready # ReadyPods
    /\ dep' = [dep EXCEPT !.ready = ReadyPods]
    /\ UNCHANGED <<service, phase, object, pods, seen, locals, aborts, incidents>>

\* The readiness probe of a starting pod passes.
PodStarts(t) ==
    /\ pods[t].starting > 0
    /\ pods' = [pods EXCEPT ![t] = [starting |-> @.starting - 1, ready |-> @.ready + 1]]
    /\ UNCHANGED <<service, phase, object, dep, seen, locals, aborts, incidents>>

\* An object goes; with a Deployment go its pods.
Erase(kind) ==
    /\ object[kind].live
    /\ object' = [object EXCEPT ![kind] = Absent]
    /\ dep' = IF kind = "Deployment" THEN NoDeployment ELSE dep
    /\ pods' = IF kind = "Deployment" THEN NoPods ELSE pods
    /\ UNCHANGED <<service, phase, seen, locals, aborts>>

\* An object whose owner does not exist is collected.
Collect(kind) ==
    /\ object[kind].owner \notin {0} \cup (IF exists THEN {uid} ELSE {})
    /\ Erase(kind)
    /\ UNCHANGED incidents

Rollout ==
    \/ SurgeUp
    \/ ReportReady
    \/ \E t \in Templates : ScaleDown(t)

Collection == \E kind \in Kinds : Collect(kind)

-----------------------------------------------------------------------------
(***************************************************************************)
(* Users, and what goes wrong in the cluster.                              *)
(***************************************************************************)
Incident ==
    /\ incidents < MaxIncidents
    /\ incidents' = incidents + 1
    /\ UNCHANGED <<seen, locals, aborts>>

CreateService(p, r) ==
    /\ ~exists
    /\ uid < MaxIncarnations
    /\ exists' = TRUE
    /\ uid' = uid + 1
    /\ pin' = p
    /\ replicas' = r
    /\ phase' = ""
    /\ UNCHANGED cluster
    /\ Incident

DeleteService ==
    /\ exists
    /\ exists' = FALSE
    /\ phase' = ""
    /\ UNCHANGED <<uid, pin, replicas, cluster>>
    /\ Incident

Retarget(p) ==
    /\ exists
    /\ p # pin
    /\ pin' = p
    /\ UNCHANGED <<exists, uid, replicas, phase, cluster>>
    /\ Incident

ScaleService(r) ==
    /\ exists
    /\ r # replicas
    /\ replicas' = r
    /\ UNCHANGED <<exists, uid, pin, phase, cluster>>
    /\ Incident

\* A container restarts, or its probe fails.
PodFails(t) ==
    /\ pods[t].ready > 0
    /\ pods' = [pods EXCEPT ![t] = [starting |-> @.starting + 1, ready |-> @.ready - 1]]
    /\ UNCHANGED <<service, phase, object, dep>>
    /\ Incident

DeleteObject(kind) ==
    /\ Erase(kind)
    /\ Incident

Incidents ==
    \/ \E p \in Templates, r \in ReplicaValues : CreateService(p, r)
    \/ DeleteService
    \/ \E p \in Templates : Retarget(p) \/ PodFails(p)
    \/ \E r \in ReplicaValues : ScaleService(r)
    \/ \E kind \in Kinds : DeleteObject(kind)

ServiceInit ==
    /\ exists = FALSE
    /\ uid = 0
    /\ pin = NoNode
    /\ replicas \in ReplicaValues
    /\ phase = ""
    /\ object = [k \in Kinds |-> Absent]
    /\ dep = NoDeployment
    /\ pods = NoPods
    /\ seen = NoService
    /\ step = "idle"
    /\ handed = NoService
    /\ applied = 0
    /\ aborts = 0
    /\ incidents = 0

Kubernetes == Rollout \/ Collection \/ \E t \in Templates : PodStarts(t)

ServiceNext ==
    \/ ReconcileService
    \/ AbandonReconcile
    \/ SyncService
    \/ Kubernetes
    \/ Incidents

ServiceSpec == ServiceInit /\ [][ServiceNext]_serviceVars

(***************************************************************************)
(* Every reconcile of a VllmService that exists ends in a requeue (5 s or  *)
(* 300 s, 15 s after an error), so another starts; the watch keeps         *)
(* delivering; the Deployment controller and the garbage collector keep    *)
(* working.  A pod may never become ready.                                 *)
(***************************************************************************)
ServiceFairness ==
    /\ WF_serviceVars(ReconcileService)
    /\ WF_serviceVars(SyncService)
    /\ WF_serviceVars(Rollout)
    /\ WF_serviceVars(Collection)

FairServiceSpec == ServiceSpec /\ ServiceFairness

-----------------------------------------------------------------------------
(***************************************************************************)
(* Properties.                                                             *)
(***************************************************************************)
\* Type invariant: every variable holds what the code's types admit.
ServiceTypeOK ==
    /\ {Stored, seen, handed} \subseteq VllmService
    /\ object \in [Kinds -> Object]
    /\ dep \in [pin : Templates, replicas : Nat, ready : Nat]
    /\ pods \in [Templates -> [starting : Nat, ready : Nat]]
    /\ step \in {"idle", "Service", "NetworkPolicy", "status"}
    /\ {applied, aborts, incidents} \subseteq Nat

(***************************************************************************)
(* Make before break: while its Deployment stands, moving, scaling or      *)
(* re-applying a VllmService takes no ready pod it needs; only a failure   *)
(* does (ADR-0005 decision 5, main.rs:348-363).                            *)
(***************************************************************************)
KeepsCapacity ==
    [][(incidents' = incidents /\ Serving /\ Serving') =>
          LET after == SumFunction([t \in Templates |-> pods'[t].ready])
          IN  after >= ReadyPods \/ after >= dep.replicas]_serviceVars

(***************************************************************************)
(* When nothing changes any more the phase, and the series scraped for it, *)
(* are those of the pods there are, and a deleted VllmService has no       *)
(* series: whatever an abandoned reconcile left, a late write of the       *)
(* predecessor's phase included (main.rs:568-588, metrics.rs:58-83).       *)
(***************************************************************************)
PhaseConverges ==
    <>[](ScrapedPhases = IF exists THEN {PhaseFor(replicas, ReadyPods)} ELSE {})

(***************************************************************************)
(* In the end every object is there, owned by this VllmService and built   *)
(* from its spec, whoever deleted what and wherever reconciles were        *)
(* abandoned; pods of another template stay only while this one's are not  *)
(* ready (main.rs:529-566).                                                *)
(***************************************************************************)
ChildrenFollowSpec ==
    <>[](exists =>
            /\ \A kind \in Kinds : object[kind] = [live |-> TRUE, owner |-> uid]
            /\ dep.pin = pin
            /\ dep.replicas = replicas
            /\ pods[pin].ready = replicas =>
                  \A t \in Templates \ {pin} : PodsOf(t) = 0)

(***************************************************************************)
(* A deleted VllmService leaves nothing behind, even when a reconcile that *)
(* had not heard of it re-applies its objects (main.rs:381, 411, 489).     *)
(***************************************************************************)
NothingOrphaned ==
    <>[](~exists => \A kind \in Kinds : ~object[kind].live)
=============================================================================
