---------------------------- MODULE FleetSystem ----------------------------
(***************************************************************************)
(* A fleet of one replica with the controller of its VllmService: the two  *)
(* controllers of the operator, which run side by side (main.rs:692-693)   *)
(* and meet only in the child.  The fleet controller writes its spec and   *)
(* reads its phase; the VllmService controller reads its spec and writes   *)
(* its phase; the pods follow the Deployment.  Neither waits for the other.*)
(*                                                                         *)
(* In FleetController the children that report Ready are drawn freely when *)
(* the status is written.  Here they are what the list of children showed. *)
(***************************************************************************)
EXTENDS FleetController

CONSTANT MaxFailures    \* bound on the pods that fail

ASSUME OneReplica == MaxReplicas = 1 /\ MaxFailures \in Nat

VARIABLES
    uid, phase, object, dep, pods,   \* as in VllmController, for the child
    seen, step, handed, applied,
    listed,     \* slots whose child reported Ready when they were listed
    failures

childVars  == <<uid, phase>>
belowVars  == <<object, dep, pods, seen, step, handed, applied>>
systemVars == <<vars, childVars, belowVars, listed, failures>>

\* A child serves with one pod on the node it is pinned to; it exists while it
\* is pinned.
Service == INSTANCE VllmController
    WITH exists <- child[0] # NoNode, pin <- child[0], replicas <- 1,
         ReplicaValues <- {1}, PolicyEnabled <- FALSE,
         MaxIncarnations <- MaxEvents + 1,
         aborts <- faults, MaxAborts <- MaxFaults,
         incidents <- failures, MaxIncidents <- MaxFailures

ReportsReady == {i \in Pinned(child) : phase = "Ready"}

\* A child that appears is a new object without a status; one that goes takes
\* its status along; a re-pinned one keeps it.
ChildSeenBelow ==
    LET born == child[0] = NoNode /\ child'[0] # NoNode
        gone == child'[0] = NoNode
    IN  /\ uid' = IF born THEN uid + 1 ELSE uid
        /\ phase' = IF born \/ gone THEN "" ELSE phase

\* A step of FleetController, with the readiness its list of children showed.
FleetStep(A) ==
    /\ A
    /\ Completes => fleet'.status = NewStatus(listed)
    /\ listed' = IF pc' # "act" THEN {}
                 ELSE IF pc = "idle" THEN ReportsReady ELSE listed
    /\ ChildSeenBelow
    /\ UNCHANGED <<belowVars, failures>>

\* A step below the fleet: the child is read, only its phase is written.
ServiceStep(A) ==
    /\ UNCHANGED <<fleet, clusterVars, cached, reconcileVars, events, uid, listed>>
    /\ A

FleetReconciles == FleetStep(Reconcile)

FleetSyncs == FleetStep(Sync)

FleetDisturbed == FleetStep(StartWithoutNodes \/ Abandon \/ Environment)

ServiceReconciles == ServiceStep(Service!ReconcileService)

ServiceSyncs == ServiceStep(Service!SyncService)

ServiceDisturbed ==
    ServiceStep(\/ Service!AbandonReconcile
                \/ \E t \in Nodes : Service!PodFails(t))

PodStarts(n) == ServiceStep(Service!PodStarts(n))

KubernetesWorks ==
    \/ ServiceStep(Service!Rollout \/ Service!Collection)
    \/ \E n \in Nodes \ Displaced : PodStarts(n)

SystemInit ==
    /\ Init
    /\ uid = 0
    /\ phase = ""
    /\ object = [k \in Service!Kinds |-> Service!Absent]
    /\ dep = Service!NoDeployment
    /\ pods = Service!NoPods
    /\ seen = Service!NoService
    /\ step = "idle"
    /\ handed = Service!NoService
    /\ applied = 0
    /\ listed = {}
    /\ failures = 0

SystemNext ==
    \/ FleetReconciles
    \/ FleetSyncs
    \/ FleetDisturbed
    \/ ServiceReconciles
    \/ ServiceSyncs
    \/ ServiceDisturbed
    \/ KubernetesWorks
    \/ \E n \in Displaced : PodStarts(n)

(***************************************************************************)
(* The fairness of both controllers and of Kubernetes.  A pod started on a *)
(* node that is not on its way out becomes ready.                          *)
(***************************************************************************)
SystemFairness ==
    /\ WF_systemVars(FleetReconciles)
    /\ WF_systemVars(FleetSyncs)
    /\ WF_systemVars(ServiceReconciles)
    /\ WF_systemVars(ServiceSyncs)
    /\ WF_systemVars(KubernetesWorks)

SystemSpec == SystemInit /\ [][SystemNext]_systemVars /\ SystemFairness

-----------------------------------------------------------------------------
(***************************************************************************)
(* Properties.                                                             *)
(***************************************************************************)
(***************************************************************************)
(* A move never takes the last ready pod of a child: the old one serves    *)
(* until the replacement does (ADR-0005 decision 5, main.rs:348-363,       *)
(* fleet_controller.rs:742-747), through either controller's faults.       *)
(***************************************************************************)
MoveKeepsServing ==
    [][(/\ child[0] # NoNode /\ child'[0] # NoNode
        /\ object["Deployment"].owner = uid
        /\ failures' = failures
        /\ Service!ReadyPods > 0) => (Service!ReadyPods > 0)']_systemVars

(***************************************************************************)
(* While no pod has failed and the child is the first, a fleet that says   *)
(* its replica is Ready is served by a pod, if only by the one of the node *)
(* it left: the readiness reaches the status through three caches and two  *)
(* statuses, each of them old (main.rs:568-588, fleet_controller.rs:513).  *)
(***************************************************************************)
ReadyIsServed ==
    (failures = 0 /\ uid = 1 /\ child[0] # NoNode
        /\ fleet.status.placements[0].phase = "Ready") => Service!ReadyPods > 0

(***************************************************************************)
(* In the end a wanted replica with somewhere to go has one pod, ready, on *)
(* a node that is not displaced, and the fleet says so: no hold, no old    *)
(* phase and no interrupted write of either controller lasts.              *)
(***************************************************************************)
ServedInTheEnd ==
    <>[]((fleet.supported /\ InRange(fleet) # {} /\ Survivors # {}) =>
            /\ child[0] \notin Displaced \cup {NoNode}
            /\ Service!AllPods = 1
            /\ pods[child[0]].ready = 1
            /\ fleet.status.placements[0].node = child[0]
            /\ fleet.status.placements[0].phase = "Ready"
            /\ fleet.status.phase = "Ready")
=============================================================================
