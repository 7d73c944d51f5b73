-------------------------- MODULE FleetSystemProofs --------------------------
(***************************************************************************)
(* The two controllers together, proved for every set of nodes, every cap  *)
(* and any number of faults, events and failures of pods: a move leaves no *)
(* replica without a pod, and a fleet is not told of a readiness that is   *)
(* gone.                                                                   *)
(***************************************************************************)
EXTENDS FleetSystem, FleetControllerProofs, SumLemmas

-----------------------------------------------------------------------------
(***************************************************************************)
(* Pods.                                                                   *)
(***************************************************************************)
PodCount == [MaybeNode -> [starting : Nat, ready : Nat]]

Ready == SumFunction([t \in MaybeNode |-> pods[t].ready])

Deployed == object["Deployment"]

\* The instance adds as this module does.
LEMMA SameSum ==
    ASSUME NEW f
    PROVE  Service!SumFunction(f) = SumFunction(f)
  BY DEF Service!SumFunction, Service!SumFunctionOnSet, Service!FoldFunctionOnSet,
         Service!MapThenFoldSet, SumFunction, SumFunctionOnSet, FoldFunctionOnSet,
         MapThenFoldSet

LEMMA ReadyIs == Service!ReadyPods = Ready
  BY SameSum DEF Service!ReadyPods, Service!Templates, Ready, MaybeNode

LEMMA TemplatesFinite == IsFiniteSet(MaybeNode)
  BY ConstantsAssumption, FS_AddElement DEF MaybeNode

LEMMA ReadyCounts ==
    ASSUME pods \in PodCount
    PROVE  /\ Ready \in Nat
           /\ \A t \in MaybeNode : /\ pods[t].ready \in Nat
                                   /\ pods[t].starting \in Nat
                                   /\ pods[t].ready <= Ready
<1> DEFINE r == [t \in MaybeNode |-> pods[t].ready]
<1>1. \A t \in MaybeNode : pods[t].ready \in Nat /\ pods[t].starting \in Nat
  BY DEF PodCount
<1>2. r \in [MaybeNode -> Nat] /\ (\A t \in MaybeNode : r[t] = pods[t].ready)
  BY <1>1
<1>3. Ready = SumFunction(r)
  BY DEF Ready
<1> HIDE DEF r
<1>4. SumFunction(r) \in Nat /\ \A t \in MaybeNode : r[t] <= SumFunction(r)
  BY <1>2, TemplatesFinite, SumOfNaturals
<1> QED
  BY <1>1, <1>2, <1>3, <1>4

\* The pods of one template change: the ready ones change by as many.
LEMMA ReadyMoves ==
    ASSUME pods \in PodCount, pods' \in PodCount, NEW t \in MaybeNode,
           \A u \in MaybeNode \ {t} : pods'[u].ready = pods[u].ready
    PROVE  Ready' = Ready + (pods'[t].ready - pods[t].ready)
<1> DEFINE r == [u \in MaybeNode |-> pods[u].ready]
           s == [u \in MaybeNode |-> pods'[u].ready]
<1>1. /\ r \in [MaybeNode -> Int] /\ s \in [MaybeNode -> Int]
      /\ \A u \in MaybeNode \ {t} : s[u] = r[u]
      /\ r[t] = pods[t].ready /\ s[t] = pods'[t].ready
  BY DEF PodCount
<1>2. Ready = SumFunction(r) /\ Ready' = SumFunction(s)
  BY DEF Ready
<1> HIDE DEF r, s
<1> QED
  BY <1>1, <1>2, TemplatesFinite, SumChangesByOne

-----------------------------------------------------------------------------
(***************************************************************************)
(* The invariant.                                                          *)
(***************************************************************************)
SystemTypes ==
    /\ TypeOK
    /\ {uid, failures, applied} \subseteq Nat
    /\ object \in [{"Deployment", "Service"} -> [live : BOOLEAN, owner : Nat]]
    /\ dep \in [pin : MaybeNode, replicas : Nat, ready : Nat]
    /\ pods \in PodCount

\* Before the first child there is nothing below it and no word of it above.
Blank ==
    uid = 0 => /\ child[0] = NoNode
               /\ phase = ""
               /\ ~seen.exists
               /\ step = "idle"
               /\ ~object["Deployment"].live
               /\ ~object["Service"].live
               /\ dep.ready = 0
               /\ applied = 0
               /\ \A t \in MaybeNode : pods[t].starting = 0 /\ pods[t].ready = 0
               /\ listed = {}
               /\ fleet.status.placements[0].phase # "Ready"

\* What the caches, the reconcile and the Deployment hold comes from a child
\* that existed, and a child of a fleet wants one pod.
Descent ==
    /\ seen.exists => /\ seen.replicas = 1
                      /\ seen.uid \in 1 .. uid
                      /\ seen.pin \in MaybeNode
    /\ step # "idle" => handed.replicas = 1 /\ handed.uid \in 1 .. uid
    /\ Deployed.live => dep.replicas = 1 /\ Deployed.owner \in 1 .. uid

\* Somebody was told that the first child has a ready pod.
Told ==
    \/ dep.ready > 0
    \/ applied > 0
    \/ phase = "Ready"
    \/ listed # {}
    \/ fleet.status.placements[0].phase = "Ready"

FirstChild == uid = 1 /\ failures = 0 /\ child[0] # NoNode

\* Whoever was told, there is still one.
Backed == (FirstChild /\ Told) => Ready > 0

ServedInv == SystemTypes /\ Blank /\ Descent /\ Backed

LEMMA OneSlot == Slots = {0}
  BY OneReplica DEF Slots

LEMMA NobodyToldReady ==
    \A r \in ReplicaChoices : NewFleet(r).status.placements[0].phase # "Ready"
  BY OneSlot DEF NewFleet, NoPlacement

LEMMA SystemStarts == SystemInit => ServedInv
<1> SUFFICES ASSUME SystemInit PROVE ServedInv
  OBVIOUS
<1>1. TypeOK
  BY InitType DEF SystemInit
<1>2. pods \in PodCount /\ \A t \in MaybeNode : pods[t].starting = 0 /\ pods[t].ready = 0
  BY DEF SystemInit, Service!NoPods, Service!Templates, PodCount, MaybeNode
<1>3. /\ object \in [{"Deployment", "Service"} -> [live : BOOLEAN, owner : Nat]]
      /\ ~object["Deployment"].live /\ ~object["Service"].live
  BY DEF SystemInit, Service!Kinds, Service!Absent
<1>4. dep \in [pin : MaybeNode, replicas : Nat, ready : Nat] /\ dep.ready = 0
  BY DEF SystemInit, Service!NoDeployment, MaybeNode
<1>5. child[0] = NoNode /\ fleet.status.placements[0].phase # "Ready"
  BY OneSlot, NobodyToldReady DEF SystemInit, Init, NoPins
<1>6. /\ uid = 0 /\ failures = 0 /\ applied = 0 /\ phase = "" /\ listed = {}
      /\ step = "idle" /\ ~seen.exists
  BY DEF SystemInit, Service!NoService
<1> QED
  BY <1>1, <1>2, <1>3, <1>4, <1>5, <1>6
     DEF ServedInv, SystemTypes, Blank, Descent, Backed, FirstChild, Deployed

-----------------------------------------------------------------------------
(***************************************************************************)
(* A step of the fleet controller.                                         *)
(***************************************************************************)
FleetActs == FleetReconciles \/ FleetSyncs \/ FleetDisturbed

LEMMA FleetActsAre ==
    ASSUME FleetActs
    PROVE  /\ Next
           /\ Completes => fleet'.status = NewStatus(listed)
           /\ listed' = IF pc' # "act" THEN {}
                        ELSE IF pc = "idle" THEN ReportsReady ELSE listed
           /\ ChildSeenBelow
           /\ UNCHANGED <<belowVars, failures>>
  BY DEF FleetActs, FleetReconciles, FleetSyncs, FleetDisturbed, FleetStep, Next

\* A child appears in the middle of a reconcile, and only the status write that
\* completes one changes the placements.
LEMMA FleetEffects ==
    ASSUME TypeOK, Next
    PROVE  /\ child'[0] \notin {NoNode, child[0]} =>
                /\ pc = "act" /\ pc' = "act"
                /\ fleet' = fleet
           /\ Completes \/ fleet'.status.placements = fleet.status.placements
<1> USE DEF clusterVars, reconcileVars, planVars
<1>0. fleet \in FleetObject /\ child \in [Slots -> MaybeNode]
  BY DEF TypeOK
<1>2. CASE Start \/ StartWithoutNodes \/ Sync \/ Abandon
  <2>1. fleet' = fleet /\ child' = child
    BY <1>2 DEF Start, StartUnsupported, StartPlanning, StartWithoutNodes, Sync, Abandon
  <2> QED
    BY <2>1
<1>3. ASSUME NEW i \in Slots, ApplyChild(i) \/ RemoveChild(i)
      PROVE  pc = "act" /\ pc' = "act" /\ fleet' = fleet
  BY <1>3 DEF ApplyChild, RemoveChild
<1>4. CASE WriteStatus
  <2>1. Completes /\ child' = child
    BY <1>4 DEF WriteStatus, ForgetLocals, Completes
  <2> QED
    BY <2>1
<1>5. CASE WriteMessage
  <2>1. fleet'.status.placements = fleet.status.placements
    BY <1>0, <1>5 DEF WriteMessage, FleetObject, FleetStatus
  <2>2. child' = child
    BY <1>5 DEF WriteMessage
  <2> QED
    BY <2>1, <2>2
<1>6. CASE Environment
  <2>1. child' = child \/ \E i \in Slots : child' = [child EXCEPT ![i] = NoNode]
    BY <1>6 DEF Environment, Report, Unreport, Notice, ClearNotice, Cordon, Uncordon,
                Scale, ChangeStrategy, LoseChild
  <2>2. child'[0] \in {NoNode, child[0]}
    BY <1>0, <2>1, OneSlot
  <2>3. fleet'.status.placements = fleet.status.placements
    BY <1>0, <1>6 DEF Environment, Report, Unreport, Notice, ClearNotice, Cordon,
                      Uncordon, Scale, ChangeStrategy, LoseChild, FleetObject
  <2> QED
    BY <2>2, <2>3
<1> QED
  BY <1>2, <1>3, <1>4, <1>5, <1>6 DEF Next, Reconcile

\* A placement is reported Ready only if its child was.
LEMMA ReadyIsHeard ==
    ASSUME NEW heard, NewStatus(heard).placements[0].phase = "Ready"
    PROVE  heard # {}
<1>1. NewStatus(heard).placements[0] = NewPlacement(0, heard)
  BY OneSlot DEF NewStatus
<1>2. 0 \in heard
  BY <1>1 DEF NewPlacement, NoPlacement, PlacementPhaseFor
<1> QED
  BY <1>2

LEMMA FleetKeepsInv == ServedInv /\ FleetActs => ServedInv'
<1> SUFFICES ASSUME ServedInv, FleetActs PROVE ServedInv'
  OBVIOUS
<1>1. SystemTypes /\ Blank /\ Descent /\ Backed /\ TypeOK /\ uid \in Nat
  BY DEF ServedInv, SystemTypes
<1>2. /\ Next
      /\ Completes => fleet'.status = NewStatus(listed)
      /\ listed' = IF pc' # "act" THEN {}
                   ELSE IF pc = "idle" THEN ReportsReady ELSE listed
      /\ ChildSeenBelow
      /\ UNCHANGED <<object, dep, pods, seen, step, handed, applied, failures>>
  BY FleetActsAre DEF belowVars
<1>3. TypeOK'
  BY <1>1, <1>2, NextType
<1>4. /\ child'[0] \notin {NoNode, child[0]} =>
           pc = "act" /\ pc' = "act" /\ fleet' = fleet
      /\ Completes \/ fleet'.status.placements = fleet.status.placements
  BY <1>1, <1>2, FleetEffects
\* A child that is born is a new one; otherwise it and its phase stay.
<1>5. uid' \in Nat /\ uid <= uid'
  <2>1. uid \in Nat /\ uid' \in {uid, uid + 1}
    BY <1>1, <1>2 DEF ChildSeenBelow
  <2> QED
    BY <2>1
<1>6. CASE child[0] = NoNode /\ child'[0] # NoNode
  <2>1. /\ uid' = uid + 1 /\ phase' = ""
        /\ fleet' = fleet /\ listed' = listed
    BY <1>2, <1>4, <1>6 DEF ChildSeenBelow
  <2>2. SystemTypes'
    BY <1>1, <1>2, <1>3, <1>5 DEF SystemTypes
  <2>3. uid \in Nat /\ uid' = uid + 1
    BY <1>1, <2>1
  <2>6. uid' # 0
    BY <2>3
  <2>4. Descent'
    <3>1. \A n \in 1 .. uid : n \in 1 .. uid'
      BY <2>3
    <3> QED
      BY <1>1, <1>2, <3>1 DEF Descent, Deployed
  <2>5. (FirstChild /\ Told => Ready > 0)'
    <3>1. CASE uid' = 1
      <4>1. uid = 0
        BY <2>3, <3>1
      <4>2. /\ dep.ready = 0 /\ applied = 0 /\ listed = {}
            /\ fleet.status.placements[0].phase # "Ready"
        BY <1>1, <4>1 DEF Blank
      <4>3. ~Told'
        <5>1. ~(dep.ready > 0) /\ ~(applied > 0)
          BY <4>2
        <5> QED
          BY <1>2, <2>1, <4>2, <5>1 DEF Told
      <4> QED
        BY <4>3
    <3> QED
      BY <3>1 DEF FirstChild
  <2> QED
    BY <2>2, <2>6, <2>4, <2>5 DEF ServedInv, Blank, Backed
<1>7. CASE ~(child[0] = NoNode /\ child'[0] # NoNode)
  <2>1. /\ uid' = uid
        /\ phase' = IF child'[0] = NoNode THEN "" ELSE phase
    BY <1>2, <1>7 DEF ChildSeenBelow
  <2>2. SystemTypes'
    BY <1>1, <1>2, <1>3, <1>5 DEF SystemTypes
  <2>3. Descent'
    BY <1>1, <1>2, <2>1 DEF Descent, Deployed
  <2>4. ReportsReady # {} => phase = "Ready" /\ child[0] # NoNode
    BY OneSlot DEF ReportsReady, Pinned
  <2>5. listed' # {} => listed # {} \/ (phase = "Ready" /\ child[0] # NoNode)
    BY <1>2, <2>4
  <2>6. fleet'.status.placements[0].phase = "Ready" =>
           listed # {} \/ fleet.status.placements[0].phase = "Ready"
    <3>1. CASE Completes
      BY <1>2, <3>1, ReadyIsHeard
    <3> QED
      BY <1>4, <3>1
  <2>7. Blank'
    BY <1>1, <1>2, <1>7, <2>1, <2>5, <2>6 DEF Blank
  <2>8. Ready' = Ready
    BY <1>2 DEF Ready
  <2>9. FirstChild' /\ Told' => FirstChild /\ Told
    BY <1>2, <1>7, <2>1, <2>5, <2>6 DEF FirstChild, Told
  <2>10. Backed'
    BY <1>1, <2>8, <2>9 DEF Backed
  <2> QED
    BY <2>2, <2>3, <2>7, <2>10 DEF ServedInv
<1> QED
  BY <1>6, <1>7

-----------------------------------------------------------------------------
(***************************************************************************)
(* A step below the fleet.                                                 *)
(***************************************************************************)
ServiceActs ==
    \/ Service!ReconcileService
    \/ Service!SyncService
    \/ Service!AbandonReconcile
    \/ \E t \in Nodes : Service!PodFails(t) \/ Service!PodStarts(t)
    \/ Service!Rollout
    \/ Service!Collection

AboveStays ==
    UNCHANGED <<fleet, clusterVars, cached, reconcileVars, events, uid, listed>>

LEMMA SystemActs ==
    ASSUME TypeOK, SystemNext
    PROVE  FleetActs \/ (ServiceActs /\ AboveStays)
<1>1. Displaced \subseteq Nodes
  BY DEF TypeOK, Displaced
<1>2. CASE FleetReconciles \/ FleetSyncs \/ FleetDisturbed
  BY <1>2 DEF FleetActs
<1>3. CASE ServiceReconciles \/ ServiceSyncs \/ ServiceDisturbed
  BY <1>3 DEF ServiceReconciles, ServiceSyncs, ServiceDisturbed, ServiceStep,
              ServiceActs, AboveStays
<1>4. CASE KubernetesWorks
  BY <1>4 DEF KubernetesWorks, PodStarts, ServiceStep, ServiceActs, AboveStays
<1>5. CASE \E n \in Displaced : PodStarts(n)
  BY <1>1, <1>5 DEF PodStarts, ServiceStep, ServiceActs, AboveStays
<1> QED
  BY <1>2, <1>3, <1>4, <1>5 DEF SystemNext

\* Which pods a step changes, and how many ready ones are left.
LEMMA PodsServe ==
    ASSUME SystemTypes, Descent, pods' \in PodCount, ServiceActs, AboveStays,
           failures' = failures, child[0] # NoNode,
           Deployed.live => Deployed.owner = uid,
           Ready > 0
    PROVE  Ready' > 0
<1>1. /\ pods \in PodCount /\ dep.replicas \in Nat /\ failures \in Nat /\ Ready \in Nat
      /\ dep.pin \in MaybeNode
      /\ \A t \in MaybeNode : /\ pods[t].ready \in Nat
                              /\ pods[t].starting \in Nat
                              /\ pods[t].ready <= Ready
  BY ReadyCounts DEF SystemTypes
<1>2. ASSUME \A t \in MaybeNode : pods'[t].ready = pods[t].ready
      PROVE  Ready' > 0
  <2>1. [t \in MaybeNode |-> pods'[t].ready] = [t \in MaybeNode |-> pods[t].ready]
    BY <1>2
  <2>2. Ready' = Ready
    BY <2>1 DEF Ready
  <2> QED
    BY <2>2
<1>3. CASE Service!ReconcileService \/ Service!SyncService \/ Service!AbandonReconcile
             \/ Service!ReportReady
  <2>1. pods' = pods
    BY <1>3 DEF Service!ReconcileService, Service!ApplyDeployment, Service!ApplyService,
                Service!ApplyNetworkPolicy, Service!WriteServiceStatus,
                Service!SyncService, Service!AbandonReconcile, Service!ReportReady,
                Service!cluster
  <2> QED
    BY <1>2, <2>1
<1>4. ASSUME NEW t \in Nodes, Service!PodFails(t) PROVE FALSE
  BY <1>1, <1>4 DEF Service!PodFails, Service!Incident
<1>5. ASSUME NEW t \in Nodes, Service!PodStarts(t) PROVE Ready' > 0
  <2>1. t \in MaybeNode /\ pods[t].ready \in Nat
    BY <1>1 DEF MaybeNode
  <2>2. /\ \A u \in MaybeNode \ {t} : pods'[u].ready = pods[u].ready
        /\ pods'[t].ready = pods[t].ready + 1
    BY <1>1, <1>5, <2>1 DEF Service!PodStarts, PodCount
  <2>3. Ready' = Ready + ((pods[t].ready + 1) - pods[t].ready)
    BY <1>1, <2>1, <2>2, ReadyMoves
  <2> QED
    BY <1>1, <2>1, <2>3
<1>6. CASE Service!SurgeUp
  <2>1. \A t \in MaybeNode : pods'[t].ready = pods[t].ready
    BY <1>1, <1>6 DEF Service!SurgeUp, PodCount
  <2> QED
    BY <1>2, <2>1
<1>7. ASSUME NEW t \in Service!Templates, Service!ScaleDown(t) PROVE Ready' > 0
  <2>1. t \in MaybeNode /\ dep.replicas = 1 /\ Service!ReadyPods = Ready
    BY <1>7, ReadyIs DEF Service!Templates, MaybeNode, Service!ScaleDown,
                         Service!Serving, Descent, Deployed
  <2>2. CASE pods[t].starting > 0
    <3>1. \A u \in MaybeNode : pods'[u].ready = pods[u].ready
      BY <1>1, <1>7, <2>1, <2>2 DEF Service!ScaleDown, PodCount
    <3> QED
      BY <1>2, <3>1
  <2>3. CASE ~(pods[t].starting > 0)
    <3>1. pods[t].starting = 0
      BY <1>1, <2>1, <2>3
    <3>2. pods[t].ready > 1 \/ Ready > 1
      BY <1>1, <1>7, <2>1, <3>1 DEF Service!ScaleDown, Service!PodsOf,
                                    Service!MaxUnavailable
    <3>3. /\ \A u \in MaybeNode \ {t} : pods'[u].ready = pods[u].ready
          /\ pods'[t].ready = pods[t].ready - 1
      BY <1>1, <1>7, <2>1, <2>3 DEF Service!ScaleDown, PodCount
    <3>4. Ready' = Ready + ((pods[t].ready - 1) - pods[t].ready)
      BY <1>1, <2>1, <3>3, ReadyMoves
    <3> QED
      BY <1>1, <2>1, <3>2, <3>4
  <2> QED
    BY <2>2, <2>3
<1>8. ASSUME NEW kind \in Service!Kinds, Service!Collect(kind) PROVE Ready' > 0
  <2>1. kind # "Deployment"
    BY <1>8 DEF Service!Collect, Service!Erase, Deployed
  <2>2. pods' = pods
    BY <1>8, <2>1 DEF Service!Collect, Service!Erase
  <2> QED
    BY <1>2, <2>2
<1> QED
  BY <1>3, <1>4, <1>5, <1>6, <1>7, <1>8
     DEF ServiceActs, Service!Rollout, Service!Collection

\* Before the first child only the cache has something to do, and nothing to show.
LEMMA QuietAtFirst ==
    ASSUME Blank, uid = 0, ServiceActs
    PROVE  Service!SyncService /\ Service!Stored = Service!NoService
<1>1. /\ child[0] = NoNode /\ ~seen.exists /\ step = "idle"
      /\ ~object["Deployment"].live /\ ~object["Service"].live
      /\ \A t \in MaybeNode : pods[t].starting = 0 /\ pods[t].ready = 0
  BY DEF Blank
<1>2. Service!Stored = Service!NoService
  BY <1>1 DEF Service!Stored
<1>3. ~Service!ReconcileService /\ ~Service!AbandonReconcile
  BY <1>1 DEF Service!ReconcileService, Service!ApplyDeployment, Service!ApplyService,
              Service!ApplyNetworkPolicy, Service!WriteServiceStatus,
              Service!AbandonReconcile
<1>4. \A t \in Nodes : ~Service!PodFails(t) /\ ~Service!PodStarts(t)
  BY <1>1 DEF Service!PodFails, Service!PodStarts, MaybeNode
<1>5. ~Service!Rollout
  BY <1>1 DEF Service!Rollout, Service!SurgeUp, Service!ReportReady, Service!ScaleDown,
              Service!Serving
<1>6. ~Service!Collection
  BY <1>1 DEF Service!Collection, Service!Collect, Service!Erase, Service!Kinds
<1> QED
  BY <1>2, <1>3, <1>4, <1>5, <1>6 DEF ServiceActs

\* What a step below the fleet leaves as types and lineage ask for.
LEMMA ServiceTyped ==
    ASSUME SystemTypes, Blank, Descent, ServiceActs, AboveStays
    PROVE  SystemTypes' /\ Descent'
<1>0. /\ TypeOK /\ uid \in Nat /\ failures \in Nat /\ applied \in Nat
      /\ object \in [{"Deployment", "Service"} -> [live : BOOLEAN, owner : Nat]]
      /\ dep \in [pin : MaybeNode, replicas : Nat, ready : Nat]
      /\ pods \in PodCount
      /\ faults \in Nat
      /\ \A t \in MaybeNode : pods[t].starting \in Nat /\ pods[t].ready \in Nat
  BY DEF SystemTypes, TypeOK, PodCount
<1>n. failures + 1 \in Nat /\ faults + 1 \in Nat
  <2>1. failures \in Nat /\ faults \in Nat
    BY <1>0
  <2> QED
    BY <2>1
<1>d. \A n \in 1 .. uid : n \in Nat
  BY <1>0
<1>s. ASSUME faults' \in Nat, failures' \in Nat, applied' \in Nat,
             object' \in [{"Deployment", "Service"} -> [live : BOOLEAN, owner : Nat]],
             dep' \in [pin : MaybeNode, replicas : Nat, ready : Nat],
             pods' \in PodCount
      PROVE  SystemTypes'
  <2>1. TypeOK'
    BY <1>0, <1>s DEF TypeOK, AboveStays, clusterVars, reconcileVars, planVars
  <2> QED
    BY <1>0, <1>s, <2>1 DEF SystemTypes, AboveStays
<1>t. ASSUME seen' = seen, step' = step \/ step' = "idle", step' # "idle" => handed' = handed,
             Deployed' = Deployed, dep'.replicas = dep.replicas
      PROVE  Descent'
  BY <1>t DEF Descent, AboveStays
<1>q. \A t \in MaybeNode, m \in Nat, n \in Nat :
         [pods EXCEPT ![t] = [starting |-> m, ready |-> n]] \in PodCount
  BY <1>0 DEF PodCount
<1>r. \A t \in MaybeNode, m \in Nat :
         /\ [pods EXCEPT ![t].starting = m] \in PodCount
         /\ [pods EXCEPT ![t].ready = m] \in PodCount
  BY <1>0 DEF PodCount
<1> USE DEF Service!service, Service!cluster, Service!locals
<1>1. CASE Service!ApplyDeployment
  <2>1. /\ seen.exists /\ seen.replicas = 1 /\ seen.uid \in 1 .. uid
        /\ seen.pin \in MaybeNode
    BY <1>1 DEF Service!ApplyDeployment, Descent
  <2>2. /\ handed' = seen /\ seen' = seen /\ pods' = pods
        /\ object' = [object EXCEPT !["Deployment"] = [live |-> TRUE, owner |-> seen.uid]]
        /\ dep' = [pin |-> seen.pin, replicas |-> seen.replicas, ready |-> dep.ready]
        /\ applied' = dep.ready /\ faults' = faults /\ failures' = failures
    BY <1>1 DEF Service!ApplyDeployment, Service!Applied, Service!OwnerRef
  <2>3. object' \in [{"Deployment", "Service"} -> [live : BOOLEAN, owner : Nat]]
    BY <1>0, <1>d, <2>1, <2>2
  <2>4. dep' \in [pin : MaybeNode, replicas : Nat, ready : Nat] /\ applied' \in Nat
    BY <1>0, <2>1, <2>2
  <2>5. SystemTypes'
    BY <1>0, <1>s, <2>2, <2>3, <2>4
  <2>6. Deployed'.owner = seen.uid /\ dep'.replicas = 1
    BY <1>0, <2>1, <2>2 DEF Deployed
  <2>7. Descent'
    BY <2>1, <2>2, <2>6 DEF Descent, AboveStays
  <2> QED
    BY <2>5, <2>7
<1>2. CASE Service!ApplyService \/ Service!ApplyNetworkPolicy
  <2>1. step # "idle" /\ handed.uid \in 1 .. uid
    BY <1>2 DEF Service!ApplyService, Service!ApplyNetworkPolicy, Descent
  <2>2. /\ seen' = seen /\ handed' = handed /\ dep' = dep /\ pods' = pods
        /\ applied' = applied /\ faults' = faults /\ failures' = failures
    BY <1>2 DEF Service!ApplyService, Service!ApplyNetworkPolicy
  <2>3. \E k \in {"Service", "NetworkPolicy"} :
           object' = [object EXCEPT ![k] = [live |-> TRUE, owner |-> handed.uid]]
    BY <1>2 DEF Service!ApplyService, Service!ApplyNetworkPolicy, Service!Applied,
                Service!OwnerRef
  <2>4. object' \in [{"Deployment", "Service"} -> [live : BOOLEAN, owner : Nat]]
    <3>1. handed.uid \in Nat
      BY <1>d, <2>1
    <3>2. [live |-> TRUE, owner |-> handed.uid] \in [live : BOOLEAN, owner : Nat]
      BY <3>1
    <3> QED
      BY <1>0, <2>3, <3>2
  <2>5. Deployed' = Deployed
    BY <1>0, <2>3 DEF Deployed
  <2>6. SystemTypes'
    BY <1>0, <1>s, <2>2, <2>4
  <2>7. Descent'
    BY <2>1, <2>2, <2>5 DEF Descent, AboveStays
  <2> QED
    BY <2>6, <2>7
<1>3. CASE Service!WriteServiceStatus \/ Service!AbandonReconcile
  <2>1. /\ step' = "idle" /\ applied' = 0 /\ seen' = seen
        /\ object' = object /\ dep' = dep /\ pods' = pods
        /\ failures' = failures /\ faults' \in {faults, faults + 1}
    BY <1>3 DEF Service!WriteServiceStatus, Service!AbandonReconcile,
                Service!ForgetReconcile
  <2>2. SystemTypes'
    BY <1>0, <1>n, <1>s, <2>1
  <2>3. Descent'
    BY <1>t, <2>1 DEF Deployed
  <2> QED
    BY <2>2, <2>3
<1>4. CASE Service!SyncService
  <2>1. /\ seen' = Service!Stored
        /\ step' = step /\ handed' = handed /\ applied' = applied
        /\ object' = object /\ dep' = dep /\ pods' = pods
        /\ failures' = failures /\ faults' = faults
    BY <1>4 DEF Service!SyncService
  <2>2. SystemTypes'
    BY <1>0, <1>s, <2>1
  <2>3. seen'.exists => /\ seen'.replicas = 1 /\ seen'.uid = uid
                        /\ seen'.pin = child[0] /\ child[0] # NoNode
    BY <2>1 DEF Service!Stored, Service!NoService
  <2>4. child[0] \in MaybeNode
    BY <1>0, OneSlot DEF TypeOK
  <2>5. child[0] # NoNode => uid \in 1 .. uid
    <3>1. uid \in Nat /\ (child[0] # NoNode => uid # 0)
      BY <1>0 DEF Blank
    <3> QED
      BY <3>1
  <2>6. Descent'
    BY <2>1, <2>3, <2>4, <2>5 DEF Descent, Deployed, AboveStays
  <2> QED
    BY <2>2, <2>6
<1>5. ASSUME NEW t \in Nodes, Service!PodFails(t) \/ Service!PodStarts(t)
      PROVE  SystemTypes' /\ Descent'
  <2>1. t \in MaybeNode /\ pods[t].starting \in Nat /\ pods[t].ready \in Nat
    BY <1>0 DEF MaybeNode
  <2>2. \/ /\ pods' = [pods EXCEPT ![t] = [starting |-> pods[t].starting + 1,
                                            ready |-> pods[t].ready - 1]]
           /\ pods[t].ready > 0
        \/ /\ pods' = [pods EXCEPT ![t] = [starting |-> pods[t].starting - 1,
                                            ready |-> pods[t].ready + 1]]
           /\ pods[t].starting > 0
    BY <1>5 DEF Service!PodFails, Service!PodStarts
  <2>3. /\ pods[t].ready > 0 => pods[t].starting + 1 \in Nat /\ pods[t].ready - 1 \in Nat
        /\ pods[t].starting > 0 => pods[t].starting - 1 \in Nat /\ pods[t].ready + 1 \in Nat
    BY <2>1
  <2>4. pods' \in PodCount
    BY <1>q, <2>1, <2>2, <2>3
  <2>5. /\ seen' = seen /\ step' = step /\ handed' = handed /\ applied' = applied
        /\ object' = object /\ dep' = dep
        /\ faults' = faults /\ failures' \in {failures, failures + 1}
    BY <1>5 DEF Service!PodFails, Service!PodStarts, Service!Incident
  <2>6. SystemTypes'
    BY <1>0, <1>n, <1>s, <2>4, <2>5
  <2>7. Descent'
    BY <1>t, <2>5 DEF Deployed
  <2> QED
    BY <2>6, <2>7
<1>6. CASE Service!SurgeUp \/ \E t \in Service!Templates : Service!ScaleDown(t)
  <2>1. /\ seen' = seen /\ step' = step /\ handed' = handed /\ applied' = applied
        /\ object' = object /\ dep' = dep
        /\ faults' = faults /\ failures' = failures
    BY <1>6 DEF Service!SurgeUp, Service!ScaleDown
  <2>2. pods' \in PodCount
    <3>1. CASE Service!SurgeUp
      <4>1. dep.pin \in MaybeNode
        BY <1>0
      <4>2. pods' = [pods EXCEPT ![dep.pin].starting = pods[dep.pin].starting + 1]
        BY <3>1 DEF Service!SurgeUp
      <4>3. pods[dep.pin].starting \in Nat
        BY <1>0, <4>1
      <4>4. pods[dep.pin].starting + 1 \in Nat
        BY <4>3
      <4> QED
        BY <1>r, <4>1, <4>2, <4>4
    <3>2. ASSUME NEW t \in Service!Templates, Service!ScaleDown(t)
          PROVE  pods' \in PodCount
      <4>1. t \in MaybeNode /\ pods[t].starting \in Nat /\ pods[t].ready \in Nat
        BY <1>0 DEF Service!Templates, MaybeNode
      <4>2. CASE pods[t].starting > 0
        <5>1. pods' = [pods EXCEPT ![t].starting = pods[t].starting - 1]
          BY <3>2, <4>2 DEF Service!ScaleDown
        <5>2. pods[t].starting - 1 \in Nat
          BY <4>1, <4>2
        <5> QED
          BY <1>r, <4>1, <5>1, <5>2
      <4>3. CASE ~(pods[t].starting > 0)
        <5>1. pods' = [pods EXCEPT ![t].ready = pods[t].ready - 1]
          BY <3>2, <4>3 DEF Service!ScaleDown
        <5>2. pods[t].starting + pods[t].ready > 0
          BY <3>2 DEF Service!ScaleDown, Service!PodsOf
        <5>3. pods[t].ready - 1 \in Nat
          BY <4>1, <4>3, <5>2
        <5> QED
          BY <1>r, <4>1, <5>1, <5>3
      <4> QED
        BY <4>2, <4>3
    <3> QED
      BY <1>6, <3>1, <3>2
  <2>3. SystemTypes'
    BY <1>0, <1>s, <2>1, <2>2
  <2>4. Descent'
    BY <1>t, <2>1 DEF Deployed
  <2> QED
    BY <2>3, <2>4
<1>7. CASE Service!ReportReady
  <2>1. /\ dep' = [dep EXCEPT !.ready = Ready]
        /\ seen' = seen /\ step' = step /\ handed' = handed /\ applied' = applied
        /\ object' = object /\ pods' = pods
        /\ faults' = faults /\ failures' = failures
    BY <1>7, ReadyIs DEF Service!ReportReady
  <2>2. /\ dep' \in [pin : MaybeNode, replicas : Nat, ready : Nat]
        /\ dep'.replicas = dep.replicas
    BY <1>0, <2>1, ReadyCounts
  <2>3. SystemTypes'
    BY <1>0, <1>s, <2>1, <2>2
  <2>4. Descent'
    BY <1>t, <2>1, <2>2 DEF Deployed
  <2> QED
    BY <2>3, <2>4
<1>8. ASSUME NEW kind \in Service!Kinds, Service!Collect(kind)
      PROVE  SystemTypes' /\ Descent'
  <2>1. /\ object' = [object EXCEPT ![kind] = [live |-> FALSE, owner |-> 0]]
        /\ dep' = IF kind = "Deployment"
                  THEN [pin |-> NoNode, replicas |-> 0, ready |-> 0] ELSE dep
        /\ pods' = IF kind = "Deployment"
                   THEN [t \in MaybeNode |-> [starting |-> 0, ready |-> 0]] ELSE pods
        /\ seen' = seen /\ step' = step /\ handed' = handed /\ applied' = applied
        /\ faults' = faults /\ failures' = failures
    BY <1>8 DEF Service!Collect, Service!Erase, Service!Absent, Service!NoDeployment,
                Service!NoPods, Service!Templates, MaybeNode
  <2>2. kind \in {"Deployment", "Service"}
    BY DEF Service!Kinds
  <2>3. object' \in [{"Deployment", "Service"} -> [live : BOOLEAN, owner : Nat]]
    BY <1>0, <2>1, <2>2
  <2>4. /\ dep' \in [pin : MaybeNode, replicas : Nat, ready : Nat]
        /\ pods' \in PodCount
    BY <1>0, <2>1 DEF PodCount, MaybeNode
  <2>5. SystemTypes'
    BY <1>0, <1>s, <2>1, <2>3, <2>4
  <2>6. CASE kind = "Deployment"
    <3>1. ~Deployed'.live
      BY <1>0, <2>1, <2>6 DEF Deployed
    <3> QED
      BY <2>1, <2>5, <3>1 DEF Descent, AboveStays
  <2>7. CASE kind # "Deployment"
    <3>1. Deployed' = Deployed /\ dep' = dep
      BY <1>0, <2>1, <2>7 DEF Deployed
    <3> QED
      BY <1>t, <2>1, <2>5, <3>1
  <2> QED
    BY <2>6, <2>7
<1> QED
  BY <1>1, <1>2, <1>3, <1>4, <1>5, <1>6, <1>7, <1>8
     DEF ServiceActs, Service!ReconcileService, Service!Rollout, Service!Collection

\* Nobody is told of a ready pod without there being one.
LEMMA OnlyTheReadyAreTold ==
    ASSUME SystemTypes, ServiceActs, AboveStays, FirstChild', Told'
    PROVE  FirstChild /\ failures' = failures /\ (Told \/ Ready > 0)
<1>1. failures \in Nat /\ applied \in Nat /\ Ready \in Nat
  BY ReadyCounts DEF SystemTypes
<1>2. failures' \in {failures, failures + 1}
  BY DEF ServiceActs, Service!ReconcileService, Service!ApplyDeployment,
         Service!ApplyService, Service!ApplyNetworkPolicy, Service!WriteServiceStatus,
         Service!SyncService, Service!AbandonReconcile, Service!PodFails,
         Service!PodStarts, Service!Rollout, Service!SurgeUp, Service!ReportReady,
         Service!ScaleDown, Service!Collection, Service!Collect, Service!Incident
<1>3. FirstChild /\ failures' = failures
  BY <1>1, <1>2 DEF FirstChild, AboveStays, clusterVars
<1> USE DEF Service!cluster, Service!locals
<1>4. phase' = "Ready" => phase = "Ready" \/ applied > 0
  <2>1. phase' = phase \/ phase' = Service!PhaseFor(handed.replicas, applied)
    BY DEF ServiceActs, Service!ReconcileService, Service!ApplyDeployment,
           Service!ApplyService, Service!ApplyNetworkPolicy,
           Service!WriteServiceStatus, Service!SyncService, Service!AbandonReconcile,
           Service!PodFails, Service!PodStarts, Service!Rollout, Service!SurgeUp,
           Service!ReportReady, Service!ScaleDown, Service!Collection,
           Service!Collect, Service!Erase
  <2>2. Service!PhaseFor(handed.replicas, applied) = "Ready" => applied # 0
    BY DEF Service!PhaseFor
  <2>3. applied # 0 => applied > 0
    BY <1>1
  <2> QED
    BY <2>1, <2>2, <2>3
<1>5. applied' \in {applied, dep.ready, 0}
  BY DEF ServiceActs, Service!ReconcileService, Service!ApplyDeployment,
         Service!ApplyService, Service!ApplyNetworkPolicy, Service!WriteServiceStatus,
         Service!SyncService, Service!AbandonReconcile, Service!ForgetReconcile,
         Service!PodFails, Service!PodStarts, Service!Rollout, Service!SurgeUp,
         Service!ReportReady, Service!ScaleDown, Service!Collection,
         Service!Collect, Service!Erase, Service!Incident
<1>6. dep'.ready \in {dep.ready, 0, Ready}
  <2>1. dep \in [pin : MaybeNode, replicas : Nat, ready : Nat]
    BY DEF SystemTypes
  <2>2. CASE Service!ApplyDeployment
    BY <2>2 DEF Service!ApplyDeployment
  <2>3. CASE Service!ReportReady
    BY <2>1, <2>3, ReadyIs DEF Service!ReportReady
  <2>4. CASE Service!Collection
    BY <2>4 DEF Service!Collection, Service!Collect, Service!Erase,
                Service!NoDeployment
  <2>5. CASE ~(Service!ApplyDeployment \/ Service!ReportReady \/ Service!Collection)
    <3>1. dep' = dep
      BY <2>5 DEF ServiceActs, Service!ReconcileService, Service!ApplyService,
                  Service!ApplyNetworkPolicy, Service!WriteServiceStatus,
                  Service!SyncService, Service!AbandonReconcile, Service!PodFails,
                  Service!PodStarts, Service!Rollout, Service!SurgeUp, Service!ScaleDown
    <3> QED
      BY <3>1
  <2> QED
    BY <2>2, <2>3, <2>4, <2>5
<1>7. /\ listed' = listed
      /\ fleet'.status.placements[0].phase = fleet.status.placements[0].phase
  BY DEF AboveStays
<1>8. CASE dep'.ready > 0
  BY <1>1, <1>3, <1>6, <1>8 DEF Told
<1>9. CASE applied' > 0
  BY <1>1, <1>3, <1>5, <1>9 DEF Told
<1>10. CASE phase' = "Ready"
  BY <1>3, <1>4, <1>10 DEF Told
<1>11. CASE listed' # {} \/ fleet'.status.placements[0].phase = "Ready"
  BY <1>3, <1>7, <1>11 DEF Told
<1> QED
  BY <1>8, <1>9, <1>10, <1>11 DEF Told

LEMMA ServiceKeepsInv == ServedInv /\ ServiceActs /\ AboveStays => ServedInv'
<1> SUFFICES ASSUME ServedInv, ServiceActs, AboveStays PROVE ServedInv'
  OBVIOUS
<1>1. SystemTypes /\ Blank /\ Descent /\ Backed
  BY DEF ServedInv
<1>2. SystemTypes' /\ Descent'
  BY <1>1, ServiceTyped
<1>3. Blank'
  <2>1. CASE uid = 0
    <3>1. Service!SyncService /\ Service!Stored = Service!NoService
      BY <1>1, <2>1, QuietAtFirst
    <3>2. /\ ~seen'.exists
          /\ UNCHANGED <<phase, object, dep, pods, step, applied>>
      BY <3>1 DEF Service!SyncService, Service!NoService, Service!cluster,
                  Service!locals
    <3> QED
      BY <1>1, <2>1, <3>2 DEF Blank, AboveStays, clusterVars
  <2> QED
    BY <2>1 DEF Blank, AboveStays
<1>4. ASSUME FirstChild', Told' PROVE Ready' > 0
  <2>1. FirstChild /\ failures' = failures /\ (Told \/ Ready > 0)
    BY <1>1, <1>4, OnlyTheReadyAreTold
  <2>2. Ready > 0
    BY <1>1, <2>1 DEF Backed
  <2>3. Deployed.live => Deployed.owner = uid
    <3>1. uid = 1
      BY <2>1 DEF FirstChild
    <3>2. \A n \in 1 .. 1 : n = 1
      OBVIOUS
    <3> QED
      BY <1>1, <3>1, <3>2 DEF Descent
  <2>4. pods' \in PodCount /\ child[0] # NoNode
    BY <1>2, <2>1 DEF SystemTypes, FirstChild
  <2> QED
    BY <1>1, <2>1, <2>2, <2>3, <2>4, PodsServe
<1> QED
  BY <1>2, <1>3, <1>4 DEF ServedInv, Backed

LEMMA SystemKeepsInv == ServedInv /\ [SystemNext]_systemVars => ServedInv'
<1> SUFFICES ASSUME ServedInv, [SystemNext]_systemVars PROVE ServedInv'
  OBVIOUS
<1>1. CASE SystemNext
  <2>1. FleetActs \/ (ServiceActs /\ AboveStays)
    BY <1>1, SystemActs DEF ServedInv, SystemTypes
  <2> QED
    BY <2>1, FleetKeepsInv, ServiceKeepsInv
<1>2. CASE UNCHANGED systemVars
  BY <1>2 DEF systemVars, vars, clusterVars, planVars, reconcileVars, childVars,
              belowVars, ServedInv, SystemTypes, TypeOK, Blank, Descent, Backed,
              FirstChild, Told, Deployed, Ready
<1> QED
  BY <1>1, <1>2

-----------------------------------------------------------------------------
(***************************************************************************)
(* Results.                                                                *)
(***************************************************************************)
(***************************************************************************)
(* What the status of a fleet says of its replica is backed by a pod: the  *)
(* readiness on its way up, in readyReplicas, in the answer to an apply    *)
(* (main.rs:520-588), in the phase, in a list of children                  *)
(* (fleet_controller.rs:513) and in the placement, is each time that of    *)
(* pods the rolling update has since replaced only by ready ones.          *)
(***************************************************************************)
THEOREM ReadyIsBacked == SystemSpec => []ReadyIsServed
<1>1. ServedInv => ReadyIsServed
  BY ReadyIs DEF ServedInv, Backed, FirstChild, Told, ReadyIsServed
<1> QED
  BY <1>1, SystemStarts, SystemKeepsInv, PTL DEF SystemSpec

(***************************************************************************)
(* Make before break across both controllers: whatever is stale, abandoned *)
(* or interleaved, re-pinning a child (fleet_controller.rs:742-747) and    *)
(* rolling its Deployment over (main.rs:348-363) take no last ready pod.   *)
(***************************************************************************)
THEOREM MovesKeepServing == SystemSpec => MoveKeepsServing
<1> DEFINE Move == child[0] # NoNode /\ child'[0] # NoNode
                   /\ object["Deployment"].owner = uid
                   /\ failures' = failures
                   /\ Service!ReadyPods > 0
<1>1. ASSUME ServedInv, ServedInv', [SystemNext]_systemVars, Move
      PROVE  (Service!ReadyPods > 0)'
  <2>1. Ready > 0 /\ (Ready > 0 <=> Service!ReadyPods > 0)
    BY <1>1, ReadyIs
  <2>2. (Service!ReadyPods)' = Ready'
    BY SameSum DEF Service!ReadyPods, Service!Templates, Ready, MaybeNode
  <2>3. CASE FleetActs \/ UNCHANGED systemVars
    <3>1. pods' = pods
      BY <2>3, FleetActsAre DEF systemVars, belowVars
    <3> QED
      BY <2>1, <2>2, <3>1 DEF Ready
  <2>4. CASE ServiceActs /\ AboveStays
    <3>1. SystemTypes /\ Descent /\ pods' \in PodCount
      BY <1>1 DEF ServedInv, SystemTypes
    <3>2. Ready' > 0
      BY <1>1, <2>1, <2>4, <3>1, PodsServe DEF Deployed
    <3> QED
      BY <2>2, <3>2
  <2> QED
    BY <1>1, <2>3, <2>4, SystemActs DEF ServedInv, SystemTypes
<1>2. ServedInv /\ ServedInv' /\ [SystemNext]_systemVars =>
        [Move => (Service!ReadyPods > 0)']_systemVars
  BY <1>1
<1> QED
  BY <1>2, SystemStarts, SystemKeepsInv, PTL DEF SystemSpec, MoveKeepsServing
=============================================================================
