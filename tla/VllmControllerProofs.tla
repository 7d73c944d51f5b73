------------------------- MODULE VllmControllerProofs -------------------------
(***************************************************************************)
(* One VllmService and its pods, proved for any number of nodes, replicas  *)
(* and incidents.                                                          *)
(***************************************************************************)
EXTENDS VllmController, SumLemmas

\* ServiceTypeOK says nothing of the spec of a VllmService that is deleted.
ServiceInv ==
    /\ ServiceTypeOK
    /\ exists \in BOOLEAN
    /\ uid \in Nat
    /\ pin \in Templates
    /\ replicas \in Nat
    /\ phase \in Phases \cup {""}
    /\ seen \in VllmService
    /\ handed \in VllmService

LEMMA NoneIsTyped ==
    /\ NoService \in VllmService
    /\ NoDeployment \in [pin : Templates, replicas : Nat, ready : Nat]
    /\ NoPods \in [Templates -> [starting : Nat, ready : Nat]]
    /\ Absent \in Object
  BY DEF NoService, VllmService, NoDeployment, NoPods, Absent, Object, Templates

LEMMA StoredTyped ==
    ASSUME exists \in BOOLEAN, uid \in Nat, pin \in Templates, replicas \in Nat,
           phase \in Phases \cup {""}
    PROVE  Stored \in VllmService
<1>1. CASE exists
  BY <1>1 DEF Stored, VllmService
<1>2. CASE ~exists
  BY <1>2, NoneIsTyped DEF Stored
<1> QED
  BY <1>1, <1>2

\* The numbers of pods.
LEMMA PodCounts ==
    ASSUME ServiceTypeOK
    PROVE  /\ IsFiniteSet(Templates)
           /\ [t \in Templates |-> pods[t].ready] \in [Templates -> Nat]
           /\ [t \in Templates |-> PodsOf(t)] \in [Templates -> Nat]
           /\ ReadyPods \in Nat /\ AllPods \in Nat
           /\ \A t \in Templates : /\ pods[t].ready \in Nat
                                   /\ pods[t].starting \in Nat
                                   /\ pods[t].ready <= ReadyPods
<1>1. IsFiniteSet(Templates)
  BY VllmAssumption, FS_AddElement DEF Templates
<1>2. \A t \in Templates : pods[t].ready \in Nat /\ pods[t].starting \in Nat
  BY DEF ServiceTypeOK
<1> DEFINE r == [t \in Templates |-> pods[t].ready]
           a == [t \in Templates |-> PodsOf(t)]
<1>3. r \in [Templates -> Nat] /\ a \in [Templates -> Nat]
  BY <1>2 DEF PodsOf
<1>4. \A t \in Templates : r[t] = pods[t].ready
  OBVIOUS
<1>5. ReadyPods = SumFunction(r) /\ AllPods = SumFunction(a)
  BY DEF ReadyPods, AllPods
<1> HIDE DEF r, a
<1>6. /\ SumFunction(r) \in Nat /\ SumFunction(a) \in Nat
      /\ \A t \in Templates : r[t] <= SumFunction(r)
  BY <1>1, <1>3, SumOfNaturals
<1> QED
  BY <1>1, <1>2, <1>3, <1>4, <1>5, <1>6 DEF r, a

LEMMA ServiceKept == ServiceInv /\ [ServiceNext]_serviceVars => ServiceInv'
<1> SUFFICES ASSUME ServiceInv, [ServiceNext]_serviceVars PROVE ServiceInv'
  OBVIOUS
<1> DEFINE PodType == [Templates -> [starting : Nat, ready : Nat]]
<1>0. /\ exists \in BOOLEAN /\ uid \in Nat /\ pin \in Templates
      /\ replicas \in Nat /\ phase \in Phases \cup {""}
      /\ {Stored, seen, handed} \subseteq VllmService
      /\ object \in [Kinds -> Object]
      /\ dep \in [pin : Templates, replicas : Nat, ready : Nat]
      /\ pods \in [Templates -> [starting : Nat, ready : Nat]]
      /\ step \in {"idle", "Service", "NetworkPolicy", "status"}
      /\ applied \in Nat /\ aborts \in Nat /\ incidents \in Nat
      /\ ServiceTypeOK
  BY DEF ServiceInv, ServiceTypeOK
<1>s. ASSUME exists' \in BOOLEAN, uid' \in Nat, pin' \in Templates, replicas' \in Nat,
             phase' \in Phases \cup {""},
             seen' \in VllmService, handed' \in VllmService,
             object' \in [Kinds -> Object],
             dep' \in [pin : Templates, replicas : Nat, ready : Nat],
             pods' \in [Templates -> [starting : Nat, ready : Nat]],
             step' \in {"idle", "Service", "NetworkPolicy", "status"},
             applied' \in Nat, aborts' \in Nat, incidents' \in Nat
      PROVE  ServiceInv'
  <2>1. Stored' \in VllmService
    <3>1. CASE exists'
      BY <1>s, <3>1 DEF Stored, VllmService
    <3>2. CASE ~exists'
      BY <1>s, <3>2, NoneIsTyped DEF Stored, NoService
    <3> QED
      BY <3>1, <3>2
  <2> QED
    BY <1>s, <2>1 DEF ServiceInv, ServiceTypeOK
<1>n. aborts + 1 \in Nat /\ incidents + 1 \in Nat
  <2>1. aborts \in Nat /\ incidents \in Nat
    BY <1>0
  <2> QED
    BY <2>1
<1>p. \A t \in Templates : pods[t].starting \in Nat /\ pods[t].ready \in Nat
  BY <1>0
<1>q. \A t \in Templates, m \in Nat, n \in Nat :
         [pods EXCEPT ![t] = [starting |-> m, ready |-> n]] \in PodType
  BY <1>0
<1>r. \A t \in Templates, m \in Nat :
         /\ [pods EXCEPT ![t].starting = m] \in PodType
         /\ [pods EXCEPT ![t].ready = m] \in PodType
  BY <1>0
<1>a. \A kind \in Kinds, s \in VllmService : Applied(kind, s) \in [Kinds -> Object]
  BY <1>0 DEF Applied, OwnerRef, Object, VllmService
<1>1. CASE ApplyDeployment
  <2>1. "Deployment" \in Kinds
    BY DEF Kinds
  <2>2. dep' \in [pin : Templates, replicas : Nat, ready : Nat] /\ applied' \in Nat
    BY <1>0, <1>1 DEF ApplyDeployment, VllmService
  <2> QED
    BY <1>0, <1>s, <1>a, <1>1, <2>1, <2>2 DEF ApplyDeployment, service
<1>2. CASE ApplyService
  <2>1. "Service" \in Kinds
    BY DEF Kinds
  <2> QED
    BY <1>0, <1>s, <1>a, <1>2, <2>1 DEF ApplyService, service
<1>3. CASE ApplyNetworkPolicy
  <2>1. object' \in [Kinds -> Object]
    BY <1>0, <1>3 DEF ApplyNetworkPolicy, Applied, OwnerRef, Object, VllmService
  <2> QED
    BY <1>0, <1>s, <1>3, <2>1 DEF ApplyNetworkPolicy, service
<1>4. CASE WriteServiceStatus
  <2>1. phase' \in Phases \cup {""}
    BY <1>0, <1>4 DEF WriteServiceStatus, PhaseFor, Phases
  <2>2. step' = "idle" /\ handed' = NoService /\ applied' = 0
    BY <1>4 DEF WriteServiceStatus, ForgetReconcile
  <2> QED
    BY <1>0, <1>s, <1>4, <2>1, <2>2, NoneIsTyped DEF WriteServiceStatus, service, cluster
<1>5. CASE AbandonReconcile
  <2>1. step' = "idle" /\ handed' = NoService /\ applied' = 0
    BY <1>5 DEF AbandonReconcile, ForgetReconcile
  <2>2. aborts' \in Nat
    BY <1>n, <1>5 DEF AbandonReconcile
  <2> QED
    BY <1>0, <1>s, <1>5, <2>1, <2>2, NoneIsTyped DEF AbandonReconcile, service, cluster
<1>6. CASE SyncService
  BY <1>0, <1>s, <1>6 DEF SyncService, service, cluster, locals
<1>7. CASE Kubernetes
  <2> USE DEF service, cluster, locals
  <2>1. CASE SurgeUp
    <3>1. pods' \in PodType
      <4>1. dep.pin \in Templates
        BY <1>0
      <4>2. pods' = [pods EXCEPT ![dep.pin].starting = pods[dep.pin].starting + 1]
        BY <2>1 DEF SurgeUp
      <4>3. pods[dep.pin].starting + 1 \in Nat
        BY <1>p, <4>1
      <4> QED
        BY <1>r, <4>1, <4>2, <4>3
    <3> QED
      BY <1>0, <1>s, <2>1, <3>1 DEF SurgeUp
  <2>2. CASE ReportReady
    <3>1. dep' \in [pin : Templates, replicas : Nat, ready : Nat]
      BY <1>0, <2>2, PodCounts DEF ReportReady
    <3> QED
      BY <1>0, <1>s, <2>2, <3>1 DEF ReportReady
  <2>3. ASSUME NEW t \in Templates, ScaleDown(t) PROVE ServiceInv'
    <3>1. pods' \in PodType
      <4>1. CASE pods[t].starting > 0
        <5>1. pods' = [pods EXCEPT ![t].starting = pods[t].starting - 1]
          BY <2>3, <4>1 DEF ScaleDown
        <5>2. pods[t].starting - 1 \in Nat
          BY <1>p, <4>1
        <5> QED
          BY <1>r, <5>1, <5>2
      <4>2. CASE ~(pods[t].starting > 0)
        <5>1. pods' = [pods EXCEPT ![t].ready = pods[t].ready - 1]
          BY <2>3, <4>2 DEF ScaleDown
        <5>2. pods[t].ready - 1 \in Nat
          BY <1>p, <2>3, <4>2 DEF ScaleDown, PodsOf
        <5> QED
          BY <1>r, <5>1, <5>2
      <4> QED
        BY <4>1, <4>2
    <3> QED
      BY <1>0, <1>s, <2>3, <3>1 DEF ScaleDown
  <2>4. ASSUME NEW kind \in Kinds, Collect(kind) PROVE ServiceInv'
    BY <1>0, <1>s, <2>4, NoneIsTyped DEF Collect, Erase
  <2>5. ASSUME NEW t \in Templates, PodStarts(t) PROVE ServiceInv'
    <3>1. pods' = [pods EXCEPT ![t] = [starting |-> pods[t].starting - 1,
                                       ready |-> pods[t].ready + 1]]
      BY <2>5 DEF PodStarts
    <3>2. pods[t].starting - 1 \in Nat /\ pods[t].ready + 1 \in Nat
      BY <1>p, <2>5 DEF PodStarts
    <3>3. pods' \in PodType
      BY <1>q, <3>1, <3>2
    <3> QED
      BY <1>0, <1>s, <2>5, <3>3 DEF PodStarts
  <2> QED
    BY <1>7, <2>1, <2>2, <2>3, <2>4, <2>5 DEF Kubernetes, Rollout, Collection
<1>8. CASE Incidents
  <2> USE VllmAssumption DEF cluster, locals, Incident
  <2>1. ASSUME NEW p \in Templates, NEW r \in ReplicaValues, CreateService(p, r)
        PROVE  ServiceInv'
    <3>1. exists' \in BOOLEAN /\ replicas' \in Nat
      BY <2>1 DEF CreateService
    <3>2. uid \in Nat
      BY <1>0
    <3>3. uid' \in Nat
      <4>1. uid' = uid + 1
        BY <2>1 DEF CreateService
      <4> QED
        BY <3>2, <4>1
    <3> QED
      BY <1>0, <1>n, <1>s, <2>1, <3>1, <3>3 DEF CreateService
  <2>2. CASE DeleteService
    BY <1>0, <1>n, <1>s, <2>2 DEF DeleteService
  <2>3. ASSUME NEW p \in Templates, Retarget(p) PROVE ServiceInv'
    BY <1>0, <1>n, <1>s, <2>3 DEF Retarget
  <2>4. ASSUME NEW p \in Templates, PodFails(p) PROVE ServiceInv'
    <3>1. pods' = [pods EXCEPT ![p] = [starting |-> pods[p].starting + 1,
                                       ready |-> pods[p].ready - 1]]
      BY <2>4 DEF PodFails
    <3>2. pods[p].starting + 1 \in Nat /\ pods[p].ready - 1 \in Nat
      BY <1>p, <2>4 DEF PodFails
    <3>3. pods' \in PodType
      BY <1>q, <3>1, <3>2
    <3> QED
      BY <1>0, <1>n, <1>s, <2>4, <3>3 DEF PodFails, service, Incident
  <2>5. ASSUME NEW r \in ReplicaValues, ScaleService(r) PROVE ServiceInv'
    BY <1>0, <1>n, <1>s, <2>5 DEF ScaleService
  <2>6. ASSUME NEW kind \in Kinds, DeleteObject(kind) PROVE ServiceInv'
    BY <1>0, <1>n, <1>s, <2>6, NoneIsTyped DEF DeleteObject, Erase, service
  <2> QED
    BY <1>8, <2>1, <2>2, <2>3, <2>4, <2>5, <2>6 DEF Incidents
<1>9. CASE UNCHANGED serviceVars
  BY <1>0, <1>s, <1>9 DEF serviceVars, service, cluster, locals
<1> QED
  BY <1>1, <1>2, <1>3, <1>4, <1>5, <1>6, <1>7, <1>8, <1>9
     DEF ServiceNext, ReconcileService

LEMMA ServiceStarts == ServiceInit => ServiceInv
<1> SUFFICES ASSUME ServiceInit PROVE ServiceInv
  OBVIOUS
<1>1. /\ exists \in BOOLEAN /\ uid \in Nat /\ pin \in Templates /\ replicas \in Nat
      /\ phase \in Phases \cup {""}
  BY VllmAssumption DEF ServiceInit, Templates
<1>2. Stored \in VllmService
  BY <1>1, StoredTyped
<1>3. object \in [Kinds -> Object]
  BY NoneIsTyped DEF ServiceInit
<1> QED
  BY <1>1, <1>2, <1>3, NoneIsTyped DEF ServiceInit, ServiceInv, ServiceTypeOK

(***************************************************************************)
(* Every variable of the VllmService and of what is built from it holds    *)
(* what the code's types and the API's admit.                              *)
(***************************************************************************)
THEOREM ServiceTypeCorrect == ServiceSpec => []ServiceTypeOK
<1>1. ServiceInv => ServiceTypeOK
  BY DEF ServiceInv
<1> QED
  BY <1>1, ServiceStarts, ServiceKept, PTL DEF ServiceSpec

-----------------------------------------------------------------------------
(***************************************************************************)
(* Capacity.                                                               *)
(***************************************************************************)
ReadyAfter == SumFunction([t \in Templates |-> pods'[t].ready])

\* One template changes: the ready pods change by as much.
LEMMA ReadyChanges ==
    ASSUME ServiceTypeOK, NEW t \in Templates, NEW n \in Nat,
           pods' \in [Templates -> [starting : Nat, ready : Nat]],
           \A u \in Templates \ {t} : pods'[u].ready = pods[u].ready,
           pods'[t].ready = n
    PROVE  ReadyAfter = ReadyPods + (n - pods[t].ready)
<1> DEFINE r == [u \in Templates |-> pods[u].ready]
           s == [u \in Templates |-> pods'[u].ready]
<1>1. /\ r \in [Templates -> Int] /\ s \in [Templates -> Int]
      /\ \A u \in Templates \ {t} : s[u] = r[u]
      /\ r[t] = pods[t].ready /\ s[t] = n
      /\ IsFiniteSet(Templates)
  BY PodCounts
<1>2. ReadyPods = SumFunction(r) /\ ReadyAfter = SumFunction(s)
  BY DEF ReadyPods, ReadyAfter
<1> HIDE DEF r, s
<1> QED
  BY <1>1, <1>2, SumChangesByOne

\* A pod the rolling update takes down is not missed.
LEMMA ScaleDownSpares ==
    ASSUME ServiceInv, NEW t \in Templates, ScaleDown(t)
    PROVE  ReadyAfter >= ReadyPods \/ ReadyAfter >= dep.replicas
<1>1. /\ ServiceTypeOK
      /\ pods \in [Templates -> [starting : Nat, ready : Nat]]
      /\ dep.replicas \in Nat
  BY DEF ServiceInv, ServiceTypeOK
<1>2. /\ ReadyPods \in Nat /\ pods[t].ready \in Nat /\ pods[t].starting \in Nat
      /\ pods[t].ready <= ReadyPods
  BY <1>1, PodCounts
<1>3. CASE pods[t].starting > 0
  <2>1. /\ pods' \in [Templates -> [starting : Nat, ready : Nat]]
        /\ \A u \in Templates : pods'[u].ready = pods[u].ready
    BY <1>1, <1>3 DEF ScaleDown
  <2>2. ReadyAfter = ReadyPods + (pods[t].ready - pods[t].ready)
    BY <1>1, <1>2, <2>1, ReadyChanges
  <2> QED
    BY <1>2, <2>2
<1>4. CASE ~(pods[t].starting > 0)
  <2>1. pods[t].ready > 0 /\ PodsOf(t) = pods[t].ready
    BY <1>2, <1>4 DEF ScaleDown, PodsOf
  <2>2. /\ pods' \in [Templates -> [starting : Nat, ready : Nat]]
        /\ \A u \in Templates \ {t} : pods'[u].ready = pods[u].ready
        /\ pods'[t].ready = pods[t].ready - 1
    BY <1>1, <1>2, <1>4, <2>1 DEF ScaleDown
  <2>3. ReadyAfter = ReadyPods + ((pods[t].ready - 1) - pods[t].ready)
    BY <1>1, <1>2, <2>1, <2>2, ReadyChanges
  <2>4. pods[t].ready > dep.replicas \/ ReadyPods > dep.replicas - MaxUnavailable
    BY <1>4, <2>1 DEF ScaleDown
  <2> QED
    BY <1>1, <1>2, <2>3, <2>4 DEF MaxUnavailable
<1> QED
  BY <1>3, <1>4

LEMMA CapacityKept ==
    ASSUME ServiceInv, ServiceInv', [ServiceNext]_serviceVars,
           incidents' = incidents, Serving, Serving'
    PROVE  ReadyAfter >= ReadyPods \/ ReadyAfter >= dep.replicas
<1>1. /\ ServiceTypeOK
      /\ pods \in [Templates -> [starting : Nat, ready : Nat]]
      /\ pods' \in [Templates -> [starting : Nat, ready : Nat]]
      /\ incidents \in Nat
  BY DEF ServiceInv, ServiceTypeOK
<1>2. ReadyPods \in Nat
  BY <1>1, PodCounts
<1>3. ASSUME pods' = pods PROVE ReadyAfter = ReadyPods
  BY <1>3 DEF ReadyAfter, ReadyPods
<1>4. CASE ReconcileService \/ AbandonReconcile \/ SyncService \/ ReportReady
             \/ UNCHANGED serviceVars
  <2>1. pods' = pods
    BY <1>4 DEF ReconcileService, ApplyDeployment, ApplyService, ApplyNetworkPolicy,
                WriteServiceStatus, AbandonReconcile, SyncService, ReportReady,
                serviceVars, cluster
  <2> QED
    BY <1>2, <1>3, <2>1
<1>5. CASE SurgeUp
  <2>1. \A u \in Templates : pods'[u].ready = pods[u].ready
    BY <1>1, <1>5 DEF SurgeUp
  <2>2. [u \in Templates |-> pods'[u].ready] = [u \in Templates |-> pods[u].ready]
    BY <2>1
  <2> QED
    BY <1>2, <2>2 DEF ReadyAfter, ReadyPods
<1>6. ASSUME NEW t \in Templates, PodStarts(t)
      PROVE  ReadyAfter >= ReadyPods
  <2>1. /\ \A u \in Templates \ {t} : pods'[u].ready = pods[u].ready
        /\ pods'[t].ready = pods[t].ready + 1
        /\ pods[t].ready \in Nat
    BY <1>1, <1>6 DEF PodStarts
  <2>2. ReadyAfter = ReadyPods + ((pods[t].ready + 1) - pods[t].ready)
    BY <1>1, <2>1, ReadyChanges
  <2> QED
    BY <1>2, <2>1, <2>2
\* With the Deployment nothing serves, and an incident is counted.
<1>7. ASSUME NEW kind \in Kinds, Collect(kind)
      PROVE  ReadyAfter >= ReadyPods
  <2>1. kind # "Deployment"
    BY <1>7 DEF Collect, Erase, Serving, Absent, ServiceInv, ServiceTypeOK
  <2>2. pods' = pods
    BY <1>7, <2>1 DEF Collect, Erase
  <2> QED
    BY <1>2, <1>3, <2>2
<1>8. ~Incidents
  <2>1. Incidents => incidents' = incidents + 1
    BY DEF Incidents, CreateService, DeleteService, Retarget, PodFails, ScaleService,
           DeleteObject, Incident
  <2> QED
    BY <1>1, <2>1
<1> QED
  BY <1>4, <1>5, <1>6, <1>7, <1>8, ScaleDownSpares
     DEF ServiceNext, Kubernetes, Rollout, Collection

(***************************************************************************)
(* Make before break: only an incident takes a ready pod that is needed    *)
(* (ADR-0005 decision 5, main.rs:348-363).                                 *)
(***************************************************************************)
THEOREM CapacityKeeps == ServiceSpec => KeepsCapacity
<1>1. ServiceInv /\ ServiceInv' /\ [ServiceNext]_serviceVars =>
        [(incidents' = incidents /\ Serving /\ Serving') =>
            LET after == SumFunction([t \in Templates |-> pods'[t].ready])
            IN  after >= ReadyPods \/ after >= dep.replicas]_serviceVars
  BY CapacityKept DEF ReadyAfter
<1> QED
  BY <1>1, ServiceStarts, ServiceKept, PTL DEF ServiceSpec, KeepsCapacity
=============================================================================
