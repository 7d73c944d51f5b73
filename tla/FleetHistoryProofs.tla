------------------------- MODULE FleetHistoryProofs -------------------------
(***************************************************************************)
(* Proofs about what an observer of a fleet remembers: that its status     *)
(* accounts for its replicas, that its moves stay within the cap across    *)
(* reconciles and that a surplus replica is waited out.  For every set of  *)
(* nodes, every bound and every cap.                                       *)
(***************************************************************************)
EXTENDS FleetHistory, FleetControllerProofs

-----------------------------------------------------------------------------
(***************************************************************************)
(* The observer restricts nothing: what is proved of the controller holds  *)
(* under observation.                                                      *)
(***************************************************************************)
\* An observed step is a step.
LEMMA ObservedStep == [HNext]_hvars => [Next]_vars
  BY DEF HNext, hvars, vars

\* What is left to write is justified by its reads, under observation.
LEMMA ObservedPlan == HSpec => []PlanInv
<1>1. HInit => PlanInv
  BY PlanInvInit DEF HInit
<1>2. PlanInv /\ [HNext]_hvars => PlanInv'
  BY ObservedStep, PlanInvNext
<1>3. QED
  BY <1>1, <1>2, PTL DEF HSpec

-----------------------------------------------------------------------------
(***************************************************************************)
(* The status accounts for the replicas.  StatusMatchesChildren says       *)
(* nothing while a reconcile acts: the invariant has to say how far the    *)
(* children are on their way from what was listed to what the status will  *)
(* report.                                                                 *)
(***************************************************************************)
\* The node the status will report for a slot.
NewNode(i) ==
    IF i \in InRange(snap) THEN plan[i]
    ELSE IF i \in Removable(snap, current) THEN NoNode
    ELSE current[i]

ReportedAsRunning ==
    (pc # "act" /\ ~interrupted) =>
        \A i \in Slots \ lost : fleet.status.placements[i].node = child[i]

WrittenAsPlanned ==
    pc = "act" =>
        /\ todo \subseteq Pinned(plan) \cup Removable(snap, current)
        /\ \A i \in Slots \ (lost \cup todo) : child[i] = NewNode(i)

AccountInv ==
    /\ fleet.status.replicas = Cardinality(Placed(fleet.status))
    /\ ReportedAsRunning
    /\ WrittenAsPlanned

\* The new status reports what was planned for a slot in range and what was
\* listed of one that is waited out.
LEMMA NodeReported ==
  ASSUME TypeOK, NEW i \in Slots, NEW ready
  PROVE  NewPlacement(i, ready).node = NewNode(i)
<1>1. CASE i \in InRange(snap) /\ plan[i] # NoNode
  BY <1>1 DEF NewPlacement, NewNode
<1>2. CASE i \in InRange(snap) /\ plan[i] = NoNode
  BY <1>2 DEF NewPlacement, NewNode, NoPlacement
<1>3. CASE i \notin InRange(snap) /\ i \in Pinned(current) \ Removable(snap, current)
  BY <1>3 DEF NewPlacement, NewNode
<1>4. CASE i \notin InRange(snap) /\ i \notin Pinned(current) \ Removable(snap, current)
  BY <1>4 DEF NewPlacement, NewNode, NoPlacement, Pinned
<1>5. QED
  BY <1>1, <1>2, <1>3, <1>4

\* Every slot has its entry, and the count of replicas is that of the entries
\* with a node.
LEMMA StatusEntries ==
  ASSUME NEW ready
  PROVE  /\ NewStatus(ready).placements = [i \in Slots |-> NewPlacement(i, ready)]
         /\ NewStatus(ready).replicas = Cardinality(Placed(NewStatus(ready)))
         /\ NewStatus(ready).active
              = Cardinality(InFlight(NewStatus(ready).placements, view.displaced))
<1> DEFINE new == [i \in Slots |-> NewPlacement(i, ready)]
<1>1. /\ NewStatus(ready).placements = new
      /\ NewStatus(ready).replicas = Cardinality({i \in Slots : new[i].node # NoNode})
      /\ NewStatus(ready).active = Cardinality(InFlight(new, view.displaced))
  BY DEF NewStatus
<1> HIDE DEF new
<1>2. Placed(NewStatus(ready)) = {i \in Slots : new[i].node # NoNode}
  BY <1>1 DEF Placed
<1>3. QED
  BY <1>1, <1>2 DEF new

\* The status write, as the next status.
LEMMA StatusWritten ==
  ASSUME TypeOK, WriteStatus
  PROVE  \E ready \in SUBSET Pinned(current) : fleet'.status = NewStatus(ready)
  BY DEF WriteStatus, TypeOK, FleetObject

\* The plan gives up no replica in range.
LEMMA DecideKeeps ==
  ASSUME NEW f \in FleetObject, NEW pins \in [Slots -> MaybeNode], NEW gone,
         NEW eligible \in SUBSET Nodes, Decide(f, pins, gone, eligible),
         NEW i \in InRange(f), plan'[i] = NoNode
  PROVE  pins[i] = NoNode
<1> DEFINE missing == InRange(f) \ Pinned(pins)
<1>1. PICK moved \in Moves(Uprooted(pins, gone), eligible, Budget(f, gone)),
           target \in Targets(eligible, pins),
           fresh \in FreshPlans(missing, eligible, pins) :
        plan' = [j \in Slots |->
                   IF j \notin InRange(f) THEN NoNode
                   ELSE IF j \in moved THEN target
                   ELSE IF j \in missing THEN fresh[j]
                   ELSE pins[j]]
  BY DEF Decide
<1>2. moved # {} => eligible # {}
  BY BudgetType, MovesType DEF Uprooted, Pinned
<1>3. eligible # {} => target \in Nodes
  BY DEF Targets, LeastLoaded
<1>4. i \in Slots /\ (i \in missing => pins[i] = NoNode)
  BY DEF InRange, Pinned
<1> HIDE DEF missing
<1>5. i \notin moved
  BY <1>1, <1>2, <1>3, <1>4, ConstantsAssumption
<1>6. QED
  BY <1>1, <1>4, <1>5

\* A reconcile that starts to act has written nothing yet.
LEMMA PlanningAccounts ==
  ASSUME TypeOK, NEW readable \in BOOLEAN, StartPlanning(readable), pc' = "act"
  PROVE  /\ todo' = Pinned(plan') \cup Removable(snap', current')
         /\ \A i \in Slots \ todo' : child[i] = NewNode(i)'
         /\ current' = child /\ snap' = cached
         /\ view'.displaced = notice \cup (IF readable THEN cordoned ELSE {})
<1> USE DEF clusterVars
<1> DEFINE gone == notice \cup (IF readable THEN cordoned ELSE {})
           cands == Candidates(readable)
           eligible == Eligible(cands, gone, IF readable THEN Capable ELSE Nodes)
<1>1. /\ current' = child
      /\ snap' = cached
      /\ view' = [candidates |-> cands, displaced |-> gone]
      /\ Decide(cached, child, gone, eligible)
  BY DEF StartPlanning
<1>2. eligible \in SUBSET Nodes
  BY ConstantsAssumption DEF TypeOK, Candidates, Eligible
<1>3. cached \in FleetObject /\ child \in [Slots -> MaybeNode]
  BY DEF TypeOK
<1> HIDE DEF eligible, cands
<1>4. /\ todo' = Pinned(plan') \cup Removable(cached, child)
      /\ \A i \in InRange(cached) : plan'[i] = NoNode => child[i] = NoNode
  BY <1>1, <1>2, <1>3, DecideMoves, DecideKeeps
<1>5. ASSUME NEW i \in Slots \ todo'
      PROVE  child[i] = NewNode(i)'
  <2>1. NewNode(i)' = IF i \in InRange(cached) THEN plan'[i]
                      ELSE IF i \in Removable(cached, child) THEN NoNode
                      ELSE child[i]
    BY <1>1 DEF NewNode, InRange, Desired, Removable, Surplus, Pinned
  <2>2. i \notin Removable(cached, child) /\ plan'[i] = NoNode
    BY <1>4 DEF Pinned
  <2>3. QED
    BY <1>4, <2>1, <2>2
<1>6. Removable(snap', current') = Removable(cached, child)
  BY <1>1
<1>7. QED
  BY <1>1, <1>4, <1>5, <1>6

\* Only the write of a full status empties the memory of what was deleted and of
\* an abandoned reconcile.
LEMMA Remembered ==
  ASSUME Observe, ~Completes
  PROVE  /\ lost \subseteq lost'
         /\ interrupted => interrupted'
         /\ (pc = "act" /\ faults' # faults) => interrupted'
  BY DEF Observe

\* What the cluster and the user do leaves the reconcile, the status and every
\* child that is not remembered as deleted as they were.
LEMMA EventKeeps ==
  ASSUME TypeOK, Environment, Observe
  PROVE  /\ UNCHANGED <<cached, reconcileVars, faults>>
         /\ fleet'.status = fleet.status
         /\ events' = events + 1
         /\ \A i \in Slots \ lost' : child'[i] = child[i]
         /\ \A i \in Slots : child'[i] \in {child[i], NoNode}
<1> USE DEF clusterVars, planVars, reconcileVars, Event
<1>1. /\ UNCHANGED <<cached, reconcileVars, faults>>
      /\ events' = events + 1 /\ events \in Nat
  BY DEF TypeOK, Environment, Report, Unreport, Notice, ClearNotice, Cordon,
         Uncordon, Scale, ChangeStrategy, LoseChild
<1>2. ~Completes
  BY <1>1 DEF Completes
<1>3. fleet'.status = fleet.status
  <2>1. fleet \in FleetObject
    BY DEF TypeOK
  <2>2. ASSUME NEW r \in ReplicaChoices, Scale(r)
        PROVE  fleet'.status = fleet.status
    BY <2>1, <2>2 DEF Scale, FleetObject
  <2>3. ASSUME ChangeStrategy
        PROVE  fleet'.status = fleet.status
    BY <2>1, <2>3 DEF ChangeStrategy, FleetObject
  <2>4. QED
    BY <2>2, <2>3 DEF Environment, Report, Unreport, Notice, ClearNotice, Cordon,
                      Uncordon, LoseChild
<1>4. \A i \in Slots : child'[i] \in {child[i], NoNode}
  BY DEF TypeOK, Environment, Report, Unreport, Notice, ClearNotice, Cordon,
         Uncordon, Scale, ChangeStrategy, LoseChild
<1>5. ASSUME NEW i \in Slots \ lost'
      PROVE  child'[i] = child[i]
  <2>1. lost' = lost \cup {j \in Slots : child[j] # NoNode /\ child'[j] = NoNode
                                           /\ events' # events}
    BY <1>2 DEF Observe
  <2>2. events' # events
    BY <1>1
  <2>3. QED
    BY <1>4, <1>5, <2>1, <2>2
<1>6. QED
  BY <1>1, <1>3, <1>4, <1>5

\* Between reconciles nothing but a deletion touches a child, and no step but a
\* full status write touches what the status says of one.
LEMMA AccountIdles ==
  ASSUME AccountInv, pc # "act", pc' # "act", interrupted => interrupted',
         lost \subseteq lost',
         fleet'.status.placements = fleet.status.placements,
         fleet'.status.replicas = fleet.status.replicas,
         \A i \in Slots \ lost' : child'[i] = child[i]
  PROVE  AccountInv'
<1>1. Placed(fleet'.status) = Placed(fleet.status)
  BY DEF Placed
<1>2. QED
  BY <1>1 DEF AccountInv, ReportedAsRunning, WrittenAsPlanned

\* While a reconcile acts, what is no longer left to write has been written.
LEMMA AccountActs ==
  ASSUME AccountInv, pc = "act", UNCHANGED <<pc, snap, current, plan>>,
         lost \subseteq lost', todo' \subseteq todo,
         fleet'.status = fleet.status,
         \A i \in Slots \ lost' :
            child'[i] = IF i \in todo \ todo' THEN NewNode(i) ELSE child[i]
  PROVE  AccountInv'
<1>1. \A i \in Slots : NewNode(i)' = NewNode(i)
  BY DEF NewNode, InRange, Desired, Removable, Surplus, Pinned
<1>2. Placed(fleet'.status) = Placed(fleet.status)
  BY DEF Placed
<1>3. (Pinned(plan) \cup Removable(snap, current))'
        = Pinned(plan) \cup Removable(snap, current)
  BY DEF InRange, Desired, Removable, Surplus, Pinned
<1>4. WrittenAsPlanned'
  BY <1>1, <1>3 DEF AccountInv, WrittenAsPlanned
<1>5. QED
  BY <1>2, <1>4 DEF AccountInv, ReportedAsRunning

\* The status written is the account of what was planned.
LEMMA AccountWritten ==
  ASSUME AccountInv, TypeOK, WriteStatus, Observe
  PROVE  AccountInv'
<1> USE DEF clusterVars
<1>1. PICK ready \in SUBSET Pinned(current) : fleet'.status = NewStatus(ready)
  BY StatusWritten
<1>2. Completes /\ pc' = "idle" /\ todo = {} /\ pc = "act" /\ child' = child
  BY DEF WriteStatus, Completes, ForgetLocals
<1>3. \A i \in Slots : fleet'.status.placements[i].node = NewNode(i)
  <2>1. fleet'.status.placements = [i \in Slots |-> NewPlacement(i, ready)]
    BY <1>1, StatusEntries
  <2>2. QED
    BY <2>1, NodeReported
<1>4. (fleet.status.replicas = Cardinality(Placed(fleet.status)))'
  <2>1. fleet'.status.replicas = Cardinality(Placed(fleet'.status))
    BY <1>1, StatusEntries
  <2>2. QED
    BY <2>1
<1>5. \A i \in Slots \ lost : child[i] = NewNode(i)
  BY <1>2 DEF AccountInv, WrittenAsPlanned
<1>6. lost' = {i \in lost : fleet'.status.placements[i].node # child[i]}
  BY <1>2 DEF Observe
<1>7. ReportedAsRunning'
  BY <1>2, <1>3, <1>5, <1>6 DEF ReportedAsRunning
<1>8. QED
  BY <1>2, <1>4, <1>7 DEF AccountInv, WrittenAsPlanned

\* Every step keeps the account.
LEMMA AccountNext == AccountInv /\ PlanInv /\ [HNext]_hvars => AccountInv'
<1> SUFFICES ASSUME AccountInv, PlanInv, [HNext]_hvars PROVE AccountInv'
  OBVIOUS
<1> USE DEF clusterVars, planVars, reconcileVars
<1>0. TypeOK
  BY DEF PlanInv
<1>1. CASE UNCHANGED hvars
  BY <1>1 DEF hvars, vars, history, AccountInv, ReportedAsRunning,
     WrittenAsPlanned, Placed, NewNode, InRange, Desired, Removable, Surplus, Pinned
<1>2. ASSUME Observe, StartUnsupported
      PROVE  AccountInv'
  <2>1. ~Completes
    BY <1>2 DEF StartUnsupported, Completes
  <2>2. QED
    BY <1>2, <2>1, Remembered, AccountIdles DEF StartUnsupported
<1>3. ASSUME Observe, NEW readable \in BOOLEAN, StartPlanning(readable)
      PROVE  AccountInv'
  <2>1. /\ pc = "idle" /\ pc' \in {"act", "message"} /\ child' = child
        /\ fleet' = fleet
    BY <1>3 DEF StartPlanning
  <2>2. ~Completes
    BY <2>1 DEF Completes
  <2>3. CASE pc' = "message"
    BY <1>3, <2>1, <2>2, <2>3, Remembered, AccountIdles
  <2>4. CASE pc' = "act"
    <3>1. /\ todo' = Pinned(plan') \cup Removable(snap', current')
          /\ \A i \in Slots \ todo' : child[i] = NewNode(i)'
      BY <1>0, <1>3, <2>4, PlanningAccounts
    <3>2. WrittenAsPlanned'
      BY <2>1, <3>1 DEF WrittenAsPlanned, Pinned, Removable, InRange, Desired, Surplus
    <3>3. (fleet.status.replicas = Cardinality(Placed(fleet.status)))'
      BY <2>1 DEF AccountInv, Placed
    <3>4. QED
      BY <2>4, <3>2, <3>3 DEF AccountInv, ReportedAsRunning
  <2>5. QED
    BY <2>1, <2>3, <2>4
<1>4. ASSUME Observe, NEW i \in Slots, ApplyChild(i)
      PROVE  AccountInv'
  <2>1. /\ pc = "act" /\ UNCHANGED <<fleet, pc, snap, current, plan>>
        /\ i \in todo /\ todo' = todo \ {i} /\ i \in InRange(snap)
        /\ child' = [child EXCEPT ![i] = plan[i]]
    BY <1>4 DEF ApplyChild, IsFirst
  <2>2. ~Completes
    BY <2>1 DEF Completes
  <2>3. NewNode(i) = plan[i]
    BY <2>1 DEF NewNode
  <2>4. child \in [Slots -> MaybeNode]
    BY <1>0 DEF TypeOK
  <2>5. \A j \in Slots :
          child'[j] = IF j \in todo \ todo' THEN NewNode(j) ELSE child[j]
    BY <2>1, <2>3, <2>4
  <2>6. QED
    BY <1>4, <2>1, <2>2, <2>5, Remembered, AccountActs
<1>5. ASSUME Observe, NEW i \in Slots, RemoveChild(i)
      PROVE  AccountInv'
  <2>1. /\ pc = "act" /\ UNCHANGED <<fleet, pc, snap, current, plan>>
        /\ i \in todo /\ todo' = todo \ {i} /\ i \notin InRange(snap)
        /\ child' = [child EXCEPT ![i] = NoNode]
    BY <1>5 DEF RemoveChild, IsFirst
  <2>2. ~Completes
    BY <2>1 DEF Completes
  <2>3. i \in Removable(snap, current)
    BY <2>1 DEF AccountInv, WrittenAsPlanned, PlanInv, PinJustified, Pinned
  <2>4. NewNode(i) = NoNode
    BY <2>1, <2>3 DEF NewNode
  <2>5. child \in [Slots -> MaybeNode]
    BY <1>0 DEF TypeOK
  <2>6. \A j \in Slots :
          child'[j] = IF j \in todo \ todo' THEN NewNode(j) ELSE child[j]
    BY <2>1, <2>4, <2>5
  <2>7. QED
    BY <1>5, <2>1, <2>2, <2>6, Remembered, AccountActs
<1>6. ASSUME Observe, WriteStatus
      PROVE  AccountInv'
  BY <1>0, <1>6, AccountWritten
<1>7. ASSUME Observe, WriteMessage
      PROVE  AccountInv'
  <2>1. pc = "message" /\ pc' = "idle" /\ child' = child
    BY <1>7 DEF WriteMessage, ForgetLocals
  <2>2. ~Completes
    BY <2>1 DEF Completes
  <2>3. /\ fleet'.status.placements = fleet.status.placements
        /\ fleet'.status.replicas = fleet.status.replicas
    BY <1>0, <1>7 DEF WriteMessage, TypeOK, FleetObject, FleetStatus
  <2>4. QED
    BY <1>7, <2>1, <2>2, <2>3, Remembered, AccountIdles
<1>8. ASSUME Observe, Abandon
      PROVE  AccountInv'
  <2>1. /\ pc' = "idle" /\ child' = child /\ fleet' = fleet
        /\ faults' = faults + 1 /\ faults \in Nat
    BY <1>0, <1>8 DEF Abandon, ForgetLocals, TypeOK
  <2>2. ~Completes
    BY <2>1 DEF Completes
  <2>3. CASE pc = "act"
    <3>1. interrupted'
      BY <1>8, <2>1, <2>2, <2>3, Remembered
    <3>2. (fleet.status.replicas = Cardinality(Placed(fleet.status)))'
      BY <2>1 DEF AccountInv, Placed
    <3>3. QED
      BY <2>1, <3>1, <3>2 DEF AccountInv, ReportedAsRunning, WrittenAsPlanned
  <2>4. CASE pc # "act"
    BY <1>8, <2>1, <2>2, <2>4, Remembered, AccountIdles
  <2>5. QED
    BY <2>3, <2>4
<1>9. ASSUME Observe, Sync \/ Environment
      PROVE  AccountInv'
  <2>1. /\ UNCHANGED <<pc, snap, current, plan, todo>>
        /\ fleet'.status = fleet.status
        /\ \A i \in Slots \ lost' : child'[i] = child[i]
    BY <1>0, <1>9, EventKeeps DEF Sync
  <2>2. ~Completes
    BY <2>1 DEF Completes
  <2>3. CASE pc = "act"
    BY <1>9, <2>1, <2>2, <2>3, Remembered, AccountActs
  <2>4. CASE pc # "act"
    BY <1>9, <2>1, <2>2, <2>4, Remembered, AccountIdles
  <2>5. QED
    BY <2>3, <2>4
<1>10. CASE HNext
  BY <1>2, <1>3, <1>4, <1>5, <1>6, <1>7, <1>8, <1>9, <1>10
     DEF HNext, Next, Reconcile, Start, StartWithoutNodes
<1>11. QED
  BY <1>1, <1>10

\* Before the first reconcile there is nothing to account for.
LEMMA AccountInit == HInit => AccountInv
<1> SUFFICES ASSUME HInit PROVE AccountInv
  OBVIOUS
<1>1. PICK r \in ReplicaChoices : fleet = NewFleet(r)
  BY DEF HInit, Init
<1>2. /\ fleet.status.replicas = 0
      /\ \A i \in Slots : fleet.status.placements[i].node = NoNode
  BY <1>1 DEF NewFleet, NoPlacement
<1>3. Placed(fleet.status) = {} /\ Cardinality({}) = 0
  BY <1>2, FS_EmptySet DEF Placed
<1>4. child = NoPins /\ pc = "idle"
  BY DEF HInit, Init
<1>5. QED
  BY <1>2, <1>3, <1>4 DEF AccountInv, ReportedAsRunning, WrittenAsPlanned, NoPins

(***************************************************************************)
(* Between reconciles the status accounts for every replica that runs and  *)
(* for no other, through moves, waits, early returns, stale reads, events  *)
(* in between two writes and, from the next reconcile that completes on,   *)
(* abandoned ones; only what someone else deleted may differ               *)
(* (fleet_controller.rs:781-853).                                          *)
(***************************************************************************)
THEOREM StatusAccounts == HSpec => []StatusMatchesChildren
<1>1. HInit => AccountInv
  BY AccountInit
<1>2. AccountInv /\ PlanInv /\ [HNext]_hvars => AccountInv'
  BY AccountNext
<1>3. AccountInv => StatusMatchesChildren
  <2> SUFFICES ASSUME AccountInv, pc # "act", ~interrupted
               PROVE  /\ \A i \in Slots \ lost :
                            fleet.status.placements[i].node = child[i]
                      /\ lost = {} =>
                            fleet.status.replicas = Cardinality(Pinned(child))
    BY DEF StatusMatchesChildren
  <2>1. \A i \in Slots \ lost : fleet.status.placements[i].node = child[i]
    BY DEF AccountInv, ReportedAsRunning
  <2>2. ASSUME lost = {}
        PROVE  Placed(fleet.status) = Pinned(child)
    BY <2>1, <2>2 DEF Placed, Pinned
  <2>3. QED
    BY <2>1, <2>2 DEF AccountInv
<1>4. QED
  BY <1>1, <1>2, <1>3, ObservedPlan, PTL DEF HSpec

-----------------------------------------------------------------------------
(***************************************************************************)
(* The cap across reconciles.  A reconcile knows the moves in flight only  *)
(* from the status it was handed; that this bounds what the next status    *)
(* reports takes that the status is the newest, that it agrees with the    *)
(* children listed, and that a node found displaced still is when the      *)
(* status is written.                                                      *)
(***************************************************************************)
CapRoom == IF Cap > 0 THEN Cap ELSE 0

\* What the decision to move was based on still holds when it is reported.
PlannedOnNewest ==
    pc = "act" =>
        /\ view.displaced \subseteq Displaced
        /\ snap.status.placements = fleet.status.placements
        /\ \A i \in Slots : snap.status.placements[i].node = current[i]
        /\ Cardinality(InFlight(snap.status.placements, view.displaced)) <= CapRoom

CapInv ==
    /\ \A i \in Slots : fleet.status.placements[i].node = NoNode =>
                            fleet.status.placements[i].phase = "Pending"
    /\ ~withdrawn =>
          /\ lost = {}
          /\ ~interrupted
          /\ fleet.status.active <= CapRoom
          /\ Cardinality(InFlight(fleet.status.placements, Displaced)) <= CapRoom
          /\ PlannedOnNewest

\* The more nodes are displaced, the fewer placements count as in flight.
LEMMA InFlightShrinks ==
  ASSUME NEW placements, NEW gone, NEW more, gone \subseteq more,
         Cardinality(InFlight(placements, gone)) <= CapRoom
  PROVE  Cardinality(InFlight(placements, more)) <= CapRoom
<1>1. /\ InFlight(placements, gone) \in SUBSET Slots
      /\ InFlight(placements, more) \in SUBSET InFlight(placements, gone)
  BY DEF InFlight
<1>2. /\ Cardinality(InFlight(placements, more))
           <= Cardinality(InFlight(placements, gone))
      /\ Cardinality(InFlight(placements, more)) \in Nat
      /\ Cardinality(InFlight(placements, gone)) \in Nat
      /\ CapRoom \in Int
  BY <1>1, SlotCount, SlotCountMonotone, ConstantsAssumption DEF CapRoom
<1>3. QED
  BY <1>2

\* A placement in flight in the new status is one this reconcile moves or one
\* that was in flight already.
LEMMA InFlightOrigin ==
  ASSUME PlanInv, NEW ready, NEW i \in Slots,
         snap.status.placements[i].node = current[i],
         snap.status.placements[i].node = NoNode =>
            snap.status.placements[i].phase = "Pending",
         i \in InFlight(NewStatus(ready).placements, view.displaced)
  PROVE  i \in MovedSlots \cup InFlight(snap.status.placements, view.displaced)
<1> DEFINE old == snap.status.placements[i]
           new == NewPlacement(i, ready)
           uprooted == i \in Uprooted(current, view.displaced)
<1>1. NewStatus(ready).placements[i] = new
  BY StatusEntries
<1>2. /\ new.node # NoNode
      /\ new.phase \in {"Draining", "Rescheduling"}
      /\ new.node \notin view.displaced
  BY <1>1 DEF InFlight
<1>3. uprooted <=> current[i] # NoNode /\ current[i] \in view.displaced
  BY DEF Uprooted, Pinned
<1>4. old.phase \in PlacementPhases
  BY DEF PlanInv, TypeOK, FleetObject, FleetStatus, Placement
<1>5. ASSUME new.node = current[i],
             \/ new.phase = PlacementPhaseFor(old.phase, i \in ready, uprooted)
             \/ new.phase = PlacementPhaseFor(old.phase, i \in ready, FALSE)
      PROVE  i \in InFlight(snap.status.placements, view.displaced)
  <2>1. ~uprooted
    BY <1>2, <1>3, <1>5
  <2>2. old.phase = "Draining"
    BY <1>2, <1>4, <1>5, <2>1 DEF PlacementPhaseFor, PlacementPhases
  <2>3. QED
    BY <1>2, <1>5, <2>2 DEF InFlight
<1>6. CASE i \in InRange(snap) /\ plan[i] # NoNode
  <2>1. /\ new.node = plan[i]
        /\ new.phase = PlacementPhaseFor(old.phase, i \in ready, uprooted)
    BY <1>6 DEF NewPlacement
  <2>2. CASE plan[i] = current[i]
    BY <1>5, <2>1, <2>2
  <2>3. CASE plan[i] # current[i] /\ current[i] # NoNode
    BY <1>6, <2>3 DEF MovedSlots, Pinned
  <2>4. CASE current[i] = NoNode
    <3>1. old.phase = "Pending" /\ ~uprooted
      BY <1>3, <2>4
    <3>2. new.phase \notin {"Draining", "Rescheduling"}
      BY <2>1, <3>1 DEF PlacementPhaseFor
    <3>3. QED
      BY <1>2, <3>2
  <2>5. QED
    BY <2>2, <2>3, <2>4
<1>7. CASE ~(i \in InRange(snap) /\ plan[i] # NoNode)
           /\ i \in Pinned(current) \ (InRange(snap) \cup Removable(snap, current))
  <2>1. /\ new.node = current[i]
        /\ new.phase = PlacementPhaseFor(old.phase, i \in ready, FALSE)
    BY <1>7 DEF NewPlacement
  <2>2. QED
    BY <1>5, <2>1
<1>8. CASE ~(i \in InRange(snap) /\ plan[i] # NoNode)
           /\ i \notin Pinned(current) \ (InRange(snap) \cup Removable(snap, current))
  <2>1. new = NoPlacement
    BY <1>8 DEF NewPlacement
  <2>2. QED
    BY <1>2, <2>1 DEF NoPlacement
<1>9. QED
  BY <1>6, <1>7, <1>8

\* A slot without a node is written as never placed.
LEMMA EmptyIsPending ==
  ASSUME NEW i \in Slots, NEW ready, NewPlacement(i, ready).node = NoNode
  PROVE  NewPlacement(i, ready).phase = "Pending"
<1>1. CASE i \in InRange(snap) /\ plan[i] # NoNode
  BY <1>1 DEF NewPlacement
<1>2. CASE ~(i \in InRange(snap) /\ plan[i] # NoNode)
           /\ i \in Pinned(current) \ (InRange(snap) \cup Removable(snap, current))
  BY <1>2 DEF NewPlacement, Pinned
<1>3. CASE ~(i \in InRange(snap) /\ plan[i] # NoNode)
           /\ i \notin Pinned(current) \ (InRange(snap) \cup Removable(snap, current))
  BY <1>3 DEF NewPlacement, NoPlacement
<1>4. QED
  BY <1>1, <1>2, <1>3

\* A step that deletes no child and fails nothing leaves nothing to remember.
LEMMA NothingToRemember ==
  ASSUME Observe, ~Completes, faults' = faults,
         events' = events \/ \A i \in Slots : child'[i] = child[i]
  PROVE  /\ lost' = lost
         /\ interrupted' => interrupted
<1>1. {i \in Slots : child[i] # NoNode /\ child'[i] = NoNode /\ events' # events} = {}
  OBVIOUS
<1>2. lost' = lost \cup {i \in Slots : child[i] # NoNode /\ child'[i] = NoNode
                                         /\ events' # events}
  BY DEF Observe
<1>3. interrupted' => interrupted
  BY DEF Observe
<1>4. QED
  BY <1>1, <1>2, <1>3

\* The status written reports no more moves in flight than the cap admits.
LEMMA CapWritten ==
  ASSUME CapInv, PlanInv, WriteStatus, ~withdrawn,
         NEW ready, fleet'.status = NewStatus(ready)
  PROVE  /\ fleet'.status.active <= CapRoom
         /\ Cardinality(InFlight(fleet'.status.placements, Displaced)) <= CapRoom
<1> DEFINE before == InFlight(snap.status.placements, view.displaced)
           after == InFlight(NewStatus(ready).placements, view.displaced)
<1>1. /\ view.displaced \subseteq Displaced
      /\ \A i \in Slots : snap.status.placements[i].node = current[i]
      /\ \A i \in Slots : snap.status.placements[i].node = NoNode =>
                             snap.status.placements[i].phase = "Pending"
      /\ Cardinality(before) <= CapRoom
  BY DEF CapInv, PlannedOnNewest, WriteStatus
<1>2. after \subseteq MovedSlots \cup before
  <2>1. \A i \in after : i \in Slots
    BY DEF InFlight
  <2>2. QED
    BY <1>1, <2>1, InFlightOrigin
<1>3. MovedSlots # {} => Cardinality(MovedSlots) + Cardinality(before) <= Cap
  BY DEF PlanInv, MovesWithinCap
<1>4. /\ before \in SUBSET Slots
      /\ MovedSlots \in SUBSET Slots
      /\ MovedSlots \cup before \in SUBSET Slots
  BY DEF InFlight, MovedSlots, Pinned
<1>5. fleet'.status.active = Cardinality(after)
  BY StatusEntries
<1>6. fleet'.status.placements = NewStatus(ready).placements
  OBVIOUS
<1> HIDE DEF before, after
<1>7. /\ Cardinality(before) \in Nat
      /\ Cardinality(MovedSlots) \in Nat
      /\ Cardinality(after) \in Nat
      /\ Cardinality(MovedSlots \cup before) \in Nat
      /\ Cardinality(after) <= Cardinality(MovedSlots \cup before)
  BY <1>2, <1>4, SlotCount, SlotCountMonotone
<1>8. Cardinality(MovedSlots \cup before)
        <= Cardinality(MovedSlots) + Cardinality(before)
  <2>1. IsFiniteSet(MovedSlots) /\ IsFiniteSet(before)
    BY <1>4, SlotCount
  <2>2. Cardinality(MovedSlots \cup before)
          = Cardinality(MovedSlots) + Cardinality(before)
              - Cardinality(MovedSlots \cap before)
    BY <2>1, FS_Union
  <2>3. MovedSlots \cap before \in SUBSET Slots
    BY <1>4
  <2>4. Cardinality(MovedSlots \cap before) \in Nat
    BY <2>3, SlotCount
  <2>5. QED
    BY <1>7, <2>2, <2>4
<1>9. CapRoom \in Int /\ (Cap > 0 => CapRoom = Cap) /\ CapRoom >= 0 /\ Cap \in Int
  BY ConstantsAssumption DEF CapRoom
<1>10. Cardinality(after) <= CapRoom
  <2>1. CASE MovedSlots = {}
    BY <1>1, <1>4, <1>7, <1>9, <2>1, <1>2, SlotCountMonotone
  <2>2. CASE MovedSlots # {}
    <3>1. Cardinality(MovedSlots) # 0
      BY <1>4, <2>2, SlotCount, FS_EmptySet
    <3>2. QED
      BY <1>3, <1>7, <1>8, <1>9, <2>2, <3>1
  <2>3. QED
    BY <2>1, <2>2
<1>11. Cardinality(InFlight(fleet'.status.placements, Displaced)) <= CapRoom
  BY <1>1, <1>6, <1>10, InFlightShrinks DEF after
<1>12. QED
  BY <1>5, <1>10, <1>11

\* A reconcile that starts on the newest status plans within the cap.
LEMMA CapPlanned ==
  ASSUME CapInv, AccountInv, TypeOK, ~withdrawn, FreshCache = TRUE,
         StartPlanning(TRUE)
  PROVE  PlannedOnNewest'
<1> USE DEF clusterVars
<1>1. CASE pc' = "act"
  <2>1. /\ cached = fleet /\ pc = "idle"
        /\ fleet' = fleet /\ notice' = notice /\ cordoned' = cordoned
    BY DEF StartPlanning
  <2>2. /\ current' = child /\ snap' = cached
        /\ view'.displaced = notice \cup cordoned
    BY <1>1, PlanningAccounts
  <2>3. /\ \A i \in Slots : fleet.status.placements[i].node = child[i]
        /\ Cardinality(InFlight(fleet.status.placements, Displaced)) <= CapRoom
    BY <2>1 DEF CapInv, AccountInv, ReportedAsRunning
  <2>4. Displaced' = Displaced /\ view'.displaced = Displaced
    BY <2>1, <2>2 DEF Displaced
  <2>5. InFlight(snap'.status.placements, view'.displaced)
          = InFlight(fleet.status.placements, Displaced)
    BY <2>1, <2>2, <2>4
  <2>6. QED
    BY <2>1, <2>2, <2>3, <2>4, <2>5 DEF PlannedOnNewest
<1>2. CASE pc' # "act"
  BY <1>2 DEF PlannedOnNewest
<1>3. QED
  BY <1>1, <1>2

\* A step that leaves the status and the decisions alone keeps the cap, while
\* what was displaced stays so.
LEMMA CapKept ==
  ASSUME CapInv, withdrawn => withdrawn',
         fleet'.status.placements = fleet.status.placements,
         fleet'.status.active = fleet.status.active,
         ~withdrawn' =>
            /\ lost' = lost
            /\ interrupted' => interrupted
            /\ Displaced \subseteq Displaced'
            /\ \/ PlannedOnNewest'
               \/ UNCHANGED <<pc, snap, view, current>>
  PROVE  CapInv'
<1>1. (\A i \in Slots : fleet.status.placements[i].node = NoNode =>
                            fleet.status.placements[i].phase = "Pending")'
  BY DEF CapInv
<1>2. ASSUME ~withdrawn'
      PROVE  /\ lost' = {}
             /\ ~interrupted'
             /\ fleet'.status.active <= CapRoom
             /\ Cardinality(InFlight(fleet'.status.placements, Displaced')) <= CapRoom
             /\ PlannedOnNewest'
  <2>1. /\ lost' = {} /\ ~interrupted' /\ fleet'.status.active <= CapRoom
        /\ Cardinality(InFlight(fleet.status.placements, Displaced)) <= CapRoom
        /\ Displaced \subseteq Displaced'
        /\ PlannedOnNewest
    BY <1>2 DEF CapInv
  <2>2. Cardinality(InFlight(fleet.status.placements, Displaced')) <= CapRoom
    BY <2>1, InFlightShrinks
  <2>3. UNCHANGED <<pc, snap, view, current>> => PlannedOnNewest'
    BY <2>1 DEF PlannedOnNewest, InFlight
  <2>4. QED
    BY <1>2, <2>1, <2>2, <2>3
<1>3. QED
  BY <1>1, <1>2 DEF CapInv

\* Every step keeps the cap when each reconcile is handed the newest fleet.
LEMMA CapNext ==
  FreshCache = TRUE =>
    (CapInv /\ AccountInv /\ PlanInv /\ [HNext]_hvars => CapInv')
<1> SUFFICES ASSUME FreshCache = TRUE, CapInv, AccountInv, PlanInv, [HNext]_hvars
             PROVE  CapInv'
  OBVIOUS
<1> USE DEF clusterVars, planVars, reconcileVars
<1>0. TypeOK /\ faults \in Nat
  BY DEF PlanInv, TypeOK
<1>1. CASE UNCHANGED hvars
  <2>1. /\ UNCHANGED <<pc, snap, view, current, fleet, withdrawn, lost, interrupted>>
        /\ UNCHANGED <<notice, cordoned>>
    BY <1>1 DEF hvars, vars, history
  <2>2. Displaced' = Displaced
    BY <2>1 DEF Displaced
  <2>3. QED
    BY <2>1, <2>2, CapKept
<1>2. ASSUME Observe, ~Completes, UNCHANGED <<child, notice, cordoned, faults, events>>
      PROVE  /\ withdrawn => withdrawn'
             /\ lost' = lost
             /\ interrupted' => interrupted
             /\ Displaced' = Displaced
  <2>1. lost' = lost /\ (interrupted' => interrupted)
    BY <1>2, NothingToRemember
  <2>2. withdrawn => withdrawn'
    BY <1>2 DEF Observe
  <2>3. QED
    BY <1>2, <2>1, <2>2 DEF Displaced
<1>3. ASSUME Observe, StartUnsupported
      PROVE  CapInv'
  <2>1. /\ ~Completes /\ UNCHANGED <<fleet, child, notice, cordoned, faults, events>>
        /\ pc' = "message"
    BY <1>3 DEF StartUnsupported, Completes
  <2>2. PlannedOnNewest'
    BY <2>1 DEF PlannedOnNewest
  <2>3. QED
    BY <1>2, <1>3, <2>1, <2>2, CapKept
<1>4. ASSUME Observe, StartPlanning(TRUE), faults' = faults
      PROVE  CapInv'
  <2>1. ~Completes /\ UNCHANGED <<fleet, child, notice, cordoned, faults, events>>
    BY <1>4 DEF StartPlanning, Completes
  <2>2. ~withdrawn => PlannedOnNewest'
    BY <1>0, <1>4, CapPlanned
  <2>3. QED
    BY <1>2, <1>4, <2>1, <2>2, CapKept
<1>5. ASSUME Observe, faults' = faults + 1, fleet' = fleet
      PROVE  CapInv'
  <2>1. withdrawn'
    BY <1>0, <1>5 DEF Observe
  <2>2. QED
    BY <1>5, <2>1, CapKept
<1>6. ASSUME Observe, NEW i \in Slots, ApplyChild(i) \/ RemoveChild(i)
      PROVE  CapInv'
  <2>1. /\ UNCHANGED <<fleet, notice, cordoned, pc, snap, view, current, faults, events>>
        /\ ~Completes
    BY <1>6 DEF ApplyChild, RemoveChild, Completes
  <2>2. /\ withdrawn => withdrawn'
        /\ lost' = lost
        /\ interrupted' => interrupted
        /\ Displaced' = Displaced
    <3>1. lost' = lost /\ (interrupted' => interrupted)
      BY <1>6, <2>1, NothingToRemember
    <3>2. withdrawn => withdrawn'
      BY <1>6 DEF Observe
    <3>3. QED
      BY <2>1, <3>1, <3>2 DEF Displaced
  <2>3. QED
    BY <2>1, <2>2, CapKept
<1>7. ASSUME Observe, WriteStatus
      PROVE  CapInv'
  <2>1. PICK ready \in SUBSET Pinned(current) : fleet'.status = NewStatus(ready)
    BY <1>0, <1>7, StatusWritten
  <2>2. /\ Completes /\ pc' = "idle"
        /\ UNCHANGED <<child, notice, cordoned, faults, events>>
    BY <1>7 DEF WriteStatus, ForgetLocals, Completes
  <2>3. /\ withdrawn' <=> withdrawn
        /\ lost' = {i \in lost : fleet'.status.placements[i].node # child[i]}
        /\ ~interrupted'
        /\ Displaced' = Displaced
    BY <1>0, <1>7, <2>2 DEF Observe, Displaced
  <2>4. fleet'.status.placements = [i \in Slots |-> NewPlacement(i, ready)]
    BY <2>1, StatusEntries
  <2>5. (\A i \in Slots : fleet.status.placements[i].node = NoNode =>
                            fleet.status.placements[i].phase = "Pending")'
    BY <2>4, EmptyIsPending
  <2>6. ASSUME ~withdrawn'
        PROVE  /\ lost' = {}
               /\ fleet'.status.active <= CapRoom
               /\ Cardinality(InFlight(fleet'.status.placements, Displaced)) <= CapRoom
    <3>1. ~withdrawn /\ lost = {}
      BY <2>3, <2>6 DEF CapInv
    <3>2. QED
      BY <1>7, <2>1, <2>3, <3>1, CapWritten
  <2>7. PlannedOnNewest'
    BY <2>2 DEF PlannedOnNewest
  <2>8. ASSUME ~withdrawn'
        PROVE  Cardinality(InFlight(fleet.status.placements, Displaced))' <= CapRoom
    BY <2>3, <2>6, <2>8
  <2>9. QED
    BY <2>3, <2>5, <2>6, <2>7, <2>8 DEF CapInv
<1>8. ASSUME Observe, WriteMessage
      PROVE  CapInv'
  <2>1. /\ ~Completes /\ pc' = "idle"
        /\ UNCHANGED <<child, notice, cordoned, faults, events>>
    BY <1>8 DEF WriteMessage, ForgetLocals, Completes
  <2>2. /\ fleet'.status.placements = fleet.status.placements
        /\ fleet'.status.active = fleet.status.active
    BY <1>0, <1>8 DEF WriteMessage, TypeOK, FleetObject, FleetStatus
  <2>3. PlannedOnNewest'
    BY <2>1 DEF PlannedOnNewest
  <2>4. QED
    BY <1>2, <1>8, <2>1, <2>2, <2>3, CapKept
<1>9. ASSUME Observe, Sync
      PROVE  CapInv'
  <2>1. /\ UNCHANGED <<fleet, child, notice, cordoned, faults, events>>
        /\ UNCHANGED <<pc, snap, view, current>> /\ ~Completes
    BY <1>9 DEF Sync, Completes
  <2>2. QED
    BY <1>2, <1>9, <2>1, CapKept
<1>10. ASSUME Observe, Environment
      PROVE  CapInv'
  <2>1. /\ UNCHANGED <<pc, snap, view, current, faults>>
        /\ fleet'.status = fleet.status
        /\ events' # events
        /\ \A i \in Slots : child'[i] \in {child[i], NoNode}
    BY <1>0, <1>10, EventKeeps DEF TypeOK
  <2>2. ~Completes
    BY <2>1 DEF Completes
  <2>3. withdrawn => withdrawn'
    BY <1>10 DEF Observe
  <2>4. ASSUME ~withdrawn'
        PROVE  /\ Displaced \subseteq Displaced'
               /\ lost' = lost
               /\ interrupted' => interrupted
    <3>1. /\ Displaced \subseteq Displaced'
          /\ ~\E i \in Slots : child[i] # NoNode /\ child'[i] = NoNode
      BY <1>10, <2>1, <2>4 DEF Observe
    <3>2. \A i \in Slots : child'[i] = child[i]
      BY <2>1, <3>1
    <3>3. QED
      BY <1>10, <2>1, <2>2, <3>1, <3>2, NothingToRemember
  <2>5. QED
    BY <2>1, <2>3, <2>4, CapKept
<1>11. CASE HNext
  <2>1. ASSUME StartWithoutNodes \/ Abandon
        PROVE  faults' = faults + 1 /\ fleet' = fleet
    BY <2>1 DEF StartWithoutNodes, StartPlanning, Abandon
  <2>2. QED
    BY <1>3, <1>4, <1>5, <1>6, <1>7, <1>8, <1>9, <1>10, <1>11, <2>1
       DEF HNext, Next, Reconcile, Start
<1>12. QED
  BY <1>1, <1>11

\* Before the first reconcile nothing moves.
LEMMA CapInit == HInit => CapInv
<1> SUFFICES ASSUME HInit PROVE CapInv
  OBVIOUS
<1>1. PICK r \in ReplicaChoices : fleet = NewFleet(r)
  BY DEF HInit, Init
<1>2. /\ fleet.status.active = 0
      /\ \A i \in Slots : fleet.status.placements[i] = NoPlacement
  BY <1>1 DEF NewFleet
<1>3. InFlight(fleet.status.placements, Displaced) = {} /\ Cardinality({}) = 0
  BY <1>2, FS_EmptySet DEF InFlight, NoPlacement
<1>4. pc = "idle" /\ lost = {} /\ ~interrupted
  BY DEF HInit, Init
<1>5. CapRoom >= 0
  BY ConstantsAssumption DEF CapRoom
<1>6. QED
  BY <1>2, <1>3, <1>4, <1>5 DEF CapInv, PlannedOnNewest, NoPlacement

(***************************************************************************)
(* Through any sequence of reclaims, waves of moves and rescaling, the     *)
(* moves the status reports in flight stay within the cap, whatever the    *)
(* cap is, while no held node comes back, no reconcile fails and each is   *)
(* handed the newest FleetService (fleet_controller.rs:639-674, 857-871).  *)
(* With a cache that lags it is false.                                     *)
(***************************************************************************)
THEOREM ActiveBounded == FreshCache = TRUE => (HSpec => []ActiveWithinCap)
<1>1. HInit => CapInv /\ AccountInv
  BY CapInit, AccountInit
<1>2. AccountInv /\ PlanInv /\ [HNext]_hvars => AccountInv'
  BY AccountNext
<1>3. /\ CapInv /\ FreshCache = TRUE
      /\ AccountInv /\ PlanInv /\ [HNext]_hvars
      => (CapInv /\ FreshCache = TRUE)'
  BY CapNext
<1>4. CapInv => ActiveWithinCap
  BY DEF CapInv, ActiveWithinCap, CapRoom
<1>5. QED
  BY <1>1, <1>2, <1>3, <1>4, ObservedPlan, PTL DEF HSpec

-----------------------------------------------------------------------------
(***************************************************************************)
(* The wait of a surplus replica.  The observer counts the reconciles that *)
(* found a replica surplus; the code counts them in the status, through a  *)
(* copy of it.  What one says has to be carried to the other.              *)
(***************************************************************************)
\* The count the status holds for a slot claims no more than was observed.
Waited(i, count) == count <= outRuns[i] \/ outRuns[i] >= StableRequired

WaitInv ==
    /\ outRuns \in [Slots -> Int]
    /\ \A i \in Slots : outRuns[i] >= 0 \/ outRuns[i] >= StableRequired
    /\ (pc # "act" /\ faults = 0) =>
          \A i \in Pinned(child) : Waited(i, fleet.status.placements[i].surplus)
    /\ (pc = "act" /\ faults = 0) =>
          \A i \in (Pinned(child) \cap Pinned(current)) \ InRange(snap) :
             Waited(i, snap.status.placements[i].surplus)

\* One more reconcile counts for one.
LEMMA WaitCounts ==
  ASSUME NEW prev \in Int, NEW runs \in Int,
         runs >= 0 \/ runs >= StableRequired,
         prev <= runs \/ runs >= StableRequired
  PROVE  /\ SurplusHysteresis(prev, TRUE, StableRequired).remove =>
               runs + 1 >= StableRequired
         /\ \/ SurplusHysteresis(prev, TRUE, StableRequired).count <= Bounded(runs + 1)
            \/ Bounded(runs + 1) >= StableRequired
         /\ 0 <= Bounded(runs + 1) \/ Bounded(runs + 1) >= StableRequired
<1>0. StableRequired \in Int
  BY ConstantsAssumption
<1>1. CASE StableRequired <= 0
  BY <1>0, <1>1 DEF Bounded, SurplusHysteresis
<1>2. CASE ~(StableRequired <= 0)
  <2> DEFINE base == IF prev > 0 THEN prev ELSE 0
             next == IF base = I32Max THEN I32Max ELSE base + 1
             found == SurplusHysteresis(prev, TRUE, StableRequired)
  <2>1. found = [count |-> next, remove |-> next >= StableRequired]
    BY <1>2 DEF SurplusHysteresis
  <2> HIDE DEF found
  <2>2. found.count = next /\ (found.remove <=> next >= StableRequired)
    BY <2>1
  <2>3. base \in Int /\ (base <= runs \/ runs >= StableRequired)
    BY <1>0, <1>2
  <2> HIDE DEF base
  <2>4. next \in Int /\ next <= base + 1
    BY <2>3, I32MaxPositive
  <2> HIDE DEF next
  <2>5. CASE runs + 1 < StableRequired
    <3>1. Bounded(runs + 1) = runs + 1
      BY <2>5 DEF Bounded
    <3>2. ~(runs >= StableRequired) /\ next < StableRequired /\ next <= runs + 1
      BY <1>0, <2>3, <2>4, <2>5
    <3>3. ~found.remove
      BY <1>0, <2>2, <2>4, <3>2
    <3>4. found.count <= Bounded(runs + 1) /\ 0 <= Bounded(runs + 1)
      BY <1>0, <1>2, <2>2, <2>5, <3>1, <3>2
    <3>5. QED
      BY <3>3, <3>4 DEF found
  <2>6. CASE ~(runs + 1 < StableRequired)
    <3>1. Bounded(runs + 1) >= StableRequired /\ runs + 1 >= StableRequired
      BY <1>0, <2>6 DEF Bounded
    <3>2. QED
      BY <3>1
  <2>7. QED
    BY <2>5, <2>6
<1>3. QED
  BY <1>1, <1>2

\* While the step completes no reconcile and brings no child back, the wait goes
\* on as it was.
LEMMA WaitKept ==
  ASSUME TypeOK, WaitInv, Observe, ~Completes,
         \A i \in Slots : child'[i] # NoNode => child[i] # NoNode
  PROVE  /\ outRuns' \in [Slots -> Int]
         /\ \A i \in Slots : outRuns'[i] >= 0 \/ outRuns'[i] >= StableRequired
         /\ \A i \in Pinned(child') : outRuns'[i] = outRuns[i]
<1>1. outRuns' = [i \in Slots |->
                    IF \/ child[i] = NoNode /\ child'[i] # NoNode
                       \/ child[i] # NoNode /\ child'[i] = NoNode
                    THEN 0 ELSE outRuns[i]]
  BY DEF Observe
<1>2. outRuns \in [Slots -> Int]
  BY DEF WaitInv
<1>3. QED
  BY <1>1, <1>2 DEF WaitInv, Pinned

\* The counts the status holds are integers.
LEMMA CountsType ==
  ASSUME TypeOK, NEW i \in Slots
  PROVE  /\ fleet.status.placements[i].surplus \in Int
         /\ snap.status.placements[i].surplus \in Int
  BY DEF TypeOK, FleetObject, FleetStatus, Placement

\* The status written counts one reconcile more for a replica still surplus, and
\* starts over for one found in range.
LEMMA WaitWritten ==
  ASSUME WaitInv, PlanInv, AccountInv, WriteStatus, Observe
  PROVE  WaitInv'
<1> USE DEF clusterVars
<1>0. TypeOK
  BY DEF PlanInv
<1>1. PICK ready \in SUBSET Pinned(current) : fleet'.status = NewStatus(ready)
  BY <1>0, StatusWritten
<1>2. /\ Completes /\ pc = "act" /\ pc' = "idle" /\ child' = child
      /\ faults' = faults
  BY DEF WriteStatus, Completes, ForgetLocals
<1>3. outRuns' = [i \in Slots |->
                    IF i \in InRange(snap) \/ current[i] = NoNode THEN 0
                    ELSE Bounded(outRuns[i] + 1)]
  BY <1>2 DEF Observe
<1>4. outRuns \in [Slots -> Int] /\ StableRequired \in Int
  BY ConstantsAssumption DEF WaitInv
<1>5. \A i \in Slots : fleet'.status.placements[i] = NewPlacement(i, ready)
  <2>1. fleet'.status.placements = [i \in Slots |-> NewPlacement(i, ready)]
    BY <1>1, StatusEntries
  <2>2. QED
    BY <2>1
<1>6. ASSUME NEW i \in Slots, i \in InRange(snap) \/ current[i] = NoNode
      PROVE  outRuns'[i] = 0 /\ fleet'.status.placements[i].surplus = 0
  <2>1. i \notin Pinned(current) \ (InRange(snap) \cup Removable(snap, current))
    BY <1>6 DEF Pinned
  <2>2. NewPlacement(i, ready).surplus = 0
    BY <2>1 DEF NewPlacement, NoPlacement
  <2>3. QED
    BY <1>3, <1>5, <1>6, <2>2
<1>7. ASSUME NEW i \in Slots, ~(i \in InRange(snap) \/ current[i] = NoNode)
      PROVE  /\ outRuns'[i] \in Int
             /\ outRuns'[i] >= 0 \/ outRuns'[i] >= StableRequired
             /\ (faults = 0 /\ i \in Pinned(child)) =>
                   Waited(i, fleet.status.placements[i].surplus)'
  <2>1. outRuns'[i] = Bounded(outRuns[i] + 1)
    BY <1>3, <1>7
  <2>2. outRuns'[i] \in Int /\ (outRuns'[i] >= 0 \/ outRuns'[i] >= StableRequired)
    BY <1>4, <2>1 DEF Bounded, WaitInv
  <2>3. ASSUME faults = 0, i \in Pinned(child)
        PROVE  Waited(i, fleet.status.placements[i].surplus)'
    <3> DEFINE prev == snap.status.placements[i].surplus
               found == SurplusHysteresis(prev, TRUE, StableRequired)
    <3>1. prev \in Int /\ outRuns[i] \in Int
      BY <1>0, <1>4, CountsType
    <3>2. outRuns[i] >= 0 \/ outRuns[i] >= StableRequired
      BY DEF WaitInv
    <3>3. prev <= outRuns[i] \/ outRuns[i] >= StableRequired
      BY <1>2, <1>7, <2>3 DEF WaitInv, Waited, Pinned
    <3>4. /\ found.count <= outRuns'[i] \/ outRuns'[i] >= StableRequired
          /\ 0 <= outRuns'[i] \/ outRuns'[i] >= StableRequired
      BY <2>1, <3>1, <3>2, <3>3, WaitCounts
    <3>5. NewPlacement(i, ready).surplus \in {found.count, 0}
      BY <1>7 DEF NewPlacement, NoPlacement, Surplus
    <3>6. fleet'.status.placements[i].surplus \in {found.count, 0}
      BY <1>5, <3>5
    <3> HIDE DEF found
    <3>7. QED
      BY <3>4, <3>6 DEF Waited
  <2>4. QED
    BY <2>2, <2>3
<1>8. outRuns' \in [Slots -> Int]
  BY <1>3, <1>4 DEF Bounded
<1>9. \A i \in Slots : outRuns'[i] >= 0 \/ outRuns'[i] >= StableRequired
  BY <1>6, <1>7
<1>10. faults' = 0 =>
         \A i \in Pinned(child') : Waited(i, fleet.status.placements[i].surplus)'
  BY <1>2, <1>6, <1>7 DEF Waited, Pinned
<1>11. QED
  BY <1>2, <1>8, <1>9, <1>10 DEF WaitInv

\* What goes on waiting as it was keeps the counts, while the reconcile stays
\* where it is or ends without a full status.
LEMMA WaitGoesOn ==
  ASSUME TypeOK, WaitInv, Observe, ~Completes,
         \A i \in Slots : child'[i] # NoNode => child[i] # NoNode,
         fleet'.status.placements = fleet.status.placements,
         faults' = 0 => faults = 0 /\ (pc = "act" <=> pc' = "act"),
         pc' = "act" => snap' = snap /\ current' = current
  PROVE  WaitInv'
<1>1. /\ outRuns' \in [Slots -> Int]
      /\ \A i \in Slots : outRuns'[i] >= 0 \/ outRuns'[i] >= StableRequired
      /\ \A i \in Pinned(child') : outRuns'[i] = outRuns[i]
  BY WaitKept
<1>2. Pinned(child') \subseteq Pinned(child)
  BY DEF Pinned
<1>3. ASSUME pc' # "act", faults' = 0, NEW i \in Pinned(child')
      PROVE  Waited(i, fleet.status.placements[i].surplus)'
  BY <1>1, <1>2, <1>3 DEF WaitInv, Waited
<1>4. ASSUME pc' = "act", faults' = 0,
             NEW i \in (Pinned(child') \cap Pinned(current')) \ InRange(snap')
      PROVE  Waited(i, snap.status.placements[i].surplus)'
  BY <1>1, <1>2, <1>4 DEF WaitInv, Waited
<1>5. QED
  BY <1>1, <1>3, <1>4 DEF WaitInv

\* Every step keeps the counts when each reconcile is handed the newest fleet.
LEMMA WaitNext ==
  FreshCache = TRUE =>
    (WaitInv /\ AccountInv /\ PlanInv /\ [HNext]_hvars => WaitInv')
<1> SUFFICES ASSUME FreshCache = TRUE, WaitInv, AccountInv, PlanInv, [HNext]_hvars
             PROVE  WaitInv'
  OBVIOUS
<1> USE DEF clusterVars, planVars, reconcileVars
<1>0. TypeOK /\ faults \in Nat /\ child \in [Slots -> MaybeNode]
  BY DEF PlanInv, TypeOK
<1>1. CASE UNCHANGED hvars
  BY <1>1 DEF hvars, vars, history, WaitInv, Waited, Pinned, InRange, Desired
<1>2. ASSUME Observe, StartUnsupported
      PROVE  WaitInv'
  <2>1. /\ UNCHANGED <<fleet, child, faults>> /\ pc = "idle" /\ pc' = "message"
    BY <1>2 DEF StartUnsupported
  <2>2. ~Completes
    BY <2>1 DEF Completes
  <2>3. QED
    BY <1>0, <1>2, <2>1, <2>2, WaitGoesOn
<1>3. ASSUME Observe, NEW readable \in BOOLEAN, StartPlanning(readable),
             faults' \in {faults, faults + 1}
      PROVE  WaitInv'
  <2>1. /\ UNCHANGED <<fleet, child>> /\ pc = "idle" /\ pc' \in {"act", "message"}
        /\ cached = fleet
    BY <1>3 DEF StartPlanning
  <2>2. ~Completes /\ (faults' = 0 => faults = 0)
    BY <1>0, <1>3, <2>1 DEF Completes
  <2>3. CASE pc' = "message"
    BY <1>0, <1>3, <2>1, <2>2, <2>3, WaitGoesOn
  <2>4. CASE pc' = "act"
    <3>1. snap' = fleet /\ current' = child
      BY <1>0, <1>3, <2>1, <2>4, PlanningAccounts
    <3>2. /\ outRuns' \in [Slots -> Int]
          /\ \A i \in Slots : outRuns'[i] >= 0 \/ outRuns'[i] >= StableRequired
          /\ \A i \in Pinned(child') : outRuns'[i] = outRuns[i]
      BY <1>0, <1>3, <2>1, <2>2, WaitKept
    <3>3. ASSUME faults' = 0, NEW i \in Pinned(child')
          PROVE  Waited(i, snap.status.placements[i].surplus)'
      BY <2>1, <2>2, <3>1, <3>2, <3>3 DEF WaitInv, Waited
    <3>4. QED
      BY <2>4, <3>2, <3>3 DEF WaitInv
  <2>5. QED
    BY <2>1, <2>3, <2>4
<1>4. ASSUME Observe, NEW i \in Slots, ApplyChild(i)
      PROVE  WaitInv'
  <2>1. /\ UNCHANGED <<fleet, pc, snap, current, faults>> /\ pc = "act"
        /\ i \in InRange(snap)
        /\ child' = [child EXCEPT ![i] = plan[i]]
    BY <1>4 DEF ApplyChild
  <2>2. ~Completes
    BY <2>1 DEF Completes
  <2>3. outRuns' = [j \in Slots |->
                      IF \/ child[j] = NoNode /\ child'[j] # NoNode
                         \/ child[j] # NoNode /\ child'[j] = NoNode
                      THEN 0 ELSE outRuns[j]]
    BY <1>4, <2>2 DEF Observe
  <2>4. outRuns \in [Slots -> Int]
    BY DEF WaitInv
  <2>5. /\ outRuns' \in [Slots -> Int]
        /\ \A j \in Slots : outRuns'[j] >= 0 \/ outRuns'[j] >= StableRequired
    BY <2>3, <2>4 DEF WaitInv
  <2>6. ASSUME faults' = 0,
               NEW j \in (Pinned(child') \cap Pinned(current')) \ InRange(snap')
        PROVE  Waited(j, snap.status.placements[j].surplus)'
    <3>1. child'[j] = child[j] /\ child'[j] # NoNode /\ j \in Slots
      BY <1>0, <2>1, <2>6 DEF Pinned
    <3>2. outRuns'[j] = outRuns[j]
      BY <2>3, <3>1
    <3>3. QED
      BY <2>1, <2>6, <3>1, <3>2 DEF WaitInv, Waited, Pinned
  <2>7. QED
    BY <2>1, <2>5, <2>6 DEF WaitInv
<1>5. ASSUME Observe, NEW i \in Slots, RemoveChild(i)
      PROVE  WaitInv'
  <2>1. /\ UNCHANGED <<fleet, pc, snap, current, faults>> /\ pc = "act"
        /\ child' = [child EXCEPT ![i] = NoNode]
    BY <1>5 DEF RemoveChild
  <2>2. ~Completes
    BY <2>1 DEF Completes
  <2>3. \A j \in Slots : child'[j] # NoNode => child[j] # NoNode
    BY <1>0, <2>1
  <2>4. QED
    BY <1>0, <1>5, <2>1, <2>2, <2>3, WaitGoesOn
<1>6. ASSUME Observe, WriteStatus
      PROVE  WaitInv'
  BY <1>6, WaitWritten
<1>7. ASSUME Observe, WriteMessage
      PROVE  WaitInv'
  <2>1. pc = "message" /\ pc' = "idle" /\ child' = child /\ faults' = faults
    BY <1>7 DEF WriteMessage, ForgetLocals
  <2>2. ~Completes
    BY <2>1 DEF Completes
  <2>3. fleet'.status.placements = fleet.status.placements
    BY <1>0, <1>7 DEF WriteMessage, TypeOK, FleetObject, FleetStatus
  <2>4. QED
    BY <1>0, <1>7, <2>1, <2>2, <2>3, WaitGoesOn
<1>8. ASSUME Observe, Abandon
      PROVE  WaitInv'
  <2>1. /\ pc' = "idle" /\ child' = child /\ fleet' = fleet /\ faults' = faults + 1
    BY <1>8 DEF Abandon, ForgetLocals
  <2>2. ~Completes /\ faults' # 0
    BY <1>0, <2>1 DEF Completes
  <2>3. QED
    BY <1>0, <1>8, <2>1, <2>2, WaitGoesOn
<1>9. ASSUME Observe, Sync \/ Environment
      PROVE  WaitInv'
  <2>1. /\ UNCHANGED <<pc, snap, current, faults>>
        /\ fleet'.status = fleet.status
        /\ \A i \in Slots : child'[i] \in {child[i], NoNode}
    BY <1>0, <1>9, EventKeeps DEF Sync
  <2>2. ~Completes
    BY <2>1 DEF Completes
  <2>3. QED
    BY <1>0, <1>9, <2>1, <2>2, WaitGoesOn
<1>10. CASE HNext
  <2>1. StartWithoutNodes => StartPlanning(FALSE) /\ faults' = faults + 1
    BY DEF StartWithoutNodes
  <2>2. QED
    BY <1>2, <1>3, <1>4, <1>5, <1>6, <1>7, <1>8, <1>9, <1>10, <2>1
       DEF HNext, Next, Reconcile, Start
<1>11. QED
  BY <1>1, <1>10

\* Nobody waits at first.
LEMMA WaitInit == HInit => WaitInv
  BY DEF HInit, Init, WaitInv, Pinned, NoPins

\* A child the reconcile deletes has been waited out.
LEMMA DeletedAfterWait ==
  ASSUME WaitInv, AccountInv, PlanInv, HNext, NEW i \in Slots,
         child[i] # NoNode, child'[i] = NoNode, events' = events, faults = 0
  PROVE  outRuns[i] + 1 >= StableRequired
<1> USE DEF clusterVars, planVars, reconcileVars
<1>0. TypeOK /\ events \in Nat /\ child \in [Slots -> MaybeNode]
  BY DEF PlanInv, TypeOK
<1>1. ASSUME Start \/ StartWithoutNodes \/ WriteStatus \/ WriteMessage
               \/ Abandon \/ Sync
      PROVE  FALSE
  BY <1>1 DEF Start, StartUnsupported, StartPlanning, StartWithoutNodes,
              WriteStatus, WriteMessage, Abandon, Sync
<1>2. ASSUME Environment PROVE FALSE
  BY <1>0, <1>2, EventKeeps DEF HNext
<1>3. ASSUME NEW j \in Slots, ApplyChild(j) PROVE FALSE
  <2>1. /\ pc = "act" /\ j \in todo /\ j \in InRange(snap)
        /\ child' = [child EXCEPT ![j] = plan[j]]
    BY <1>3 DEF ApplyChild, IsFirst
  <2>2. j \in Pinned(plan)
    BY <2>1 DEF AccountInv, WrittenAsPlanned, Removable
  <2>3. QED
    BY <1>0, <2>1, <2>2 DEF Pinned
<1>4. ASSUME NEW j \in Slots, RemoveChild(j)
      PROVE  outRuns[i] + 1 >= StableRequired
  <2>1. /\ pc = "act" /\ j \in todo /\ j \notin InRange(snap)
        /\ child' = [child EXCEPT ![j] = NoNode]
    BY <1>4 DEF RemoveChild, IsFirst
  <2>2. j = i
    BY <1>0, <2>1
  <2>3. i \in Removable(snap, current)
    BY <2>1, <2>2 DEF AccountInv, WrittenAsPlanned, PlanInv, PinJustified, Pinned
  <2> DEFINE prev == snap.status.placements[i].surplus
  <2>4. /\ i \in Pinned(current)
        /\ SurplusHysteresis(prev, TRUE, StableRequired).remove
    BY <2>3 DEF Removable, Surplus
  <2>5. i \in (Pinned(child) \cap Pinned(current)) \ InRange(snap)
    BY <2>1, <2>2, <2>4 DEF Pinned
  <2>6. prev \in Int /\ outRuns[i] \in Int
    BY <1>0, CountsType DEF WaitInv
  <2>7. /\ outRuns[i] >= 0 \/ outRuns[i] >= StableRequired
        /\ prev <= outRuns[i] \/ outRuns[i] >= StableRequired
    BY <2>1, <2>5 DEF WaitInv, Waited
  <2>8. QED
    BY <2>4, <2>6, <2>7, WaitCounts
<1>5. QED
  BY <1>1, <1>2, <1>3, <1>4 DEF HNext, Next, Reconcile

(***************************************************************************)
(* A surplus replica is deleted only after the required number of          *)
(* completed reconciles found it surplus in a row, whatever that number    *)
(* is, and the wait of an earlier scale-down never counts for a later one, *)
(* while no reconcile fails and each is handed the newest FleetService     *)
(* (fleet_types.rs:297-302, fleet_controller.rs:781-841).                  *)
(***************************************************************************)
THEOREM SurplusWaitedOut == FreshCache = TRUE => (HSpec => RemovalWaited)
<1>1. HInit => WaitInv /\ AccountInv
  BY WaitInit, AccountInit
<1>2. AccountInv /\ PlanInv /\ [HNext]_hvars => AccountInv'
  BY AccountNext
<1>3. /\ WaitInv /\ FreshCache = TRUE
      /\ AccountInv /\ PlanInv /\ [HNext]_hvars
      => (WaitInv /\ FreshCache = TRUE)'
  BY WaitNext
<1>4. WaitInv /\ AccountInv /\ PlanInv /\ [HNext]_hvars =>
        [\A i \in Slots :
          (child[i] # NoNode /\ child'[i] = NoNode /\ events' = events /\ faults = 0)
             => outRuns[i] + 1 >= StableRequired]_hvars
  BY DeletedAfterWait
<1>5. QED
  BY <1>1, <1>2, <1>3, <1>4, ObservedPlan, PTL DEF HSpec, RemovalWaited

=============================================================================
