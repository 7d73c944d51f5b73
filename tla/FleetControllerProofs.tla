----------------------- MODULE FleetControllerProofs -----------------------
(***************************************************************************)
(* Proofs about the reconcile of a FleetService, for every set of nodes,   *)
(* every bound on the replicas, every cap and every number of faults and   *)
(* events, with and without a cache that lags.                             *)
(***************************************************************************)
EXTENDS FleetController, FiniteSetTheorems, TLAPS

-----------------------------------------------------------------------------
(***************************************************************************)
(* Slots and what is counted of them.                                      *)
(***************************************************************************)
\* The slots are finitely many integers.
LEMMA SlotsFinite == IsFiniteSet(Slots) /\ Slots \subseteq Int
  BY FS_Interval, ConstantsAssumption DEF Slots

\* Every count of slots is a natural number.
LEMMA SlotCount ==
  ASSUME NEW S \in SUBSET Slots
  PROVE  IsFiniteSet(S) /\ Cardinality(S) \in Nat
  BY SlotsFinite, FS_Subset, FS_CardinalityType

\* Fewer slots count for no more.
LEMMA SlotCountMonotone ==
  ASSUME NEW T \in SUBSET Slots, NEW S \in SUBSET T
  PROVE  Cardinality(S) <= Cardinality(T)
  BY SlotCount, FS_Subset

-----------------------------------------------------------------------------
(***************************************************************************)
(* The pure functions of fleet_types.rs.                                   *)
(***************************************************************************)
\* placement_phase_for never leaves the five phases, whatever phase a status
\* written by an earlier version holds.
LEMMA PlacementPhaseType ==
  ASSUME NEW phase, NEW nodeReady, NEW preempted
  PROVE  PlacementPhaseFor(phase, nodeReady, preempted) \in PlacementPhases
  BY DEF PlacementPhaseFor, PlacementPhases

\* fleet_phase_for never leaves its three phases.
LEMMA FleetPhaseType ==
  ASSUME NEW desired \in Int, NEW ready \in Int, NEW hold \in BOOLEAN
  PROVE  FleetPhaseFor(desired, ready, hold) \in FleetPhases \ {""}
  BY DEF FleetPhaseFor, FleetPhases

\* The largest i32, kept as a name.
LEMMA I32MaxPositive == I32Max \in Nat /\ I32Max > 0
  BY SMT DEF I32Max

\* The surplus counter stays an i32 whatever count the last status holds, and a
\* removal is decided exactly at the required count.
LEMMA SurplusBounded ==
  ASSUME NEW prev \in Int, prev <= I32Max, NEW inSurplus \in BOOLEAN,
         NEW required \in Int
  PROVE  /\ SurplusHysteresis(prev, inSurplus, required).count \in 0 .. I32Max
         /\ SurplusHysteresis(prev, inSurplus, required).remove =>
              inSurplus /\ SurplusHysteresis(prev, inSurplus, required).count >= required
<1>1. CASE ~inSurplus
  BY <1>1, I32MaxPositive DEF SurplusHysteresis
<1>2. CASE inSurplus /\ required <= 0
  BY <1>2, I32MaxPositive DEF SurplusHysteresis
<1>3. CASE inSurplus /\ ~(required <= 0)
  <2> DEFINE base == IF prev > 0 THEN prev ELSE 0
             next == IF base = I32Max THEN I32Max ELSE base + 1
  <2>1. next \in 0 .. I32Max
    BY I32MaxPositive
  <2>2. SurplusHysteresis(prev, inSurplus, required)
          = [count |-> next, remove |-> next >= required]
    BY <1>3 DEF SurplusHysteresis
  <2>3. SurplusHysteresis(prev, inSurplus, required).count = next
    BY <2>2
  <2>4. SurplusHysteresis(prev, inSurplus, required).remove = (next >= required)
    BY <2>2
  <2> HIDE DEF next
  <2>5. QED
    BY <1>3, <2>1, <2>3, <2>4
<1>4. QED
  BY <1>1, <1>2, <1>3

\* Without a bound on the last count the counter is still an integer.
LEMMA SurplusType ==
  ASSUME NEW prev \in Int, NEW inSurplus \in BOOLEAN, NEW required \in Int
  PROVE  SurplusHysteresis(prev, inSurplus, required).count \in Int
<1>1. CASE ~inSurplus
  BY <1>1 DEF SurplusHysteresis
<1>2. CASE inSurplus /\ required <= 0
  BY <1>2 DEF SurplusHysteresis
<1>3. CASE inSurplus /\ ~(required <= 0)
  BY <1>3, I32MaxPositive DEF SurplusHysteresis
<1>4. QED
  BY <1>1, <1>2, <1>3

-----------------------------------------------------------------------------
(***************************************************************************)
(* The decisions of one reconcile.                                         *)
(***************************************************************************)
\* The room under the cap is a natural number, at most the cap.
LEMMA BudgetType ==
  ASSUME NEW f \in FleetObject, NEW gone
  PROVE  /\ Budget(f, gone) \in Nat
         /\ Budget(f, gone) > 0 =>
              Budget(f, gone) + Cardinality(InFlight(f.status.placements, gone)) = Cap
<1>1. InFlight(f.status.placements, gone) \in SUBSET Slots
  BY DEF InFlight
<1>2. Cardinality(InFlight(f.status.placements, gone)) \in Nat
  BY <1>1, SlotCount
<1>3. QED
  BY <1>2, ConstantsAssumption DEF Budget

\* The moves are displaced slots, no more than the budget.
LEMMA MovesType ==
  ASSUME NEW slots \in SUBSET Slots, NEW eligible, NEW budget \in Nat,
         NEW M \in Moves(slots, eligible, budget)
  PROVE  /\ M \subseteq slots
         /\ Cardinality(M) <= budget
         /\ M # {} => eligible # {}
  BY FS_EmptySet DEF Moves, FirstMoves

\* A plan pins a slot only in range, and either where it is or on an eligible
\* node; a slot that leaves its node leaves a displaced one.
LEMMA DecideMoves ==
  ASSUME NEW f \in FleetObject, NEW pins \in [Slots -> MaybeNode], NEW gone,
         NEW eligible \in SUBSET Nodes, Decide(f, pins, gone, eligible)
  PROVE  /\ plan' \in [Slots -> MaybeNode]
         /\ todo' \in SUBSET Slots
         /\ todo' = Pinned(plan') \cup Removable(f, pins)
         /\ \A i \in Slots : plan'[i] # NoNode =>
              /\ i \in InRange(f)
              /\ \/ plan'[i] = pins[i]
                 \/ /\ plan'[i] \in eligible
                    /\ pins[i] \in gone \cup {NoNode}
         /\ \E M \in SUBSET Slots :
              /\ Cardinality(M) <= Budget(f, gone)
              /\ \A i \in Pinned(pins) :
                   plan'[i] \notin {NoNode, pins[i]} => i \in M
<1> DEFINE missing == InRange(f) \ Pinned(pins)
<1>1. PICK moved \in Moves(Uprooted(pins, gone), eligible, Budget(f, gone)),
           target \in Targets(eligible, pins),
           fresh \in FreshPlans(missing, eligible, pins) :
        /\ plan' = [i \in Slots |->
                      IF i \notin InRange(f) THEN NoNode
                      ELSE IF i \in moved THEN target
                      ELSE IF i \in missing THEN fresh[i]
                      ELSE pins[i]]
        /\ todo' = Pinned(plan') \cup Removable(f, pins)
  BY DEF Decide
<1>2. /\ Uprooted(pins, gone) \in SUBSET Slots
      /\ \A i \in Uprooted(pins, gone) : pins[i] \in gone
  BY DEF Uprooted, Pinned
<1>3. /\ moved \subseteq Uprooted(pins, gone)
      /\ Cardinality(moved) <= Budget(f, gone)
      /\ moved # {} => eligible # {}
  BY <1>2, BudgetType, MovesType
<1>4. /\ target \in eligible \cup {NoNode}
      /\ eligible # {} => target \in eligible
  BY DEF Targets, LeastLoaded
<1>5. fresh \in [missing -> eligible \cup {NoNode}]
  BY DEF FreshPlans
<1>6. missing \subseteq Slots /\ \A i \in missing : pins[i] = NoNode
  BY DEF InRange, Pinned
<1> HIDE DEF missing
<1>7. plan' \in [Slots -> MaybeNode]
  BY <1>1, <1>4, <1>5 DEF MaybeNode
<1>8. todo' = Pinned(plan') \cup Removable(f, pins) /\ todo' \in SUBSET Slots
  BY <1>1 DEF Pinned, Removable
<1>9. ASSUME NEW i \in Slots, plan'[i] # NoNode
      PROVE  /\ i \in InRange(f)
             /\ \/ plan'[i] = pins[i]
                \/ /\ plan'[i] \in eligible
                   /\ pins[i] \in gone \cup {NoNode}
  BY <1>1, <1>2, <1>3, <1>4, <1>5, <1>6, <1>9
<1>10. ASSUME NEW i \in Pinned(pins), plan'[i] \notin {NoNode, pins[i]}
       PROVE  i \in moved
  BY <1>1, <1>6, <1>10 DEF Pinned
<1>11. moved \in SUBSET Slots
  BY <1>2, <1>3
<1>12. QED
  BY <1>3, <1>7, <1>8, <1>9, <1>10, <1>11

-----------------------------------------------------------------------------
(***************************************************************************)
(* Type correctness.                                                       *)
(***************************************************************************)
\* A FleetService before its first reconcile is a FleetService.
LEMMA NewFleetType ==
  ASSUME NEW r \in ReplicaChoices
  PROVE  NewFleet(r) \in FleetObject
<1>1. NoPlacement \in Placement
  BY DEF NoPlacement, Placement, PlacementPhases, MaybeNode
<1>2. QED
  BY <1>1 DEF NewFleet, FleetObject, FleetStatus, FleetPhases, Messages

\* What a reconcile forgets is typed.
LEMMA LocalsType ==
  ForgetLocals =>
    /\ pc' = "idle"
    /\ snap' \in FleetObject
    /\ view' \in [candidates : SUBSET Nodes, displaced : SUBSET Nodes]
    /\ {current', plan'} \subseteq [Slots -> MaybeNode]
    /\ todo' \in SUBSET Slots
<1> SUFFICES ASSUME ForgetLocals
             PROVE  /\ pc' = "idle"
                    /\ snap' \in FleetObject
                    /\ view' \in [candidates : SUBSET Nodes, displaced : SUBSET Nodes]
                    /\ {current', plan'} \subseteq [Slots -> MaybeNode]
                    /\ todo' \in SUBSET Slots
  OBVIOUS
<1>1. (CHOOSE r \in ReplicaChoices : TRUE) \in ReplicaChoices
  BY ConstantsAssumption
<1>2. snap' \in FleetObject
  BY <1>1, NewFleetType DEF ForgetLocals
<1>3. QED
  BY <1>2 DEF ForgetLocals, NoView, NoPins, MaybeNode

\* The entry of a slot in the new status is an entry.
LEMMA NewPlacementType ==
  ASSUME TypeOK, NEW i \in Slots, NEW ready
  PROVE  NewPlacement(i, ready) \in Placement
<1> DEFINE old == snap.status.placements[i]
           uprooted == i \in Uprooted(current, view.displaced)
<1>1. old \in Placement
  BY DEF TypeOK, FleetObject, FleetStatus
<1>2. old.surplus \in Int
  BY <1>1 DEF Placement
<1>3. plan[i] \in MaybeNode /\ current[i] \in MaybeNode
  BY DEF TypeOK
<1>4. Surplus(snap, i).count \in Int
  BY <1>2, SurplusType, ConstantsAssumption DEF Surplus
<1>5. /\ PlacementPhaseFor(old.phase, i \in ready, uprooted) \in PlacementPhases
      /\ PlacementPhaseFor(old.phase, i \in ready, FALSE) \in PlacementPhases
  BY DEF PlacementPhaseFor, PlacementPhases
<1>6. NoPlacement \in Placement
  BY DEF NoPlacement, Placement, PlacementPhases, MaybeNode
<1> DEFINE placed == [node |-> plan[i], surplus |-> 0,
                      phase |-> PlacementPhaseFor(old.phase, i \in ready, uprooted)]
           held == [node |-> current[i], surplus |-> Surplus(snap, i).count,
                    phase |-> PlacementPhaseFor(old.phase, i \in ready, FALSE)]
<1>7. placed \in Placement
  BY <1>3, <1>5 DEF Placement
<1>8. held \in Placement
  BY <1>3, <1>4, <1>5 DEF Placement
<1>9. NewPlacement(i, ready) \in {placed, held, NoPlacement}
  BY DEF NewPlacement
<1>10. QED
  BY <1>6, <1>7, <1>8, <1>9

\* The status a reconcile writes is a status.
LEMMA NewStatusType ==
  ASSUME TypeOK, NEW ready
  PROVE  NewStatus(ready) \in FleetStatus
<1> DEFINE new == [i \in Slots |-> NewPlacement(i, ready)]
           live == {i \in Slots : new[i].node # NoNode}
           readyOnes == {i \in live : new[i].phase = "Ready"}
           warming == {i \in live : new[i].phase \in {"Pending", "Warming"}}
           active == InFlight(new, view.displaced)
           newPhase == FleetPhaseFor(snap.replicas, Cardinality(readyOnes),
                                     Held(new, view.displaced) # {})
<1>1. new \in [Slots -> Placement]
  BY NewPlacementType
<1>2. {live, readyOnes, warming, active} \subseteq SUBSET Slots
  BY DEF InFlight
<1>3. /\ Cardinality(live) \in Nat
      /\ Cardinality(readyOnes) \in Nat
      /\ Cardinality(warming) \in Nat
      /\ Cardinality(active) \in Nat
  BY <1>2, SlotCount
<1>4. snap.replicas \in Int
  BY ConstantsAssumption DEF TypeOK, FleetObject
<1>5. newPhase \in FleetPhases
  BY DEF FleetPhaseFor, FleetPhases
<1> HIDE DEF new, live, readyOnes, warming, active, newPhase
<1>6. NewStatus(ready) =
        [phase |-> newPhase, message |-> "", desired |-> snap.replicas,
         replicas |-> Cardinality(live), ready |-> Cardinality(readyOnes),
         warming |-> Cardinality(warming), active |-> Cardinality(active),
         placements |-> new]
  BY DEF NewStatus, new, live, readyOnes, warming, active, newPhase
<1>7. [phase |-> newPhase, message |-> "", desired |-> snap.replicas,
       replicas |-> Cardinality(live), ready |-> Cardinality(readyOnes),
       warming |-> Cardinality(warming), active |-> Cardinality(active),
       placements |-> new] \in FleetStatus
  BY <1>1, <1>3, <1>4, <1>5 DEF FleetStatus, Messages
<1>8. QED
  BY <1>6, <1>7

\* Initially every variable is typed.
LEMMA InitType == Init => TypeOK
<1> SUFFICES ASSUME Init PROVE TypeOK
  OBVIOUS
<1>1. PICK r \in ReplicaChoices : fleet = NewFleet(r)
  BY DEF Init
<1>2. (CHOOSE q \in ReplicaChoices : TRUE) \in ReplicaChoices
  BY ConstantsAssumption
<1>3. {fleet, cached, snap} \subseteq FleetObject
  BY <1>1, <1>2, NewFleetType DEF Init
<1>4. NoPins \in [Slots -> MaybeNode]
  BY DEF NoPins, MaybeNode
<1>5. QED
  BY <1>3, <1>4 DEF Init, TypeOK, NoView

\* Every step keeps every variable typed.
LEMMA NextType == TypeOK /\ [Next]_vars => TypeOK'
<1> SUFFICES ASSUME TypeOK, [Next]_vars PROVE TypeOK'
  OBVIOUS
<1> USE DEF clusterVars, planVars, reconcileVars
<1>1. CASE StartUnsupported
  BY <1>1 DEF TypeOK, StartUnsupported
<1>2. ASSUME NEW readable \in BOOLEAN, StartPlanning(readable),
             faults' \in Nat
      PROVE  TypeOK'
  <2> DEFINE seen == IF readable THEN cordoned ELSE {}
             gone == notice \cup seen
             cands == Candidates(readable)
             capable == IF readable THEN Capable ELSE Nodes
             eligible == Eligible(cands, gone, capable)
  <2>1. cands \in SUBSET Nodes /\ gone \in SUBSET Nodes
    BY ConstantsAssumption DEF TypeOK, Candidates
  <2>2. eligible \in SUBSET Nodes
    BY <2>1 DEF Eligible
  <2> HIDE DEF eligible, cands, gone
  <2>3. CASE cands = {}
    BY <1>2, <2>1, <2>3 DEF TypeOK, StartPlanning, cands, gone
  <2>4. CASE cands # {}
    <3>1. /\ pc' = "act"
          /\ current' = child
          /\ Decide(cached, child, gone, eligible)
          /\ snap' = cached
          /\ view' = [candidates |-> cands, displaced |-> gone]
          /\ UNCHANGED <<fleet, clusterVars, cached, events>>
      BY <1>2, <2>4 DEF StartPlanning, cands, gone, eligible
    <3>2. cached \in FleetObject /\ child \in [Slots -> MaybeNode]
      BY DEF TypeOK
    <3>3. plan' \in [Slots -> MaybeNode] /\ todo' \in SUBSET Slots
      BY <2>2, <3>1, <3>2, DecideMoves
    <3>4. QED
      BY <1>2, <2>1, <3>1, <3>3 DEF TypeOK
  <2>5. QED
    BY <2>3, <2>4
<1>3. CASE Start
  <2>1. CASE StartPlanning(TRUE) /\ UNCHANGED faults
    <3>1. faults' \in Nat
      BY <2>1 DEF TypeOK
    <3>2. QED
      BY <1>2, <2>1, <3>1
  <2>2. QED
    BY <1>1, <1>3, <2>1 DEF Start
<1>4. CASE StartWithoutNodes
  <2>1. StartPlanning(FALSE)
    BY <1>4 DEF StartWithoutNodes
  <2>2. faults' \in Nat
    BY <1>4 DEF StartWithoutNodes, TypeOK
  <2>3. QED
    BY <1>2, <2>1, <2>2
<1>5. ASSUME NEW i \in Slots, ApplyChild(i)
      PROVE  TypeOK'
  BY <1>5 DEF TypeOK, ApplyChild
<1>6. ASSUME NEW i \in Slots, RemoveChild(i)
      PROVE  TypeOK'
  BY <1>6 DEF TypeOK, RemoveChild, MaybeNode
<1>7. CASE WriteStatus
  <2>1. PICK ready \in SUBSET Pinned(current) :
          fleet' = [fleet EXCEPT !.status = NewStatus(ready)]
    BY <1>7 DEF WriteStatus
  <2>2. fleet' \in FleetObject
    BY <2>1, NewStatusType DEF TypeOK, FleetObject
  <2>3. QED
    BY <1>7, <2>2, LocalsType DEF WriteStatus, TypeOK
<1>8. CASE WriteMessage
  <2> DEFINE first == snap.status.phase = ""
             why == IF snap.supported THEN "no candidate" ELSE "unsupported strategy"
             firstPhase == FleetPhaseFor(snap.replicas, 0, FALSE)
  <2>1. fleet \in FleetObject /\ snap.replicas \in Int
    BY ConstantsAssumption DEF TypeOK, FleetObject
  <2>2. firstPhase \in FleetPhases /\ why \in Messages
    BY DEF FleetPhaseFor, FleetPhases, Messages
  <2>3. fleet' = [fleet EXCEPT !.status.message = why,
                               !.status.phase = IF first THEN firstPhase ELSE @,
                               !.status.desired = IF first THEN snap.replicas ELSE @]
    BY <1>8 DEF WriteMessage
  <2> HIDE DEF first, why, firstPhase
  <2>4. fleet' \in FleetObject
    BY <2>1, <2>2, <2>3 DEF FleetObject, FleetStatus
  <2>5. QED
    BY <1>8, <2>4, LocalsType DEF WriteMessage, TypeOK
<1>9. CASE Abandon
  BY <1>9, LocalsType DEF Abandon, TypeOK
<1>10. CASE Sync
  BY <1>10 DEF Sync, TypeOK
<1>11. CASE Environment
  <2> USE DEF Event, TypeOK
  <2>1. ASSUME NEW n \in Nodes,
               \/ Report(n) \/ Unreport(n) \/ Notice(n) \/ ClearNotice(n)
               \/ Cordon(n) \/ Uncordon(n)
        PROVE  TypeOK'
    BY <2>1 DEF Report, Unreport, Notice, ClearNotice, Cordon, Uncordon
  <2>2. ASSUME NEW r \in ReplicaChoices, Scale(r)
        PROVE  TypeOK'
    <3>1. fleet' \in FleetObject
      BY <2>2 DEF Scale, FleetObject
    <3>2. QED
      BY <2>2, <3>1 DEF Scale
  <2>3. CASE ChangeStrategy
    <3>1. PICK b \in BOOLEAN : fleet' = [fleet EXCEPT !.supported = b]
      BY <2>3 DEF ChangeStrategy
    <3>2. fleet' \in FleetObject
      BY <3>1 DEF FleetObject
    <3>3. QED
      BY <2>3, <3>2 DEF ChangeStrategy
  <2>4. ASSUME NEW i \in Slots, LoseChild(i)
        PROVE  TypeOK'
    BY <2>4 DEF LoseChild, MaybeNode
  <2>5. QED
    BY <1>11, <2>1, <2>2, <2>3, <2>4 DEF Environment
<1>12. CASE UNCHANGED vars
  BY <1>12 DEF TypeOK, vars
<1>13. QED
  BY <1>3, <1>4, <1>5, <1>6, <1>7, <1>8, <1>9, <1>10, <1>11, <1>12
     DEF Next, Reconcile

(***************************************************************************)
(* TypeOK is an invariant: no interleaving of writes, events, abandoned    *)
(* reconciles and stale reads takes a variable out of its type             *)
(* (fleet_controller.rs:438-916).                                          *)
(***************************************************************************)
THEOREM TypeCorrect == Spec => []TypeOK
<1>1. Init => TypeOK
  BY InitType
<1>2. TypeOK /\ [Next]_vars => TypeOK'
  BY NextType
<1>3. QED
  BY <1>1, <1>2, PTL DEF Spec

-----------------------------------------------------------------------------
(***************************************************************************)
(* What holds between the steps of a reconcile.  The properties below are  *)
(* not inductive: a write is justified by reads made several steps before  *)
(* it, so the invariant has to carry what those reads established, and     *)
(* what a child may have become since.                                     *)
(***************************************************************************)
\* A planned pin is the one listed, or leads off a node found displaced (or from
\* no node) to an eligible one.
PinJustified(i) ==
    plan[i] # NoNode =>
        /\ i \in InRange(snap)
        /\ \/ plan[i] = current[i]
           \/ /\ plan[i] \in view.candidates \ view.displaced
              /\ current[i] \in view.displaced \cup {NoNode}

\* A child still to be written is as it was listed, or someone deleted it.
ChildAsListed(i) == i \in todo => child[i] \in {current[i], NoNode}

PlanInv ==
    /\ TypeOK
    /\ pc # "act" => current = NoPins /\ plan = NoPins /\ todo = {}
    /\ \A i \in Slots : PinJustified(i)
    /\ \A i \in Slots : ChildAsListed(i)
    /\ MovesWithinCap

\* A reconcile that has planned nothing moves nothing.
LEMMA NoPlanNoMove ==
  ASSUME plan = NoPins, todo = {}
  PROVE  /\ \A i \in Slots : PinJustified(i) /\ ChildAsListed(i)
         /\ MovesWithinCap
  BY DEF NoPins, PinJustified, ChildAsListed, MovesWithinCap, MovedSlots, Pinned

\* What forgets the locals establishes the invariant.
LEMMA ForgetPlan == TypeOK' /\ ForgetLocals => PlanInv'
<1> SUFFICES ASSUME TypeOK', ForgetLocals
             PROVE  PlanInv'
  OBVIOUS
<1>1. plan' = NoPins /\ current' = NoPins /\ todo' = {}
  BY DEF ForgetLocals
<1>2. /\ \A i \in Slots : PinJustified(i)' /\ ChildAsListed(i)'
      /\ MovesWithinCap'
  BY <1>1 DEF NoPins, PinJustified, ChildAsListed, MovesWithinCap, MovedSlots, Pinned
<1>3. QED
  BY <1>1, <1>2 DEF PlanInv

\* The reads of a reconcile justify its plan.
LEMMA PlanningEstablishes ==
  ASSUME PlanInv, TypeOK', NEW readable \in BOOLEAN, StartPlanning(readable)
  PROVE  PlanInv'
<1> USE DEF clusterVars
<1> DEFINE seen == IF readable THEN cordoned ELSE {}
           gone == notice \cup seen
           cands == Candidates(readable)
           capable == IF readable THEN Capable ELSE Nodes
           eligible == Eligible(cands, gone, capable)
<1>1. cands \in SUBSET Nodes /\ eligible \subseteq cands \ gone
  BY ConstantsAssumption DEF PlanInv, TypeOK, Candidates, Eligible
<1> HIDE DEF cands, gone, eligible
<1>2. CASE cands = {}
  <2>1. pc' = "message" /\ UNCHANGED <<current, plan, todo, child>> /\ pc = "idle"
    BY <1>2 DEF StartPlanning, cands
  <2>2. current' = NoPins /\ plan' = NoPins /\ todo' = {}
    BY <2>1 DEF PlanInv
  <2>3. /\ \A i \in Slots : PinJustified(i)' /\ ChildAsListed(i)'
        /\ MovesWithinCap'
    BY <2>2 DEF NoPins, PinJustified, ChildAsListed, MovesWithinCap, MovedSlots, Pinned
  <2>4. QED
    BY <2>2, <2>3 DEF PlanInv
<1>3. CASE cands # {}
  <2>1. /\ pc' = "act"
        /\ current' = child
        /\ child' = child
        /\ snap' = cached
        /\ view' = [candidates |-> cands, displaced |-> gone]
        /\ Decide(cached, child, gone, eligible)
    BY <1>3 DEF StartPlanning, cands, gone, eligible
  <2>2. cached \in FleetObject /\ child \in [Slots -> MaybeNode]
    BY DEF PlanInv, TypeOK
  <2>3. /\ \A i \in Slots : plan'[i] # NoNode =>
              /\ i \in InRange(cached)
              /\ \/ plan'[i] = child[i]
                 \/ /\ plan'[i] \in eligible
                    /\ child[i] \in gone \cup {NoNode}
        /\ \E M \in SUBSET Slots :
              /\ Cardinality(M) <= Budget(cached, gone)
              /\ \A i \in Pinned(child) :
                   plan'[i] \notin {NoNode, child[i]} => i \in M
    BY <1>1, <2>1, <2>2, DecideMoves
  <2>4. \A i \in Slots : PinJustified(i)'
    BY <1>1, <2>1, <2>3 DEF PinJustified, InRange, Desired
  <2>5. \A i \in Slots : ChildAsListed(i)'
    BY <2>1 DEF ChildAsListed
  <2>6. MovesWithinCap'
    <3>1. PICK M \in SUBSET Slots :
              /\ Cardinality(M) <= Budget(cached, gone)
              /\ \A i \in Pinned(child) :
                   plan'[i] \notin {NoNode, child[i]} => i \in M
      BY <2>3
    <3> DEFINE used == Cardinality(InFlight(cached.status.placements, gone))
    <3>2. InFlight(cached.status.placements, gone) \in SUBSET Slots
      BY DEF InFlight
    <3>3. MovedSlots' \subseteq M
      BY <2>1, <3>1 DEF MovedSlots, Pinned
    <3>4. /\ Cardinality(MovedSlots') \in Nat
          /\ Cardinality(M) \in Nat
          /\ Cardinality(MovedSlots') <= Cardinality(M)
          /\ used \in Nat
          /\ MovedSlots' # {} => Cardinality(MovedSlots') # 0
      BY <3>2, <3>3, SlotCount, SlotCountMonotone, FS_EmptySet
    <3>5. Budget(cached, gone) \in Nat
      BY <2>2, BudgetType
    <3>6. Budget(cached, gone) > 0 => Budget(cached, gone) + used = Cap
      BY <2>2, BudgetType
    <3>7. used = Cardinality(InFlight(snap.status.placements, view.displaced))'
      BY <2>1 DEF InFlight
    <3> HIDE DEF used
    <3>8. MovedSlots' # {} => Cardinality(MovedSlots') + used <= Cap
      BY <3>1, <3>4, <3>5, <3>6, ConstantsAssumption
    <3>9. QED
      BY <3>7, <3>8 DEF MovesWithinCap
  <2>7. QED
    BY <2>1, <2>4, <2>5, <2>6 DEF PlanInv
<1>4. QED
  BY <1>2, <1>3

\* Nothing is planned at first.
LEMMA PlanInvInit == Init => PlanInv
<1> SUFFICES ASSUME Init PROVE PlanInv
  OBVIOUS
<1>1. TypeOK
  BY InitType
<1>2. current = NoPins /\ plan = NoPins /\ todo = {} /\ pc = "idle"
  BY DEF Init
<1>3. QED
  BY <1>1, <1>2, NoPlanNoMove DEF PlanInv

\* A step that leaves the plan and what it was made from alone keeps it justified.
LEMMA PlanKept ==
  ASSUME PlanInv, TypeOK', UNCHANGED <<pc, snap, view, current, plan>>,
         todo' \subseteq todo,
         \A i \in todo' : child'[i] \in {child[i], NoNode}
  PROVE  PlanInv'
<1>1. \A i \in Slots : PinJustified(i)'
  BY DEF PlanInv, PinJustified, InRange, Desired
<1>2. \A i \in Slots : ChildAsListed(i)'
  BY DEF PlanInv, ChildAsListed
<1>3. MovesWithinCap'
  BY DEF PlanInv, MovesWithinCap, MovedSlots, Pinned, InFlight
<1>4. pc' # "act" => current' = NoPins /\ plan' = NoPins /\ todo' = {}
  BY DEF PlanInv
<1>5. QED
  BY <1>1, <1>2, <1>3, <1>4 DEF PlanInv

\* Every step keeps the plan justified by the reads behind it.
LEMMA PlanInvNext == PlanInv /\ [Next]_vars => PlanInv'
<1> SUFFICES ASSUME PlanInv, [Next]_vars PROVE PlanInv'
  OBVIOUS
<1>0. TypeOK /\ TypeOK'
  BY NextType DEF PlanInv
<1> USE DEF clusterVars, planVars, reconcileVars
<1>1. CASE StartUnsupported
  <2>1. current' = NoPins /\ plan' = NoPins /\ todo' = {}
    BY <1>1 DEF StartUnsupported, PlanInv
  <2>2. /\ \A i \in Slots : PinJustified(i)' /\ ChildAsListed(i)'
        /\ MovesWithinCap'
    BY <2>1 DEF NoPins, PinJustified, ChildAsListed, MovesWithinCap, MovedSlots, Pinned
  <2>3. QED
    BY <1>0, <2>1, <2>2 DEF PlanInv
<1>2. CASE Start
  <2>1. CASE StartPlanning(TRUE)
    BY <1>0, <2>1, PlanningEstablishes
  <2>2. QED
    BY <1>1, <1>2, <2>1 DEF Start
<1>3. CASE StartWithoutNodes
  <2>1. StartPlanning(FALSE)
    BY <1>3 DEF StartWithoutNodes
  <2>2. QED
    BY <1>0, <2>1, PlanningEstablishes
<1>4. ASSUME NEW i \in Slots, ApplyChild(i)
      PROVE  PlanInv'
  <2>1. /\ UNCHANGED <<pc, snap, view, current, plan>>
        /\ todo' = todo \ {i}
        /\ child' = [child EXCEPT ![i] = plan[i]]
    BY <1>4 DEF ApplyChild
  <2>2. \A j \in todo' : child'[j] = child[j]
    BY <1>0, <2>1 DEF TypeOK
  <2>3. QED
    BY <1>0, <2>1, <2>2, PlanKept
<1>5. ASSUME NEW i \in Slots, RemoveChild(i)
      PROVE  PlanInv'
  <2>1. /\ UNCHANGED <<pc, snap, view, current, plan>>
        /\ todo' = todo \ {i}
        /\ child' = [child EXCEPT ![i] = NoNode]
    BY <1>5 DEF RemoveChild
  <2>2. \A j \in todo' : child'[j] = child[j]
    BY <1>0, <2>1 DEF TypeOK
  <2>3. QED
    BY <1>0, <2>1, <2>2, PlanKept
<1>6. CASE WriteStatus
  BY <1>0, <1>6, ForgetPlan DEF WriteStatus
<1>7. CASE WriteMessage
  BY <1>0, <1>7, ForgetPlan DEF WriteMessage
<1>8. CASE Abandon
  BY <1>0, <1>8, ForgetPlan DEF Abandon
<1>9. CASE Sync
  BY <1>0, <1>9, PlanKept DEF Sync
<1>10. CASE Environment
  <2> USE DEF Event
  <2>1. UNCHANGED <<pc, snap, view, current, plan, todo>>
    BY <1>10 DEF Environment, Report, Unreport, Notice, ClearNotice, Cordon,
                 Uncordon, Scale, ChangeStrategy, LoseChild
  <2>2. \A i \in Slots : child'[i] \in {child[i], NoNode}
    BY <1>0, <1>10 DEF TypeOK, Environment, Report, Unreport, Notice, ClearNotice,
                 Cordon, Uncordon, Scale, ChangeStrategy, LoseChild
  <2>3. todo' \subseteq Slots
    BY <1>0 DEF TypeOK
  <2>4. QED
    BY <1>0, <2>1, <2>2, <2>3, PlanKept
<1>11. CASE UNCHANGED vars
  BY <1>0, <1>11, PlanKept DEF vars
<1>12. QED
  BY <1>2, <1>3, <1>4, <1>5, <1>6, <1>7, <1>8, <1>9, <1>10, <1>11
     DEF Next, Reconcile

(***************************************************************************)
(* Between the steps of a reconcile, whatever else happened, what is left  *)
(* to write is still justified by its reads.                               *)
(***************************************************************************)
THEOREM PlanInvariant == Spec => []PlanInv
<1>1. Init => PlanInv
  BY PlanInvInit
<1>2. PlanInv /\ [Next]_vars => PlanInv'
  BY PlanInvNext
<1>3. QED
  BY <1>1, <1>2, PTL DEF Spec

(***************************************************************************)
(* A reconcile starts moves only in the room the moves it knows to be in   *)
(* flight leave under the cap, whatever the cap, the nodes and the         *)
(* replicas are (fleet_controller.rs:639-674).                             *)
(***************************************************************************)
THEOREM MovesStayWithinCap == Spec => []MovesWithinCap
<1>1. PlanInv => MovesWithinCap
  BY DEF PlanInv
<1>2. QED
  BY <1>1, PlanInvariant, PTL

\* A step that pins a child to another node is justified by what the reconcile
\* read, or puts back a child that vanished.
LEMMA PinChange ==
  ASSUME PlanInv, Next, NEW i \in Slots, child'[i] \notin {NoNode, child[i]}
  PROVE  \/ /\ child[i] \in view.displaced \cup {NoNode}
            /\ child'[i] \in view.candidates \ view.displaced
         \/ child[i] = NoNode /\ child'[i] = current[i]
<1> USE DEF clusterVars, planVars, reconcileVars
<1>1. child \in [Slots -> MaybeNode]
  BY DEF PlanInv, TypeOK
<1>2. ASSUME NEW j \in Slots, ApplyChild(j)
      PROVE  \/ /\ child[i] \in view.displaced \cup {NoNode}
                /\ child'[i] \in view.candidates \ view.displaced
             \/ child[i] = NoNode /\ child'[i] = current[i]
  <2>1. child' = [child EXCEPT ![j] = plan[j]] /\ j \in todo
    BY <1>2 DEF ApplyChild, IsFirst
  <2>2. i = j /\ child'[i] = plan[i] /\ plan[i] # NoNode
    BY <1>1, <2>1
  <2>3. child[i] \in {current[i], NoNode}
    BY <2>1, <2>2 DEF PlanInv, ChildAsListed
  <2>4. \/ plan[i] = current[i]
        \/ /\ plan[i] \in view.candidates \ view.displaced
           /\ current[i] \in view.displaced \cup {NoNode}
    BY <2>2 DEF PlanInv, PinJustified
  <2>5. QED
    BY <2>2, <2>3, <2>4
<1>3. ASSUME NEW j \in Slots, RemoveChild(j)
      PROVE  FALSE
  BY <1>1, <1>3 DEF RemoveChild
<1>4. ASSUME Start \/ StartWithoutNodes \/ WriteStatus \/ WriteMessage
               \/ Abandon \/ Sync
      PROVE  FALSE
  BY <1>4 DEF Start, StartUnsupported, StartPlanning, StartWithoutNodes,
              WriteStatus, WriteMessage, Abandon, Sync
<1>5. ASSUME Environment
      PROVE  FALSE
  BY <1>1, <1>5 DEF Environment, Report, Unreport, Notice, ClearNotice, Cordon,
              Uncordon, Scale, ChangeStrategy, LoseChild
<1>6. QED
  BY <1>2, <1>3, <1>4, <1>5 DEF Next, Reconcile

(***************************************************************************)
(* A replica changes node only to escape a node found displaced, in any    *)
(* interleaving of stale reads, abandoned reconciles, lost children and    *)
(* rescaling (ADR-0005 decision 1; fleet_controller.rs:674-746).           *)
(***************************************************************************)
THEOREM PinsEscape == Spec => PinsChangeOnlyToEscape
<1>1. PlanInv /\ [Next]_vars =>
        [\A i \in Slots :
           child'[i] \notin {NoNode, child[i]} =>
              \/ /\ child[i] \in view.displaced \cup {NoNode}
                 /\ child'[i] \in view.candidates \ view.displaced
              \/ child[i] = NoNode /\ child'[i] = current[i]]_vars
  BY PinChange
<1>2. QED
  BY <1>1, PlanInvariant, PTL DEF Spec, PinsChangeOnlyToEscape

\* The step that ends a reconcile with neither fault nor early return is the
\* write of its status.
LEMMA CompletesByWriting ==
  ASSUME TypeOK, Next, Completes
  PROVE  WriteStatus
<1> USE DEF Completes, clusterVars, planVars, reconcileVars
<1>1. ASSUME Start \/ StartWithoutNodes \/ WriteMessage \/ Sync PROVE FALSE
  BY <1>1 DEF Start, StartUnsupported, StartPlanning, StartWithoutNodes,
              WriteMessage, Sync
<1>2. ASSUME NEW i \in Slots, ApplyChild(i) \/ RemoveChild(i) PROVE FALSE
  BY <1>2 DEF ApplyChild, RemoveChild
<1>3. ASSUME Environment PROVE FALSE
  <2>1. pc' = pc
    BY <1>3 DEF Environment, Report, Unreport, Notice, ClearNotice, Cordon,
                Uncordon, Scale, ChangeStrategy, LoseChild, Event
  <2>2. QED
    BY <2>1
<1>4. ASSUME Abandon PROVE FALSE
  <2>1. faults \in Nat /\ faults' = faults + 1
    BY <1>4 DEF Abandon, TypeOK
  <2>2. QED
    BY <2>1
<1>5. QED
  BY <1>1, <1>2, <1>3, <1>4 DEF Next, Reconcile

\* A slot is drained and held exactly when it is in range, pinned to a displaced
\* node and kept there.
LEMMA HeldSlots ==
  ASSUME PlanInv, NEW i \in Slots, NEW ready
  PROVE  i \in Held([j \in Slots |-> NewPlacement(j, ready)], view.displaced) <=>
           /\ i \in InRange(snap) \cap Pinned(current)
           /\ current[i] \in view.displaced
           /\ plan[i] = current[i]
<1> DEFINE old == snap.status.placements[i]
           uprooted == i \in Uprooted(current, view.displaced)
           new == NewPlacement(i, ready)
<1>1. i \in Held([j \in Slots |-> NewPlacement(j, ready)], view.displaced) <=>
        /\ new.node # NoNode
        /\ new.phase = "Draining"
        /\ new.node \in view.displaced
  BY DEF Held
<1>2. uprooted <=> i \in Pinned(current) /\ current[i] \in view.displaced
  BY DEF Uprooted
<1>3. CASE i \in InRange(snap) /\ plan[i] # NoNode
  <2>1. /\ new.node = plan[i]
        /\ new.phase = PlacementPhaseFor(old.phase, i \in ready, uprooted)
    BY <1>3 DEF NewPlacement
  <2>2. PlacementPhaseFor(old.phase, i \in ready, uprooted) = "Draining" <=> uprooted
    BY DEF PlacementPhaseFor
  <2>3. \/ plan[i] = current[i]
        \/ plan[i] \in view.candidates \ view.displaced
    BY <1>3 DEF PlanInv, PinJustified
  <2>4. QED
    BY <1>1, <1>2, <1>3, <2>1, <2>2, <2>3 DEF Pinned
<1>4. CASE ~(i \in InRange(snap) /\ plan[i] # NoNode)
  <2>1. ~(i \in InRange(snap) \cap Pinned(current) /\ plan[i] = current[i])
    BY <1>4 DEF Pinned
  <2>2. PlacementPhaseFor(old.phase, i \in ready, FALSE) # "Draining"
    BY DEF PlacementPhaseFor
  <2>3. new = NoPlacement \/
        new.phase = PlacementPhaseFor(old.phase, i \in ready, FALSE)
    BY <1>4 DEF NewPlacement
  <2>4. NoPlacement.phase # "Draining"
    BY DEF NoPlacement
  <2>5. QED
    BY <1>1, <2>1, <2>2, <2>3, <2>4
<1>5. QED
  BY <1>3, <1>4

\* The status says Degraded exactly when a slot is drained and held.
LEMMA StatusPhase ==
  ASSUME NEW ready
  PROVE  NewStatus(ready).phase = "Degraded" <=>
           Held([j \in Slots |-> NewPlacement(j, ready)], view.displaced) # {}
  BY DEF NewStatus, FleetPhaseFor

(***************************************************************************)
(* A completed reconcile reports Degraded exactly when it keeps a replica  *)
(* in range on a displaced node (ADR-0005 decision 3;                      *)
(* fleet_controller.rs:862-886).                                           *)
(***************************************************************************)
THEOREM HoldsAreReported == Spec => HoldIsDegraded
<1>1. ASSUME PlanInv, Next, Completes
      PROVE  (fleet'.status.phase = "Degraded")
               = (\E i \in InRange(snap) \cap Pinned(current) :
                     current[i] \in view.displaced /\ plan[i] = current[i])
  <2>1. WriteStatus
    BY <1>1, CompletesByWriting DEF PlanInv
  <2>2. PICK ready \in SUBSET Pinned(current) :
          fleet' = [fleet EXCEPT !.status = NewStatus(ready)]
    BY <2>1 DEF WriteStatus
  <2>3. fleet'.status = NewStatus(ready)
    BY <1>1, <2>2 DEF PlanInv, TypeOK, FleetObject
  <2>4. fleet'.status.phase = "Degraded" <=>
          Held([j \in Slots |-> NewPlacement(j, ready)], view.displaced) # {}
    BY <2>3, StatusPhase
  <2>5. Held([j \in Slots |-> NewPlacement(j, ready)], view.displaced) # {} <=>
          \E i \in Slots :
            i \in Held([j \in Slots |-> NewPlacement(j, ready)], view.displaced)
    BY DEF Held
  <2>6. QED
    BY <1>1, <2>4, <2>5, HeldSlots DEF InRange
<1>2. PlanInv /\ [Next]_vars =>
        [Completes =>
          (fleet'.status.phase = "Degraded")
            = (\E i \in InRange(snap) \cap Pinned(current) :
                  current[i] \in view.displaced /\ plan[i] = current[i])]_vars
  BY <1>1
<1>3. QED
  BY <1>2, PlanInvariant, PTL DEF Spec, HoldIsDegraded

-----------------------------------------------------------------------------
(***************************************************************************)
(* The reconcile implements FleetPromise, for every value of the           *)
(* constants, under the refinement mapping of FleetController: its orders  *)
(* are the writes still to be made.                                        *)
(***************************************************************************)
\* The instance counts as this module does.
LEMMA SameCardinality ==
  ASSUME NEW S
  PROVE  Promise!Cardinality(S) = Cardinality(S)
  BY DEF Promise!Cardinality, Promise!IsFiniteSet, Cardinality, IsFiniteSet

\* The order a slot has in the round.
OrderOf(i) == [slot |-> i, from |-> current[i], to |-> plan[i]]

\* The orders are those of the slots left to write, each with its own.
LEMMA OrdersAre ==
  /\ Orders = {OrderOf(i) : i \in todo}
  /\ todo = {} => Orders = {}
  /\ \A i, j : OrderOf(i) = OrderOf(j) => i = j
  BY DEF Orders, OrderOf

\* Nothing is ordered, and nobody displaced, at first.
LEMMA PromiseInit == Init => Promise!Init
<1> SUFFICES ASSUME Init PROVE Promise!Init
  OBVIOUS
<1>1. Orders = {}
  BY DEF Init, Orders
<1>2. Displaced = {}
  BY DEF Init, Displaced
<1>3. child = [i \in Slots |-> NoNode] /\ InRange(cached) \subseteq Slots
  BY DEF Init, NoPins, InRange
<1>4. QED
  BY <1>1, <1>2, <1>3 DEF Promise!Init

\* A step that leaves the children, the cache, the notices and cordons and the
\* orders alone is not seen.
LEMMA Unseen ==
  ASSUME UNCHANGED <<child, cached, notice, cordoned>>, UNCHANGED Orders
  PROVE  UNCHANGED Promise!promiseVars
  BY DEF Promise!promiseVars, InRange, Desired, Displaced

\* What the reconcile plans from its reads is a sound survey.
LEMMA PlanningSurveys ==
  ASSUME PlanInv, PlanInv', NEW readable \in BOOLEAN, StartPlanning(readable)
  PROVE  [Promise!Next]_Promise!promiseVars
<1> USE DEF clusterVars
<1> DEFINE seen == IF readable THEN cordoned ELSE {}
           gone == notice \cup seen
           cands == Candidates(readable)
           capable == IF readable THEN Capable ELSE Nodes
           eligible == Eligible(cands, gone, capable)
<1>1. /\ cands \in SUBSET Nodes
      /\ eligible \subseteq cands \ gone
      /\ gone \in SUBSET Displaced
      /\ Displaced' = Displaced
  BY ConstantsAssumption DEF PlanInv, TypeOK, Candidates, Eligible, Displaced,
                             StartPlanning
<1>2. /\ UNCHANGED <<child, cached, notice, cordoned>>
      /\ snap' = cached
      /\ view' = [candidates |-> cands, displaced |-> gone]
      /\ pc = "idle"
      /\ cands = {} => UNCHANGED <<current, plan, todo>>
      /\ cands # {} => current' = child /\ Decide(cached, child, gone, eligible)
  BY DEF StartPlanning
<1> HIDE DEF cands, gone, eligible
<1>3. CASE cands = {}
  <2>1. UNCHANGED Orders
    BY <1>2, <1>3 DEF Orders
  <2>2. QED
    BY <1>2, <2>1, Unseen
<1>4. CASE cands # {}
  <2>1. Orders = {}
    BY <1>2, OrdersAre DEF PlanInv
  <2>2. cached \in FleetObject /\ child \in [Slots -> MaybeNode]
    BY DEF PlanInv, TypeOK
  <2>3. /\ plan' \in [Slots -> MaybeNode]
        /\ todo' \in SUBSET Slots
        /\ todo' = Pinned(plan') \cup Removable(cached, child)
        /\ \A i \in Slots : plan'[i] # NoNode =>
              /\ i \in InRange(cached)
              /\ \/ plan'[i] = child[i]
                 \/ /\ plan'[i] \in eligible
                    /\ child[i] \in gone \cup {NoNode}
    BY <1>1, <1>2, <1>4, <2>2, DecideMoves
  <2>4. \A i \in todo' : plan'[i] = NoNode <=> i \notin InRange(cached)
    BY <2>3 DEF Pinned, Removable
  <2>5. Orders' = {[slot |-> i, from |-> child[i], to |-> plan'[i]] : i \in todo'}
    BY <1>2, <1>4 DEF Orders
  <2>6. Orders' \subseteq Promise!Order
    BY <2>2, <2>3, <2>5 DEF Promise!Order, Promise!MaybeNode, MaybeNode
  <2>7. \A o \in Orders', p \in Orders' : o.slot = p.slot => o = p
    BY <2>5
  <2>8. ASSUME NEW o \in Orders'
        PROVE  /\ o.from = child[o.slot]
               /\ o.to = NoNode <=> o.slot \notin InRange(cached)
               /\ o.to \notin {NoNode, o.from} =>
                     o.from \in gone \cup {NoNode} /\ o.to \notin gone
    <3>1. PICK i \in todo' : o = [slot |-> i, from |-> child[i], to |-> plan'[i]]
      BY <2>5
    <3>2. o.slot = i /\ o.from = child[i] /\ o.to = plan'[i] /\ i \in Slots
      BY <2>3, <3>1
    <3>3. QED
      BY <1>1, <2>3, <2>4, <3>2
  <2>9. Promise!Moved(Orders') # {} => Cardinality(Promise!Moved(Orders')) <= Cap
    <3>1. Promise!Moved(Orders') = MovedSlots'
      <4>1. \A i \in Slots : i \in Promise!Moved(Orders') <=>
              /\ i \in todo'
              /\ child[i] # NoNode
              /\ plan'[i] \notin {NoNode, child[i]}
        <5>1. ASSUME NEW i \in todo'
              PROVE  i \in Promise!Moved(Orders') <=>
                       child[i] # NoNode /\ plan'[i] \notin {NoNode, child[i]}
          <6> DEFINE o == [slot |-> i, from |-> child[i], to |-> plan'[i]]
          <6>1. o \in Orders' /\ \A p \in Orders' : p.slot = i => p = o
            BY <2>5
          <6>2. o.slot = i /\ o.from = child[i] /\ o.to = plan'[i]
            OBVIOUS
          <6> HIDE DEF o
          <6>3. i \in Slots
            BY <2>3
          <6>4. QED
            BY <6>1, <6>2, <6>3 DEF Promise!Moved, Promise!IsMove
        <5>2. \A i \in Slots : i \in Promise!Moved(Orders') => i \in todo'
          BY <2>5 DEF Promise!Moved
        <5>3. QED
          BY <5>1, <5>2
      <4>2. \A i \in Slots : i \in MovedSlots' <=>
              /\ child[i] # NoNode
              /\ plan'[i] \notin {NoNode, child[i]}
        BY <1>2, <1>4 DEF MovedSlots, Pinned
      <4>3. \A i \in Slots : plan'[i] # NoNode => i \in todo'
        BY <2>3 DEF Pinned
      <4>4. Promise!Moved(Orders') \subseteq Slots /\ MovedSlots' \subseteq Slots
        BY DEF Promise!Moved, MovedSlots, Pinned
      <4>5. QED
        BY <4>1, <4>2, <4>3, <4>4
    <3> DEFINE used == Cardinality(InFlight(snap.status.placements, view.displaced))'
               moves == Cardinality(MovedSlots')
    <3>2. InFlight(snap.status.placements, view.displaced)' \in SUBSET Slots
      BY DEF InFlight
    <3>3. used \in Nat
      BY <3>2, SlotCount
    <3>4. MovedSlots' \in SUBSET Slots
      BY DEF MovedSlots, Pinned
    <3>5. moves \in Nat
      BY <3>4, SlotCount
    <3>6. MovedSlots' # {} => moves + used <= Cap
      BY DEF PlanInv, MovesWithinCap
    <3> HIDE DEF used, moves
    <3>7. MovedSlots' # {} => moves <= Cap
      BY <3>3, <3>5, <3>6, ConstantsAssumption
    <3>8. QED
      BY <3>1, <3>7 DEF moves
  <2>10. Promise!Sound(Orders', gone)
    BY <2>6, <2>7, <2>8, <2>9, SameCardinality DEF Promise!Sound
  <2>11. UNCHANGED <<child, InRange(cached), Displaced>>
    BY <1>1, <1>2 DEF InRange, Desired
  <2>12. Promise!Survey
    BY <1>1, <2>1, <2>10, <2>11 DEF Promise!Survey
  <2>13. QED
    BY <2>12 DEF Promise!Next
<1>5. QED
  BY <1>3, <1>4

\* An apply or a delete carries out the order of its slot.
LEMMA WriteCarriesOut ==
  ASSUME PlanInv, NEW i \in todo,
         child' = [child EXCEPT ![i] = plan[i]], todo' = todo \ {i},
         UNCHANGED <<cached, notice, cordoned, current, plan>>
  PROVE  Promise!Next
<1>1. OrderOf(i) \in Orders
  BY OrdersAre
<1>2. /\ OrderOf(i).slot = i
      /\ OrderOf(i).from = current[i]
      /\ OrderOf(i).to = plan[i]
  BY DEF OrderOf
<1>3. child[i] \in {current[i], NoNode}
  BY DEF PlanInv, TypeOK, ChildAsListed
<1>4. Orders' = Orders \ {OrderOf(i)}
  <2>1. Orders' = {OrderOf(j) : j \in todo \ {i}}
    BY DEF Orders, OrderOf
  <2>2. QED
    BY <2>1, OrdersAre
<1>5. UNCHANGED <<InRange(cached), Displaced>>
  BY DEF InRange, Desired, Displaced
<1>6. Promise!CarryOut(OrderOf(i))
  BY <1>1, <1>2, <1>3, <1>4, <1>5 DEF Promise!CarryOut
<1>7. QED
  BY <1>1, <1>6 DEF Promise!Next

\* The end of a reconcile, written or abandoned, drops what is left.
LEMMA EndDrops ==
  ASSUME todo' = {}, UNCHANGED <<child, cached, notice, cordoned>>
  PROVE  Promise!Next
<1>1. Orders' = {}
  BY DEF Orders
<1>2. UNCHANGED <<InRange(cached), Displaced>>
  BY DEF InRange, Desired, Displaced
<1>3. Promise!Drop
  BY <1>1, <1>2 DEF Promise!Drop
<1>4. QED
  BY <1>3 DEF Promise!Next

\* Every step of the reconcile, of the cluster and of the watch is a step of the
\* promise or is not seen.
LEMMA PromiseNext ==
  PlanInv /\ PlanInv' /\ [Next]_vars => [Promise!Next]_Promise!promiseVars
<1> SUFFICES ASSUME PlanInv, PlanInv', [Next]_vars
             PROVE  [Promise!Next]_Promise!promiseVars
  OBVIOUS
<1> USE DEF clusterVars, planVars, reconcileVars
<1>1. CASE StartUnsupported
  BY <1>1, Unseen DEF StartUnsupported, Orders
<1>2. CASE Start
  BY <1>1, <1>2, PlanningSurveys DEF Start
<1>3. CASE StartWithoutNodes
  BY <1>3, PlanningSurveys DEF StartWithoutNodes
<1>4. ASSUME NEW i \in Slots, ApplyChild(i)
      PROVE  Promise!Next
  BY <1>4, WriteCarriesOut DEF ApplyChild, IsFirst
<1>5. ASSUME NEW i \in Slots, RemoveChild(i)
      PROVE  Promise!Next
  <2>1. plan[i] = NoNode
    BY <1>5 DEF RemoveChild, PlanInv, PinJustified
  <2>2. QED
    BY <1>5, <2>1, WriteCarriesOut DEF RemoveChild, IsFirst
<1>6. CASE WriteStatus \/ WriteMessage \/ Abandon
  BY <1>6, EndDrops DEF WriteStatus, WriteMessage, Abandon, ForgetLocals
<1>7. CASE Sync
  <2>1. UNCHANGED <<child, Orders, Displaced>> /\ InRange(cached') \subseteq Slots
    BY <1>7 DEF Sync, Orders, Displaced, InRange
  <2>2. Promise!Hear
    BY <2>1 DEF Promise!Hear, InRange, Desired
  <2>3. QED
    BY <2>2 DEF Promise!Next
<1>8. CASE Environment
  <2>1. UNCHANGED <<cached, Orders>> /\ UNCHANGED InRange(cached)
    BY <1>8 DEF Environment, Report, Unreport, Notice, ClearNotice, Cordon,
                Uncordon, Scale, ChangeStrategy, LoseChild, Event, Orders,
                InRange, Desired
  <2>2. ASSUME NEW i \in Slots, LoseChild(i)
        PROVE  Promise!Next
    <3>1. Promise!Lose(i)
      BY <2>1, <2>2 DEF Promise!Lose, LoseChild, Displaced
    <3>2. QED
      BY <3>1 DEF Promise!Next
  <2>3. CASE UNCHANGED child
    <3>1. Displaced' \subseteq Nodes
      BY DEF PlanInv, TypeOK, Displaced
    <3>2. Promise!Displace
      BY <2>1, <2>3, <3>1 DEF Promise!Displace
    <3>3. QED
      BY <3>2 DEF Promise!Next
  <2>4. UNCHANGED child \/ \E i \in Slots : LoseChild(i)
    BY <1>8 DEF Environment, Report, Unreport, Notice, ClearNotice, Cordon,
                Uncordon, Scale, ChangeStrategy
  <2>5. QED
    BY <2>2, <2>3, <2>4
<1>9. CASE UNCHANGED vars
  BY <1>9, Unseen DEF vars, Orders
<1>10. QED
  BY <1>2, <1>3, <1>4, <1>5, <1>6, <1>7, <1>8, <1>9 DEF Next, Reconcile

(***************************************************************************)
(* The reconcile keeps the promise, whatever the cluster, the cache, the   *)
(* faults and the interference: each step that is seen is an order of a    *)
(* sound survey carried out, a round begun or dropped, or someone else's   *)
(* doing (fleet_controller.rs:497-840; ADR-0005 decisions 1-3).            *)
(***************************************************************************)
THEOREM FleetKeepsPromise == Spec => KeepsPromise
<1>1. PlanInv /\ PlanInv' /\ [Next]_vars => [Promise!Next]_Promise!promiseVars
  BY PromiseNext
<1>2. Init => Promise!Init
  BY PromiseInit
<1>3. QED
  BY <1>1, <1>2, PlanInvariant, PTL DEF Spec, KeepsPromise, Promise!Spec
=============================================================================
