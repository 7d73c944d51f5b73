-------------------------- MODULE FleetController --------------------------
(***************************************************************************)
(* The reconcile of one FleetService (src/src/fleet_controller.rs) against *)
(* the API server:                                                         *)
(*                                                                         *)
(*    idle --> act ... act --> idle      reads and plan; one write per     *)
(*      |                                child; the status                 *)
(*      +----> message ------> idle      early return: only a message is   *)
(*                                       written to the status             *)
(*                                                                         *)
(* The FleetService comes from a watch cache, which may lag the API        *)
(* server; NodeStates, Nodes and children are listed live.  No write is    *)
(* made before the last list, and each list reads variables nothing else   *)
(* in the reconcile and no other list depends on, so the lists are taken   *)
(* together: an event between two of them has the same outcome as one      *)
(* before or after both.  Between any two writes the cluster, the user and *)
(* the autoscaler may act, and the reconcile may be abandoned (an API      *)
(* error, the 30 s timeout, a crash of the operator) with the writes made  *)
(* so far in place.                                                        *)
(***************************************************************************)
EXTENDS FleetPhases, FiniteSets

CONSTANTS
    Nodes,            \* names of the nodes of the cluster
    NoNode,           \* no pin: an Option<String> that is None
    MaxReplicas,      \* bound on spec.replicas: slots are 0 .. MaxReplicas-1
    ReplicaChoices,   \* values the user or the autoscaler gives spec.replicas
    HasSelector,      \* whether nodePool.selector is set
    Pool,             \* the Nodes that selector admits
    Capable,          \* the Nodes whose allocatable GPUs cover the request
    Cap,              \* hysteresis.max_concurrent_reschedules
    StableRequired,   \* hysteresis.stable_reconciles_required
    FreshCache,       \* TRUE: a reconcile starts only once the cache caught up
    MaxFaults,        \* bound on abandoned reconciles and failed Node lists
    MaxEvents         \* bound on what the user and the cluster do

ASSUME ConstantsAssumption ==
    /\ IsFiniteSet(Nodes)
    /\ NoNode \notin Nodes
    /\ MaxReplicas \in Nat
    /\ ReplicaChoices \subseteq Int
    /\ ReplicaChoices # {}
    /\ \A r \in ReplicaChoices : r <= MaxReplicas
    /\ {HasSelector, FreshCache} \subseteq BOOLEAN
    /\ Pool \subseteq Nodes
    /\ Capable \subseteq Nodes
    /\ {Cap, StableRequired} \subseteq Int
    /\ {MaxFaults, MaxEvents} \subseteq Nat

VARIABLES
    \* The API server.
    fleet,        \* the FleetService: the spec fields that change, and status
    child,        \* slot -> node its VllmService is pinned to, or NoNode
    reported,     \* nodes with a NodeState that has a status
    notice,       \* nodes whose NodeState carries a preemption notice
    cordoned,     \* Nodes marked unschedulable
    \* The controller process.
    cached,       \* the FleetService in the watch cache
    pc,           \* where the reconcile is
    snap,         \* the FleetService this reconcile was handed
    view,         \* the candidates and the displaced nodes it listed
    current,      \* slot -> node, as its list of children returned them
    plan,         \* slot -> node it will apply (slot_nodes)
    todo,         \* slots whose apply or delete has not been sent yet
    \* Bounds.
    faults, events

clusterVars   == <<child, reported, notice, cordoned>>
planVars      == <<snap, view, current, plan>>
reconcileVars == <<pc, planVars, todo>>
vars == <<fleet, clusterVars, cached, reconcileVars, faults, events>>

-----------------------------------------------------------------------------
(***************************************************************************)
(* Values.                                                                 *)
(***************************************************************************)
Slots == 0 .. MaxReplicas - 1

MaybeNode == Nodes \cup {NoNode}

\* PlacementStatus, without the inputs recorded for the reader (decidedOn).
Placement == [node : MaybeNode, phase : PlacementPhases, surplus : Int]

\* A slot without an entry reads as the defaults the code falls back on.
NoPlacement == [node |-> NoNode, phase |-> "Pending", surplus |-> 0]

Messages == {"", "unsupported strategy", "no candidate"}

FleetStatus == [phase : FleetPhases, message : Messages, desired : Int,
                replicas : Nat, ready : Nat, warming : Nat, active : Nat,
                placements : [Slots -> Placement]]

FleetObject == [replicas : ReplicaChoices, supported : BOOLEAN,
                status : FleetStatus]

NewFleet(r) ==
    [replicas |-> r, supported |-> TRUE,
     status |-> [phase |-> "", message |-> "", desired |-> 0, replicas |-> 0,
                 ready |-> 0, warming |-> 0, active |-> 0,
                 placements |-> [i \in Slots |-> NoPlacement]]]

Desired(f) == IF f.replicas > 0 THEN f.replicas ELSE 0

InRange(f) == {i \in Slots : i < Desired(f)}

Pinned(pins) == {i \in Slots : pins[i] # NoNode}

Placed(st) == {i \in Slots : st.placements[i].node # NoNode}

\* The lowest slot of a set: both loops of the reconcile go in slot order.
IsFirst(i, S) == i \in S /\ \A j \in S : i <= j

-----------------------------------------------------------------------------
(***************************************************************************)
(* The decisions of one reconcile.                                         *)
(***************************************************************************)
\* Plausible slips, substituted one at a time when the properties are tested.

DisplacedStayEligible(cands, gone, capable) == cands \cap capable

CapIgnoresInFlight(f, gone) == IF Cap > 0 THEN Cap ELSE 0

HoldsTakeTheCap(f, gone) ==
    LET used == Cardinality({i \in Placed(f.status) :
                    f.status.placements[i].phase \in {"Draining", "Rescheduling"}})
    IN  IF Cap > used THEN Cap - used ELSE 0

OnlyAppends(missing, eligible, pins) ==
    {f \in [missing -> eligible \cup {NoNode}] :
        \A i \in missing :
            f[i] = NoNode <=> (eligible = {} \/ \E j \in Pinned(pins) : j > i)}

-----------------------------------------------------------------------------
\* Placements draining or rescheduling on a node that is not displaced: the
\* moves in flight that consume the cap, and status.activeReschedules.
InFlight(placements, gone) ==
    {i \in Slots : /\ placements[i].node # NoNode
                   /\ placements[i].phase \in {"Draining", "Rescheduling"}
                   /\ placements[i].node \notin gone}

\* preempted_slots: pinned to a displaced node.
Uprooted(pins, gone) == {i \in Pinned(pins) : pins[i] \in gone}

\* How many moves this reconcile may start.
Budget(f, gone) ==
    LET cap  == IF Cap > 0 THEN Cap ELSE 0
        used == Cardinality(InFlight(f.status.placements, gone))
    IN  IF cap > used THEN cap - used ELSE 0

\* Who may be ranked: with a selector the schedulable Nodes it admits, without
\* one the nodes with a NodeState, minus those known to be cordoned.
Candidates(readable) ==
    IF HasSelector THEN IF readable THEN Pool \ cordoned ELSE {}
    ELSE reported \ (IF readable THEN cordoned ELSE {})

\* healthy_candidates: not displaced, and able to run the requested GPUs.
Eligible(cands, gone, capable) == (cands \ gone) \cap capable

\* own_placements_per_node, with the picks already made for lower slots.
Load(n, pins) == Cardinality({i \in Slots : pins[i] = n})

\* Where either strategy may place a replica: both rank on own_replicas first
\* (ADR-0018).  Which of these wins is left open here; module Placement ranks
\* them by warmth, load and efficiency.
LeastLoaded(nodes, pins) ==
    {n \in nodes : \A m \in nodes : Load(n, pins) <= Load(m, pins)}

\* The lowest displaced slots, as many as the budget allows.
FirstMoves(slots, budget) ==
    {M \in SUBSET slots :
        /\ Cardinality(M) <= budget
        /\ M # slots => Cardinality(M) = budget
        /\ \A i \in M, j \in slots \ M : i < j}

\* A plausible slip, substituted when the properties are tested.
MovesAtOnce(slots, eligible, budget) == IF eligible = {} THEN {{}} ELSE {slots}

\* One target serves every move of a reconcile: the candidates are ranked
\* with the counts of before the first move (select_replacement_node).
Moves(slots, eligible, budget) ==
    IF eligible = {} THEN {{}} ELSE FirstMoves(slots, budget)

Targets(eligible, pins) ==
    IF eligible = {} THEN {NoNode} ELSE LeastLoaded(eligible, pins)

\* plan_initial_placements: missing slots are filled in slot order, and each
\* pick sees the load of the earlier ones.
FreshPlans(missing, eligible, pins) ==
    IF eligible = {} THEN {[i \in missing |-> NoNode]}
    ELSE {f \in [missing -> eligible] :
            \A i \in missing :
                f[i] \in LeastLoaded(eligible,
                    [j \in Slots |-> IF j \in missing /\ j < i THEN f[j]
                                     ELSE pins[j]])}

\* surplus_hysteresis for a slot beyond `desired`, from the last status.
Surplus(f, i) ==
    SurplusHysteresis(f.status.placements[i].surplus, TRUE, StableRequired)

\* Slots the reconcile deletes: listed, beyond `desired`, past the wait.
Removable(f, pins) ==
    {i \in Pinned(pins) \ InRange(f) : Surplus(f, i).remove}

-----------------------------------------------------------------------------
(***************************************************************************)
(* The status a full reconcile writes.                                     *)
(***************************************************************************)
\* Plausible slips, substituted one at a time when the properties are tested.

SurplusNotReported(i, ready) ==
    LET old == snap.status.placements[i]
        uprooted == i \in Uprooted(current, view.displaced)
    IN  IF i \in InRange(snap) /\ plan[i] # NoNode
        THEN [node |-> plan[i], surplus |-> 0,
              phase |-> PlacementPhaseFor(old.phase, i \in ready, uprooted)]
        ELSE NoPlacement

MovesCountAsHeld(placements, gone) ==
    {i \in Slots : placements[i].node # NoNode /\ placements[i].phase = "Draining"}

\* The entry of one slot: placed in range, held beyond it, or none.
NewPlacement(i, ready) ==
    LET old == snap.status.placements[i]
        uprooted == i \in Uprooted(current, view.displaced)
        placed == [node |-> plan[i], surplus |-> 0,
                   phase |-> PlacementPhaseFor(old.phase, i \in ready, uprooted)]
        held == [node |-> current[i], surplus |-> Surplus(snap, i).count,
                 phase |-> PlacementPhaseFor(old.phase, i \in ready, FALSE)]
    IN  IF i \in InRange(snap) /\ plan[i] # NoNode THEN placed
        ELSE IF i \in Pinned(current) \ (InRange(snap) \cup Removable(snap, current))
        THEN held
        ELSE NoPlacement

\* Placements draining on a displaced node: kept there for want of a budget
\* or of an eligible node.
Held(placements, gone) ==
    {i \in Slots : /\ placements[i].node # NoNode
                   /\ placements[i].phase = "Draining"
                   /\ placements[i].node \in gone}

NewStatus(ready) ==
    LET new == [i \in Slots |-> NewPlacement(i, ready)]
        live == {i \in Slots : new[i].node # NoNode}
        readyCount == Cardinality({i \in live : new[i].phase = "Ready"})
        warming == {i \in live : new[i].phase \in {"Pending", "Warming"}}
    IN  [phase |-> FleetPhaseFor(snap.replicas, readyCount,
                                 Held(new, view.displaced) # {}),
         message |-> "",
         desired |-> snap.replicas,
         replicas |-> Cardinality(live),
         ready |-> readyCount,
         warming |-> Cardinality(warming),
         active |-> Cardinality(InFlight(new, view.displaced)),
         placements |-> new]

-----------------------------------------------------------------------------
(***************************************************************************)
(* The reconcile.                                                          *)
(***************************************************************************)
NoPins == [i \in Slots |-> NoNode]

NoView == [candidates |-> {}, displaced |-> {}]

\* The locals of a reconcile do not outlive it.
ForgetLocals ==
    /\ pc' = "idle"
    /\ snap' = NewFleet(CHOOSE r \in ReplicaChoices : TRUE)
    /\ view' = NoView
    /\ current' = NoPins
    /\ plan' = NoPins
    /\ todo' = {}

\* A plausible slip, substituted when the properties are tested.
ReplanEverySlot(f, pins, gone, eligible) ==
    \E fresh \in FreshPlans(InRange(f), eligible, pins) :
        /\ plan' = [i \in Slots |-> IF i \in InRange(f) THEN fresh[i] ELSE NoNode]
        /\ todo' = Pinned(plan') \cup Removable(f, pins)

\* Every slot is decided at once: a displaced one moves while the budget
\* lasts, a placed one keeps its pin, a missing one is planned.
Decide(f, pins, gone, eligible) ==
    LET missing == InRange(f) \ Pinned(pins)
    IN  \E moved \in Moves(Uprooted(pins, gone), eligible, Budget(f, gone)),
          target \in Targets(eligible, pins),
          fresh \in FreshPlans(missing, eligible, pins) :
          /\ plan' = [i \in Slots |->
                        IF i \notin InRange(f) THEN NoNode
                        ELSE IF i \in moved THEN target
                        ELSE IF i \in missing THEN fresh[i]
                        ELSE pins[i]]
          /\ todo' = Pinned(plan') \cup Removable(f, pins)

\* A fleet whose strategy this version does not implement: nothing is read.
StartUnsupported ==
    /\ pc = "idle"
    /\ FreshCache => cached = fleet
    /\ ~cached.supported
    /\ snap' = cached
    /\ pc' = "message"
    /\ UNCHANGED <<fleet, clusterVars, cached, view, current, plan, todo,
                   faults, events>>

\* The reads of a reconcile, up to its plan or its second early return.  A Node
\* list that fails (readable = FALSE) admits no node to a selector, filters no
\* capacity and shows no cordon.  The cluster-wide list of
\* VllmServices only breaks ties among least loaded nodes.
StartPlanning(readable) ==
    LET seen == IF readable THEN cordoned ELSE {}
        gone == notice \cup seen
        cands == Candidates(readable)
    IN  /\ pc = "idle"
        /\ FreshCache => cached = fleet
        /\ cached.supported
        /\ snap' = cached
        /\ view' = [candidates |-> cands, displaced |-> gone]
        /\ IF cands = {}
           THEN /\ pc' = "message"
                /\ UNCHANGED <<current, plan, todo>>
           ELSE /\ pc' = "act"
                /\ current' = child
                /\ Decide(cached, child, gone,
                          Eligible(cands, gone, IF readable THEN Capable ELSE Nodes))
        /\ UNCHANGED <<fleet, clusterVars, cached, events>>

Start == StartUnsupported \/ (StartPlanning(TRUE) /\ UNCHANGED faults)

StartWithoutNodes ==
    /\ faults < MaxFaults
    /\ StartPlanning(FALSE)
    /\ faults' = faults + 1

\* Server-side apply of one child: created, re-pinned, or left as it is.  Its
\* status is not touched: a re-pinned child keeps reporting what it reported.
ApplyChild(i) ==
    /\ pc = "act"
    /\ IsFirst(i, todo)
    /\ i \in InRange(snap)
    /\ child' = [child EXCEPT ![i] = plan[i]]
    /\ todo' = todo \ {i}
    /\ UNCHANGED <<fleet, reported, notice, cordoned, cached, pc,
                   planVars, faults, events>>

\* Delete one surplus child.  One that is already gone (404) is no error.
RemoveChild(i) ==
    /\ pc = "act"
    /\ IsFirst(i, todo)
    /\ i \notin InRange(snap)
    /\ child' = [child EXCEPT ![i] = NoNode]
    /\ todo' = todo \ {i}
    /\ UNCHANGED <<fleet, reported, notice, cordoned, cached, pc, planVars,
                   faults, events>>

\* Which children reported Ready is read with their list and used only here; it
\* is up to the VllmService controller, so it is chosen here.
WriteStatus ==
    /\ pc = "act"
    /\ todo = {}
    /\ \E ready \in SUBSET Pinned(current) :
          fleet' = [fleet EXCEPT !.status = NewStatus(ready)]
    /\ ForgetLocals
    /\ UNCHANGED <<clusterVars, cached, faults, events>>

\* Both early returns: the reason, and a first phase for a fleet without one.
\* The merge patch leaves the placements and the counts as they were.
WriteMessage ==
    /\ pc = "message"
    /\ LET first == snap.status.phase = ""
           why == IF snap.supported THEN "no candidate" ELSE "unsupported strategy"
       IN  fleet' = [fleet EXCEPT
               !.status.message = why,
               !.status.phase = IF first THEN FleetPhaseFor(snap.replicas, 0, FALSE) ELSE @,
               !.status.desired = IF first THEN snap.replicas ELSE @]
    /\ ForgetLocals
    /\ UNCHANGED <<clusterVars, cached, faults, events>>

\* A failed call, the timeout or a crash: error_policy requeues, or the next
\* process starts over.  Writes already made stay; none is undone.
Abandon ==
    /\ pc # "idle"
    /\ faults < MaxFaults
    /\ faults' = faults + 1
    /\ ForgetLocals
    /\ UNCHANGED <<fleet, clusterVars, cached, events>>

Reconcile ==
    \/ Start
    \/ \E i \in Slots : ApplyChild(i) \/ RemoveChild(i)
    \/ WriteStatus
    \/ WriteMessage

-----------------------------------------------------------------------------
(***************************************************************************)
(* Around the reconcile.                                                   *)
(***************************************************************************)
\* The watch brings the cache up to date with the newest version.
Sync ==
    /\ cached # fleet
    /\ cached' = fleet
    /\ UNCHANGED <<fleet, clusterVars, reconcileVars, faults, events>>

Event ==
    /\ events < MaxEvents
    /\ events' = events + 1
    /\ UNCHANGED <<cached, reconcileVars, faults>>

\* A reporter publishes a node's first status, or its NodeState is deleted.
Report(n) ==
    /\ n \notin reported
    /\ reported' = reported \cup {n}
    /\ UNCHANGED <<fleet, child, notice, cordoned>>
    /\ Event

Unreport(n) ==
    /\ n \in reported
    /\ reported' = reported \ {n}
    /\ notice' = notice \ {n}
    /\ UNCHANGED <<fleet, child, cordoned>>
    /\ Event

Notice(n) ==
    /\ n \in reported \ notice
    /\ notice' = notice \cup {n}
    /\ UNCHANGED <<fleet, child, reported, cordoned>>
    /\ Event

ClearNotice(n) ==
    /\ n \in notice
    /\ notice' = notice \ {n}
    /\ UNCHANGED <<fleet, child, reported, cordoned>>
    /\ Event

Cordon(n) ==
    /\ n \notin cordoned
    /\ cordoned' = cordoned \cup {n}
    /\ UNCHANGED <<fleet, child, reported, notice>>
    /\ Event

Uncordon(n) ==
    /\ n \in cordoned
    /\ cordoned' = cordoned \ {n}
    /\ UNCHANGED <<fleet, child, reported, notice>>
    /\ Event

Scale(r) ==
    /\ r # fleet.replicas
    /\ fleet' = [fleet EXCEPT !.replicas = r]
    /\ UNCHANGED clusterVars
    /\ Event

ChangeStrategy ==
    /\ fleet' = [fleet EXCEPT !.supported = ~@]
    /\ UNCHANGED clusterVars
    /\ Event

\* Someone else deletes a child.
LoseChild(i) ==
    /\ child[i] # NoNode
    /\ child' = [child EXCEPT ![i] = NoNode]
    /\ UNCHANGED <<fleet, reported, notice, cordoned>>
    /\ Event

Environment ==
    \/ \E n \in Nodes : \/ Report(n) \/ Unreport(n)
                         \/ Notice(n) \/ ClearNotice(n)
                         \/ Cordon(n) \/ Uncordon(n)
    \/ \E r \in ReplicaChoices : Scale(r)
    \/ ChangeStrategy
    \/ \E i \in Slots : LoseChild(i)

Init ==
    /\ \E r \in ReplicaChoices : fleet = NewFleet(r)
    /\ cached = fleet
    /\ child = NoPins
    /\ reported = Nodes
    /\ notice = {}
    /\ cordoned = {}
    /\ pc = "idle"
    /\ snap = NewFleet(CHOOSE r \in ReplicaChoices : TRUE)
    /\ view = NoView
    /\ current = NoPins
    /\ plan = NoPins
    /\ todo = {}
    /\ faults = 0
    /\ events = 0

Next == Reconcile \/ StartWithoutNodes \/ Abandon \/ Sync \/ Environment

Spec == Init /\ [][Next]_vars

(***************************************************************************)
(* Each reconcile ends in a requeue (REQUEUE, error_policy), so the next   *)
(* one starts, and each call is answered or abandoned by the timeout; the  *)
(* watch keeps delivering.  Nothing is assumed of anyone else.             *)
(***************************************************************************)
Fairness == WF_vars(Reconcile) /\ WF_vars(Sync)

FairSpec == Spec /\ Fairness

-----------------------------------------------------------------------------
(***************************************************************************)
(* Properties.                                                             *)
(***************************************************************************)
\* Type invariant: every variable holds what the code's types admit.
TypeOK ==
    /\ {fleet, cached, snap} \subseteq FleetObject
    /\ {child, current, plan} \subseteq [Slots -> MaybeNode]
    /\ {reported, notice, cordoned} \subseteq SUBSET Nodes
    /\ pc \in {"idle", "act", "message"}
    /\ view \in [candidates : SUBSET Nodes, displaced : SUBSET Nodes]
    /\ todo \in SUBSET Slots
    /\ {faults, events} \subseteq Nat

\* The slots this reconcile re-pins.
MovedSlots ==
    {i \in Pinned(current) \cap Pinned(plan) : plan[i] # current[i]}

\* The step is the full status write that ends a reconcile.
Completes == pc = "act" /\ pc' = "idle" /\ faults' = faults

(***************************************************************************)
(* A replica changes node only off a node this reconcile found displaced,  *)
(* and a replica is moved or created only on an eligible one; a child that *)
(* vanished after the list is re-created where it was.  Whatever was lost, *)
(* stale or deleted in between (ADR-0005 decision 1: warmth changes and    *)
(* node disappearance move nothing; fleet_controller.rs:674-746).          *)
(***************************************************************************)
PinsChangeOnlyToEscape ==
    [][\A i \in Slots :
          child'[i] \notin {NoNode, child[i]} =>
             \/ /\ child[i] \in view.displaced \cup {NoNode}
                /\ child'[i] \in view.candidates \ view.displaced
             \/ child[i] = NoNode /\ child'[i] = current[i]]_vars

(***************************************************************************)
(* A reconcile starts moves only in the room the moves it knows to be in   *)
(* flight leave under the cap (fleet_controller.rs:639-674, ADR-0005       *)
(* decision 2).                                                            *)
(***************************************************************************)
MovesWithinCap ==
    MovedSlots # {} =>
        Cardinality(MovedSlots)
          + Cardinality(InFlight(snap.status.placements, view.displaced)) <= Cap

(***************************************************************************)
(* A full status write says Degraded exactly when a replica in range is    *)
(* kept on a displaced node (fleet_controller.rs:862-886, ADR-0005         *)
(* decision 3), however its entry in the last status read.                 *)
(***************************************************************************)
HoldIsDegraded ==
    [][Completes =>
          (fleet'.status.phase = "Degraded")
            = (\E i \in InRange(snap) \cap Pinned(current) :
                  current[i] \in view.displaced /\ plan[i] = current[i])]_vars

Displaced == notice \cup cordoned

Survivors ==
    ((IF HasSelector THEN Pool ELSE reported) \cap Capable) \ Displaced

(***************************************************************************)
(* No displaced replica waits forever beside a node that could take it:    *)
(* held placements never starve the cap (fleet_controller.rs:857-861).     *)
(***************************************************************************)
DisplacedMove ==
    \A i \in Slots :
        ~<>[](fleet.supported /\ child[i] \in Displaced /\ Survivors # {})

(***************************************************************************)
(* A surplus replica is removed, however often the reconcile is abandoned  *)
(* or wakes early (fleet_controller.rs:781-841).                           *)
(***************************************************************************)
SurplusRemoved ==
    \A i \in Slots :
        ~<>[](fleet.supported /\ child[i] # NoNode /\ i \notin InRange(fleet)
                /\ Survivors # {})

(***************************************************************************)
(* A missing replica is created once a node can take it                    *)
(* (fleet_controller.rs:710-746).                                          *)
(***************************************************************************)
MissingCreated ==
    \A i \in Slots :
        ~<>[](fleet.supported /\ child[i] = NoNode /\ i \in InRange(fleet)
                /\ Survivors # {})

(***************************************************************************)
(* With the cluster at rest the pins come to rest too: no replica is moved *)
(* back and forth (fleet_controller.rs:490-496).                           *)
(***************************************************************************)
PinsSettle == <>[][UNCHANGED child]_vars

-----------------------------------------------------------------------------
(***************************************************************************)
(* The promise this reconcile keeps: a round is a reconcile, its orders    *)
(* are the writes still to be made, what the fleet believes it is asked    *)
(* for is what the cache shows.  The survey may miss cordons (a Node list  *)
(* that failed), never invent them.                                        *)
(***************************************************************************)
Orders ==
    {[slot |-> i, from |-> current[i], to |-> plan[i]] : i \in todo}

Promise == INSTANCE FleetPromise
    WITH wanted <- InRange(cached), displaced <- Displaced, orders <- Orders

(***************************************************************************)
(* Whatever the cache shows, whatever fails and whoever interferes, every  *)
(* step the cluster can see is one the promise allows: a replica moves     *)
(* only by an order of the round's survey, off a node on its way out, at   *)
(* most Cap of them per round, and an order is carried out or dropped      *)
(* (ADR-0005 decisions 1-3, ADR-0017; fleet_controller.rs:497-840).        *)
(***************************************************************************)
KeepsPromise == Promise!Spec

-----------------------------------------------------------------------------
(***************************************************************************)
(* What the repository says of the reconcile and the code does not do.     *)
(***************************************************************************)
\* "A fleet shares a node only when no other eligible node is left" (ADR-0018;
\* fleet_controller.rs:674-720), for the slots one reconcile decides.
SharesOnlyWhenFull ==
    \A i, j \in Pinned(plan) :
        (i # j /\ plan[i] = plan[j] /\ plan[i] # current[i]) =>
            \A n \in (view.candidates \ view.displaced) \cap Capable : Load(n, plan) > 0

\* A replica in range on a displaced node with no survivor is reported: "the
\* status must say so rather than hide it" (fleet_types.rs:389-392), "a fleet
\* with no survivor drains and holds" (ADR-0017, Consequences;
\* fleet_controller.rs:453-489).
StrandedIsDegraded ==
    [][(pc = "message" /\ pc' = "idle" /\ faults' = faults
          /\ \E i \in InRange(snap) : child[i] \in view.displaced)
          => fleet'.status.phase = "Degraded"]_vars

\* "Ready requires every desired replica to report Ready" (fleet_types.rs:392-393;
\* fleet_controller.rs:872-886).
ReadyMeansAllReady ==
    fleet.status.phase = "Ready" =>
        \A i \in Slots : i < fleet.status.desired =>
            /\ fleet.status.placements[i].node # NoNode
            /\ fleet.status.placements[i].phase = "Ready"
=============================================================================
