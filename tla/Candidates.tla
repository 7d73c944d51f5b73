----------------------------- MODULE Candidates -----------------------------
(***************************************************************************)
(* What a reconcile of a FleetService ranks on (src/src/fleet_controller.rs*)
(* 96-225 and 350-626): the candidates built out of NodeStates, Nodes and  *)
(* VllmServices, each written by somebody else, some unreadable, and the   *)
(* nodes of them that may take a replica.  The variables are what the      *)
(* lists return; every definition above the actions is a function of them. *)
(***************************************************************************)
EXTENDS Placement, FiniteSets

CONSTANTS
    Names,         \* names of nodes
    Namespaces,    \* namespaces, in lexicographic order
    Places,        \* name, namespace: where a NodeState may be
    Statuses,      \* what NodeStates report
    NodeObjects,   \* what a Node may look like
    Instances,     \* VllmServices of the model: [id, node, own]
    Phases,        \* status.phase of a VllmService, "" before the first
    NoKey,         \* allocatable without nvidia.com/gpu
    Gpus,          \* template.gpu
    Strategy, Horizon,
    Now            \* the instant of the reconcile

\* NodeStateStatus, of which the planner reads these fields.
StatusType ==
    [warmth : {"Warm", "Warming", "Cold"}, notice : BOOLEAN,
     count : Int \cup {None}, util : Readings, hit : Readings, tpj : Readings,
     hitAt : Readings, tpjAt : Readings]

ASSUME CandidatesAssumption ==
    /\ IsFiniteSet(Names) /\ IsFiniteSet(Instances)
    /\ Namespaces \subseteq Nat
    /\ Places \subseteq Names \X Namespaces
    /\ Statuses \subseteq StatusType
    /\ Gpus \in Int /\ Now \in Int

VARIABLES
    hasSelector,   \* whether nodePool.selector is set
    reports,       \* name, namespace -> status of that NodeState, or None
    nodes,         \* name -> the Node, or None
    services,      \* instance -> its status.phase, or None if there is none
    nodesRead,     \* whether the list of Nodes was answered
    servicesRead   \* whether the cluster-wide list of VllmServices was

vars == <<hasSelector, reports, nodes, services, nodesRead, servicesRead>>

-----------------------------------------------------------------------------
\* Plausible slips, substituted one at a time when the properties are tested.

MalformedIsNow(at) ==
    IF at = None THEN None ELSE IF at = Invalid THEN 0 ELSE Now - at

LastNamespaceLends(n) ==
    CHOOSE s \in Namespaces : reports[<<n, s>>] # None
        /\ \A t \in Namespaces : reports[<<n, t>>] # None => t <= s

OwnChildrenWarm(n) ==
    LET phases == {services[v] : v \in {w \in Instances : w.node = n}}
    IN  IF servicesRead /\ "Ready" \in phases THEN "Warm"
        ELSE IF servicesRead /\ "Warming" \in phases THEN "Warming" ELSE "Cold"

DerivedWins(a, b) == b

UnreadIsAdmitted(n) == ~nodesRead \/ (nodes[n] # None /\ nodes[n].labelled)

-----------------------------------------------------------------------------
\* age_secs: an instant that does not parse has no age.
AgeSecs(at) == IF at \in {None, Invalid} THEN None ELSE Now - at

\* node_state_to_candidate
FromStatus(st) ==
    [own |-> 0, warmth |-> st.warmth, util |-> st.util, count |-> st.count,
     hit |-> st.hit, hitAge |-> AgeSecs(st.hitAt),
     tpj |-> st.tpj, tpjAge |-> AgeSecs(st.tpjAt)]

\* bare_candidate: nothing measured, and not known to be warm.
Bare == [own |-> 0, warmth |-> "Cold", util |-> None, count |-> None,
         hit |-> None, hitAge |-> None, tpj |-> None, tpjAge |-> None]

Reported == {n \in Names : \E s \in Namespaces : reports[<<n, s>>] # None}

\* candidates_by_node: of several NodeStates with a status the first lends it.
Lender(n) ==
    CHOOSE s \in Namespaces : reports[<<n, s>>] # None
        /\ \A t \in Namespaces : reports[<<n, t>>] # None => s <= t

Observed(n) == IF n \in Reported THEN FromStatus(reports[<<n, Lender(n)>>]) ELSE Bare

\* matches_node_pool, for a selector that is set: a Node not seen is not admitted.
MatchesNodePool(n) == nodesRead /\ nodes[n] # None /\ nodes[n].labelled

\* cordoned_nodes
CordonedNodes == {n \in Names : nodesRead /\ nodes[n] # None /\ nodes[n].cordoned}

\* The names of the candidates: the selector's Nodes, or the reported nodes.
Named == (IF hasSelector THEN {n \in Names : MatchesNodePool(n)} ELSE Reported)
            \ CordonedNodes

\* A notice in any NodeState of the name.
Preempted == {n \in Names : \E s \in Namespaces :
                 reports[<<n, s>>] # None /\ reports[<<n, s>>].notice}

DisplacedNodes == Preempted \cup CordonedNodes

\* The entry for nvidia.com/gpu.  A map without the key says zero; no map
\* (None) and no number (Invalid) say nothing.
Allocatable(n) ==
    IF ~nodesRead \/ nodes[n] = None THEN None
    ELSE IF nodes[n].gpus = NoKey THEN 0
    ELSE IF nodes[n].gpus \in {None, Invalid} THEN None ELSE nodes[n].gpus

\* has_capacity_for: unknown is enough.
HasCapacityFor(allocatable, requested) ==
    requested <= 0 \/ allocatable = None \/ allocatable >= requested

\* healthy_candidates, by name.
EligibleNodes ==
    {n \in Named \ DisplacedNodes : HasCapacityFor(Allocatable(n), Gpus)}

\* warmer
Warmer(a, b) == IF WarmthRank(b) > WarmthRank(a) THEN b ELSE a

\* derive_warmth: the warmest of the VllmServices of others on the node.
DerivedWarmth(n) ==
    LET phases == {services[v] : v \in {w \in Instances : w.node = n /\ ~w.own}}
    IN  IF servicesRead /\ "Ready" \in phases THEN "Warm"
        ELSE IF servicesRead /\ "Warming" \in phases THEN "Warming" ELSE "Cold"

\* own_placements_per_node: the fleet's own children, listed apart.
OwnPlacements(n) ==
    Cardinality({v \in Instances : v.own /\ v.node = n /\ services[v] # None})

\* The candidate the strategies rank: load and warmth the controller knows of
\* are folded into what was observed, and nothing is made up.
Candidate(n) ==
    LET own == OwnPlacements(n)
    IN  [Observed(n) EXCEPT
            !.own    = own,
            !.count  = IF own = 0 THEN @ ELSE IF @ = None THEN own ELSE @ + own,
            !.warmth = Warmer(@, DerivedWarmth(n))]

\* The candidates none is preferred to, by name.
Best ==
    LET ranked == {<<n, Candidate(n)>> : n \in EligibleNodes}
    IN  {c[1] : c \in {d \in ranked : \A e \in ranked :
                          Cmp(Strategy, Horizon, e[2], d[2]) # Greater}}

-----------------------------------------------------------------------------
(***************************************************************************)
(* Who changes what the lists return between two reconciles.               *)
(***************************************************************************)
Init ==
    /\ hasSelector \in BOOLEAN
    /\ reports = [p \in Names \X Namespaces |-> None]
    /\ nodes = [n \in Names |-> None]
    /\ services = [v \in Instances |-> None]
    /\ nodesRead = TRUE
    /\ servicesRead = TRUE

\* A reporter, a user with a manifest, or a preemption handler.
Report(place, st) ==
    /\ st # reports[place]
    /\ reports' = [reports EXCEPT ![place] = st]
    /\ UNCHANGED <<hasSelector, nodes, services, nodesRead, servicesRead>>

ChangeNode(n, object) ==
    /\ object # nodes[n]
    /\ nodes' = [nodes EXCEPT ![n] = object]
    /\ UNCHANGED <<hasSelector, reports, services, nodesRead, servicesRead>>

\* A VllmService of the model comes, reports a phase, or goes.
ChangeService(v, phase) ==
    /\ phase # services[v]
    /\ services' = [services EXCEPT ![v] = phase]
    /\ UNCHANGED <<hasSelector, reports, nodes, nodesRead, servicesRead>>

NodeListTurns ==
    /\ nodesRead' = ~nodesRead
    /\ UNCHANGED <<hasSelector, reports, nodes, services, servicesRead>>

ServiceListTurns ==
    /\ servicesRead' = ~servicesRead
    /\ UNCHANGED <<hasSelector, reports, nodes, services, nodesRead>>

Next ==
    \/ \E place \in Places, st \in Statuses \cup {None} : Report(place, st)
    \/ \E n \in Names, object \in NodeObjects \cup {None} : ChangeNode(n, object)
    \/ \E v \in Instances, p \in Phases \cup {None} : ChangeService(v, p)
    \/ NodeListTurns
    \/ ServiceListTurns

Spec == Init /\ [][Next]_vars

-----------------------------------------------------------------------------
(***************************************************************************)
(* Properties.                                                             *)
(***************************************************************************)
(***************************************************************************)
(* A fleet is not drawn to the nodes it is on by its own success: the      *)
(* phase its children report never changes where it places, only how many  *)
(* there are does (ADR-0011 D1, postscript; fleet_placement.rs:151-177).   *)
(***************************************************************************)
OwnPhaseMovesNothing ==
    [][(/\ UNCHANGED <<hasSelector, reports, nodes, nodesRead, servicesRead>>
        /\ \A v \in Instances :
              \/ services'[v] = services[v]
              \/ v.own /\ services[v] # None /\ services'[v] # None)
         => Best' = Best]_vars

(***************************************************************************)
(* A NodeState beside one of the same name in an earlier namespace does    *)
(* not change how the node ranks; by a notice it takes the node out, and   *)
(* never lets it in (fleet_controller.rs:150-167, 439-448).                *)
(***************************************************************************)
SecondNodeStateOnlyDisplaces ==
    [][\A n \in Names, s \in Namespaces :
          (/\ reports' = [reports EXCEPT ![<<n, s>>] = reports'[<<n, s>>]]
           /\ UNCHANGED <<hasSelector, nodes, services, nodesRead, servicesRead>>
           /\ \E t \in Namespaces : t < s /\ reports[<<n, t>>] # None)
          => /\ Candidate(n)' = Candidate(n)
             /\ EligibleNodes' \cup {n} = EligibleNodes \cup {n}
             /\ n \in EligibleNodes' \ EligibleNodes => n \in Preempted \ Preempted']_vars

(***************************************************************************)
(* When the Nodes cannot be listed no move starts for it: no node becomes  *)
(* displaced; a fleet with a selector places nowhere, one without loses no *)
(* node it had (ADR-0008 D3, ADR-0011 D3, ADR-0017;                        *)
(* fleet_controller.rs:359-394).                                           *)
(***************************************************************************)
UnreadNodesAreSafe ==
    [][(nodesRead /\ ~nodesRead') =>
          /\ DisplacedNodes' \subseteq DisplacedNodes
          /\ IF hasSelector THEN EligibleNodes' = {}
             ELSE EligibleNodes \subseteq EligibleNodes']_vars

\* Two statuses that differ in signals neither has a usable instant for.
DifferUndated(a, b) ==
    LET undated(at) == at \in {None, Invalid} \/ at > Now
    IN  /\ undated(a.hitAt) /\ undated(b.hitAt)
        /\ undated(a.tpjAt) /\ undated(b.tpjAt)
        /\ [a EXCEPT !.hit = b.hit, !.hitAt = b.hitAt,
                     !.tpj = b.tpj, !.tpjAt = b.tpjAt] = b

(***************************************************************************)
(* Under a horizon a signal whose instant is missing, does not parse or is *)
(* still to come sways no placement, whatever its value                    *)
(* (ADR-0008 D2; fleet_controller.rs:96-103, fleet_placement.rs:121-130).  *)
(***************************************************************************)
UndatedSwaysNothing ==
    [][(/\ Horizon # None
        /\ UNCHANGED <<hasSelector, nodes, services, nodesRead, servicesRead>>
        /\ \A p \in Places :
              \/ reports'[p] = reports[p]
              \/ None \notin {reports[p], reports'[p]}
                    /\ DifferUndated(reports[p], reports'[p]))
         => Best' = Best]_vars

(***************************************************************************)
(* What the cluster runs can raise the warmth a NodeState reports, by hand *)
(* or by its reporter, and never lower it; a list that fails leaves the    *)
(* reported one (ADR-0011 D1; fleet_controller.rs:581-623).                *)
(***************************************************************************)
ReportedWarmthHolds ==
    \A n \in Names :
        /\ WarmthRank(Candidate(n).warmth) >= WarmthRank(Observed(n).warmth)
        /\ ~servicesRead => Candidate(n).warmth = Observed(n).warmth
=============================================================================
