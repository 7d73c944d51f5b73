-------------------------- MODULE CandidatesProofs --------------------------
(***************************************************************************)
(* Proofs about what a reconcile ranks on, for all sets of nodes,          *)
(* namespaces, statuses and VllmServices, under either strategy and any    *)
(* horizon.  The lists have no invariant but their type: each theorem is   *)
(* about what one change of them can do to what is computed from them.     *)
(***************************************************************************)
EXTENDS Candidates, WellFoundedInduction, TLAPS

-----------------------------------------------------------------------------
(***************************************************************************)
(* The phases of the fleet's own children.                                 *)
(***************************************************************************)
\* Children that neither come nor go leave the count of them as it is.
LEMMA OwnPlacementsKept ==
  ASSUME NEW n \in Names,
         \A v \in Instances :
            \/ services'[v] = services[v]
            \/ v.own /\ services[v] # None /\ services'[v] # None
  PROVE  OwnPlacements(n)' = OwnPlacements(n)
<1>1. {v \in Instances : v.own /\ v.node = n /\ services'[v] # None}
        = {v \in Instances : v.own /\ v.node = n /\ services[v] # None}
  OBVIOUS
<1>2. QED
  BY <1>1 DEF OwnPlacements

\* The warmth of a node does not depend on what the own children report.
LEMMA DerivedWarmthKept ==
  ASSUME NEW n \in Names, servicesRead' = servicesRead,
         \A v \in Instances :
            \/ services'[v] = services[v]
            \/ v.own /\ services[v] # None /\ services'[v] # None
  PROVE  DerivedWarmth(n)' = DerivedWarmth(n)
<1> DEFINE others == {w \in Instances : w.node = n /\ ~w.own}
<1>1. {services'[v] : v \in others} = {services[v] : v \in others}
  OBVIOUS
<1>2. QED
  BY <1>1 DEF DerivedWarmth

\* What the other lists say of a node is a function of them.
LEMMA ObservedKept ==
  ASSUME UNCHANGED <<hasSelector, reports, nodes, nodesRead>>
  PROVE  /\ EligibleNodes' = EligibleNodes
         /\ \A n \in Names : Observed(n)' = Observed(n)
  BY DEF EligibleNodes, Named, MatchesNodePool, Reported, CordonedNodes,
         DisplacedNodes, Preempted, Allocatable, Observed, Lender

(***************************************************************************)
(* The phases the fleet's own children report never change where it places *)
(* (fleet_placement.rs:151-177).                                           *)
(***************************************************************************)
THEOREM OwnPhaseIsIgnored == Spec => OwnPhaseMovesNothing
<1>1. ASSUME UNCHANGED <<hasSelector, reports, nodes, nodesRead, servicesRead>>,
             \A v \in Instances :
                \/ services'[v] = services[v]
                \/ v.own /\ services[v] # None /\ services'[v] # None
      PROVE  Best' = Best
  <2>1. \A n \in Names : OwnPlacements(n)' = OwnPlacements(n)
    BY <1>1, OwnPlacementsKept
  <2>2. \A n \in Names : DerivedWarmth(n)' = DerivedWarmth(n)
    BY <1>1, DerivedWarmthKept
  <2>3. /\ EligibleNodes' = EligibleNodes
        /\ \A n \in Names : Observed(n)' = Observed(n)
    BY <1>1, ObservedKept
  <2>4. \A n \in Names : Candidate(n)' = Candidate(n)
    BY <2>1, <2>2, <2>3 DEF Candidate
  <2>5. EligibleNodes \subseteq Names
    BY DEF EligibleNodes, Named, Reported
  <2>6. {<<n, Candidate(n)>> : n \in EligibleNodes}'
          = {<<n, Candidate(n)>> : n \in EligibleNodes}
    BY <2>3, <2>4, <2>5
  <2>7. QED
    BY <2>6 DEF Best
<1>2. QED
  BY <1>1, PTL DEF Spec, OwnPhaseMovesNothing

-----------------------------------------------------------------------------
(***************************************************************************)
(* What the other lists say, when they fail.                               *)
(***************************************************************************)
(***************************************************************************)
(* A failed list of the Nodes displaces nothing, empties a fleet with a    *)
(* selector and takes no node from one without (fleet_controller.rs:       *)
(* 359-394).                                                               *)
(***************************************************************************)
THEOREM FailedListIsSafe == Spec => UnreadNodesAreSafe
<1>1. ASSUME [Next]_vars, nodesRead, ~nodesRead'
      PROVE  UNCHANGED <<hasSelector, reports, nodes>>
  BY <1>1 DEF Next, vars, Report, ChangeNode, ChangeService, NodeListTurns,
              ServiceListTurns
<1>2. ASSUME UNCHANGED <<hasSelector, reports, nodes>>, nodesRead, ~nodesRead'
      PROVE  /\ DisplacedNodes' \subseteq DisplacedNodes
             /\ IF hasSelector THEN EligibleNodes' = {}
                ELSE EligibleNodes \subseteq EligibleNodes'
  <2>1. /\ Preempted' = Preempted
        /\ Reported' = Reported
        /\ CordonedNodes' = {}
    BY <1>2 DEF Preempted, Reported, CordonedNodes
  <2>2. DisplacedNodes' \subseteq DisplacedNodes
    BY <2>1 DEF DisplacedNodes
  <2>3. ASSUME hasSelector
        PROVE  EligibleNodes' = {}
    BY <1>2, <2>3 DEF EligibleNodes, Named, MatchesNodePool
  <2>4. ASSUME ~hasSelector, NEW n \in EligibleNodes
        PROVE  n \in EligibleNodes'
    <3>1. HasCapacityFor(Allocatable(n), Gpus)'
      BY <1>2 DEF HasCapacityFor, Allocatable
    <3>2. n \in (Named \ DisplacedNodes)'
      BY <1>2, <2>1, <2>2, <2>4 DEF EligibleNodes, Named
    <3>3. QED
      BY <3>1, <3>2 DEF EligibleNodes
  <2>5. QED
    BY <2>2, <2>3, <2>4
<1>3. QED
  BY <1>1, <1>2, PTL DEF Spec, UnreadNodesAreSafe

-----------------------------------------------------------------------------
(***************************************************************************)
(* Two NodeStates of one name.                                             *)
(***************************************************************************)
\* Every place holds a status or nothing.
ReportsType == reports \in [Names \X Namespaces -> Statuses \cup {None}]

\* It is an invariant.
LEMMA ReportsTyped == Spec => []ReportsType
<1>1. Init => ReportsType
  BY DEF Init, ReportsType
<1>2. ReportsType /\ [Next]_vars => ReportsType'
  BY CandidatesAssumption
     DEF ReportsType, Next, vars, Report, ChangeNode, ChangeService,
         NodeListTurns, ServiceListTurns
<1>3. QED
  BY <1>1, <1>2, PTL DEF Spec

\* A set of namespaces that is not empty has a first one.
LEMMA FirstNamespace ==
  ASSUME NEW S \in SUBSET Nat, S # {}
  PROVE  \E m \in S : \A k \in S : m <= k
<1>1. PICK m \in S : \A k \in S : ~ (<<k, m>> \in OpToRel(<, Nat))
  <2>1. IsWellFoundedOn(OpToRel(<, Nat), Nat)
    BY NatLessThanWellFounded
  <2>2. QED
    BY <2>1, WFMin
<1>2. ASSUME NEW k \in S
      PROVE  m <= k
  <2>1. k \in Nat /\ m \in Nat
    OBVIOUS
  <2>2. ~ (k < m)
    BY <1>1, <2>1 DEF OpToRel
  <2>3. QED
    BY <2>1, <2>2
<1>3. QED
  BY <1>2

\* The NodeState that lends a reported name its status is one of those.
LEMMA LenderReported ==
  ASSUME NEW n \in Reported
  PROVE  Lender(n) \in Namespaces /\ reports[<<n, Lender(n)>>] # None
<1> DEFINE S == {r \in Namespaces : reports[<<n, r>>] # None}
<1>1. S \in SUBSET Nat /\ S # {}
  BY CandidatesAssumption DEF Reported
<1>2. \E r \in S : \A q \in S : r <= q
  BY <1>1, FirstNamespace
<1>3. \E r \in Namespaces :
         /\ reports[<<n, r>>] # None
         /\ \A q \in Namespaces : reports[<<n, q>>] # None => r <= q
  BY <1>2
<1>4. QED
  BY <1>3 DEF Lender

\* A NodeState in a later namespace leaves what is observed of its name.
LEMMA LaterNodeState ==
  ASSUME ReportsType, NEW n \in Names, NEW s \in Namespaces,
         reports' = [reports EXCEPT ![<<n, s>>] = reports'[<<n, s>>]],
         NEW t \in Namespaces, t < s, reports[<<n, t>>] # None
  PROVE  /\ Observed(n)' = Observed(n)
         /\ Reported' = Reported
         /\ \A m \in Names \ {n} : m \in Preempted' <=> m \in Preempted
<1>1. \A m \in Names, r \in Namespaces :
         <<m, r>> # <<n, s>> => reports'[<<m, r>>] = reports[<<m, r>>]
  BY DEF ReportsType
<1>2. Reported' = Reported
  <2>1. n \in Reported /\ n \in Reported'
    BY <1>1, CandidatesAssumption DEF Reported
  <2>2. \A m \in Names \ {n} : m \in Reported' <=> m \in Reported
    BY <1>1 DEF Reported
  <2>3. QED
    BY <2>1, <2>2 DEF Reported
<1>3. Observed(n)' = Observed(n)
  <2>1. n \in Reported /\ n \in Reported'
    BY <1>1, CandidatesAssumption DEF Reported
  <2>2. /\ Lender(n) \in Namespaces
        /\ reports[<<n, Lender(n)>>] # None
        /\ \A r \in Namespaces : reports[<<n, r>>] # None => Lender(n) <= r
    <3> DEFINE S == {r \in Namespaces : reports[<<n, r>>] # None}
    <3>1. S \in SUBSET Nat /\ S # {}
      BY <2>1, CandidatesAssumption DEF Reported
    <3>2. \E r \in S : \A q \in S : r <= q
      BY <3>1, FirstNamespace
    <3>3. \E r \in Namespaces :
             /\ reports[<<n, r>>] # None
             /\ \A q \in Namespaces : reports[<<n, q>>] # None => r <= q
      BY <3>2
    <3>4. QED
      BY <3>3 DEF Lender
  <2>3. /\ Lender(n)' \in Namespaces
        /\ reports'[<<n, Lender(n)'>>] # None
        /\ \A r \in Namespaces : reports'[<<n, r>>] # None => Lender(n)' <= r
    <3> DEFINE S == {r \in Namespaces : reports'[<<n, r>>] # None}
    <3>1. S \in SUBSET Nat /\ S # {}
      BY <2>1, CandidatesAssumption DEF Reported
    <3>2. \E r \in S : \A q \in S : r <= q
      BY <3>1, FirstNamespace
    <3>3. \E r \in Namespaces :
             /\ reports'[<<n, r>>] # None
             /\ \A q \in Namespaces : reports'[<<n, q>>] # None => r <= q
      BY <3>2
    <3>4. QED
      BY <3>3 DEF Lender
  <2>4. Lender(n) # s /\ Lender(n)' # s
    BY <1>1, <2>2, <2>3, CandidatesAssumption
  <2>5. Lender(n)' = Lender(n)
    <3>1. Lender(n) <= Lender(n)' /\ Lender(n)' <= Lender(n)
      BY <1>1, <2>2, <2>3, <2>4
    <3>2. \A a, b \in Namespaces : a <= b /\ b <= a => a = b
      BY CandidatesAssumption
    <3>3. QED
      BY <2>2, <2>3, <3>1, <3>2
  <2>6. QED
    BY <1>1, <2>1, <2>2, <2>4, <2>5 DEF Observed
<1>4. QED
  BY <1>1, <1>2, <1>3 DEF Preempted

(***************************************************************************)
(* Of two NodeStates of one name the later can take the node out by its    *)
(* notice and nothing else (fleet_controller.rs:150-167, 439-448).         *)
(***************************************************************************)
THEOREM LaterNodeStateOnlyDisplaces == Spec => SecondNodeStateOnlyDisplaces
<1>1. ASSUME ReportsType, NEW n \in Names, NEW s \in Namespaces,
             reports' = [reports EXCEPT ![<<n, s>>] = reports'[<<n, s>>]],
             UNCHANGED <<hasSelector, nodes, services, nodesRead, servicesRead>>,
             \E t \in Namespaces : t < s /\ reports[<<n, t>>] # None
      PROVE  /\ Candidate(n)' = Candidate(n)
             /\ EligibleNodes' \cup {n} = EligibleNodes \cup {n}
             /\ n \in EligibleNodes' \ EligibleNodes => n \in Preempted \ Preempted'
  <2>1. /\ Observed(n)' = Observed(n)
        /\ Reported' = Reported
        /\ \A m \in Names \ {n} : m \in Preempted' <=> m \in Preempted
    BY <1>1, LaterNodeState
  <2>2. Candidate(n)' = Candidate(n)
    <3>1. OwnPlacements(n)' = OwnPlacements(n) /\ DerivedWarmth(n)' = DerivedWarmth(n)
      BY <1>1 DEF OwnPlacements, DerivedWarmth
    <3>2. QED
      BY <2>1, <3>1 DEF Candidate
  <2>3. /\ CordonedNodes' = CordonedNodes
        /\ \A m \in Names : HasCapacityFor(Allocatable(m), Gpus)'
                              = HasCapacityFor(Allocatable(m), Gpus)
    BY <1>1 DEF CordonedNodes, Allocatable, HasCapacityFor
  <2>4. Named' = Named /\ Named \subseteq Names
    BY <1>1, <2>1, <2>3 DEF Named, MatchesNodePool, Reported
  <2>5. \A m \in Names : m \in EligibleNodes' <=>
           /\ m \in Named
           /\ m \notin Preempted' \cup CordonedNodes
           /\ HasCapacityFor(Allocatable(m), Gpus)
    BY <2>3, <2>4 DEF EligibleNodes, DisplacedNodes
  <2>6. \A m \in Names : m \in EligibleNodes <=>
           /\ m \in Named
           /\ m \notin Preempted \cup CordonedNodes
           /\ HasCapacityFor(Allocatable(m), Gpus)
    BY DEF EligibleNodes, DisplacedNodes
  <2>7. EligibleNodes \subseteq Names /\ EligibleNodes' \subseteq Names
    BY <2>4 DEF EligibleNodes
  <2>8. \A m \in Names \ {n} : m \in EligibleNodes' <=> m \in EligibleNodes
    BY <2>1, <2>5, <2>6
  <2>9. n \in EligibleNodes' \ EligibleNodes => n \in Preempted \ Preempted'
    BY <2>5, <2>6
  <2>10. QED
    BY <2>2, <2>7, <2>8, <2>9
<1>2. ReportsType =>
        \A n \in Names, s \in Namespaces :
          (/\ reports' = [reports EXCEPT ![<<n, s>>] = reports'[<<n, s>>]]
           /\ UNCHANGED <<hasSelector, nodes, services, nodesRead, servicesRead>>
           /\ \E t \in Namespaces : t < s /\ reports[<<n, t>>] # None)
          => /\ Candidate(n)' = Candidate(n)
             /\ EligibleNodes' \cup {n} = EligibleNodes \cup {n}
             /\ n \in EligibleNodes' \ EligibleNodes => n \in Preempted \ Preempted'
  BY <1>1
<1>3. QED
  BY <1>2, ReportsTyped, PTL DEF Spec, SecondNodeStateOnlyDisplaces

-----------------------------------------------------------------------------
(***************************************************************************)
(* What the cluster runs raises the warmth a NodeState reports and never   *)
(* lowers it (fleet_controller.rs:581-623).                                *)
(***************************************************************************)
THEOREM WarmthIsOnlyRaised == Spec => []ReportedWarmthHolds
<1>1. ReportsType => ReportedWarmthHolds
  <2>1. ASSUME ReportsType, NEW n \in Names
        PROVE  /\ WarmthRank(Candidate(n).warmth) >= WarmthRank(Observed(n).warmth)
               /\ ~servicesRead => Candidate(n).warmth = Observed(n).warmth
    <3>1. Candidate(n).warmth = Warmer(Observed(n).warmth, DerivedWarmth(n))
      BY DEF Candidate, Observed, FromStatus, Bare
    <3>2. Observed(n).warmth \in {"Warm", "Warming", "Cold"}
      <4>1. CASE n \in Reported
        <5>1. reports[<<n, Lender(n)>>] \in Statuses
          BY <2>1, <4>1, LenderReported DEF ReportsType
        <5>2. QED
          BY <4>1, <5>1, CandidatesAssumption DEF Observed, FromStatus, StatusType
      <4>2. CASE n \notin Reported
        BY <4>2 DEF Observed, Bare
      <4>3. QED
        BY <4>1, <4>2
    <3>3. /\ DerivedWarmth(n) \in {"Warm", "Warming", "Cold"}
          /\ ~servicesRead => DerivedWarmth(n) = "Cold"
      BY DEF DerivedWarmth
    <3>4. QED
      BY <3>1, <3>2, <3>3 DEF Warmer, WarmthRank
  <2>2. QED
    BY <2>1 DEF ReportedWarmthHolds
<1>2. QED
  BY <1>1, ReportsTyped, PTL

-----------------------------------------------------------------------------
(***************************************************************************)
(* Signals without a usable instant.                                       *)
(***************************************************************************)
\* A name of the same NodeStates borrows from the same one.
LEMMA LenderKept ==
  ASSUME NEW n \in Reported,
         \A s \in Namespaces : reports'[<<n, s>>] # None <=> reports[<<n, s>>] # None
  PROVE  Lender(n)' = Lender(n)
<1> DEFINE S == {r \in Namespaces : reports[<<n, r>>] # None}
<1>1. S \in SUBSET Nat /\ S # {}
  BY CandidatesAssumption DEF Reported
<1>2. PICK m \in S : \A q \in S : m <= q
  BY <1>1, FirstNamespace
<1>3. \A r \in Namespaces :
         (reports[<<n, r>>] # None
            /\ \A q \in Namespaces : reports[<<n, q>>] # None => r <= q) <=> r = m
  <2>1. m \in Nat /\ \A q \in Namespaces : reports[<<n, q>>] # None => m <= q
    BY <1>1, <1>2
  <2>2. ASSUME NEW r \in Namespaces, reports[<<n, r>>] # None,
               \A q \in Namespaces : reports[<<n, q>>] # None => r <= q
        PROVE  r = m
    <3>1. r \in Nat /\ m <= r /\ r <= m
      BY <1>2, <2>1, <2>2, CandidatesAssumption
    <3>2. QED
      BY <2>1, <3>1
  <2>3. QED
    BY <1>2, <2>1, <2>2
<1>4. \A r \in Namespaces :
         (reports'[<<n, r>>] # None
            /\ \A q \in Namespaces : reports'[<<n, q>>] # None => r <= q) <=> r = m
  BY <1>3
<1>5. m \in Namespaces
  BY <1>2
<1>6. Lender(n) = m
  BY <1>3, <1>5 DEF Lender
<1>7. Lender(n)' = m
  BY <1>4, <1>5 DEF Lender
<1>8. QED
  BY <1>6, <1>7

\* What the strategies read of two candidates that differ in unusable signals.
RanksAs(c, d) ==
    /\ c.own = d.own /\ c.warmth = d.warmth
    /\ c.util = d.util /\ c.count = d.count
    /\ FreshHitRate(c, Horizon) = FreshHitRate(d, Horizon)
    /\ FreshTokensPerJoule(c, Horizon) = FreshTokensPerJoule(d, Horizon)

\* Statuses that differ in signals without a usable instant lend the same.
LEMMA UndatedRanksAs ==
  ASSUME Horizon # None, NEW a \in Statuses, NEW b \in Statuses,
         DifferUndated(a, b)
  PROVE  RanksAs(FromStatus(b), FromStatus(a)) /\ b.notice = a.notice
<1>1. /\ b.warmth = a.warmth /\ b.util = a.util
      /\ b.count = a.count /\ b.notice = a.notice
  BY CandidatesAssumption DEF DifferUndated, StatusType
<1>2. \A at \in Readings :
         at \in {None, Invalid} \/ at > Now => ~WithinHorizon(AgeSecs(at), Horizon)
  BY CandidatesAssumption, PlacementAssumption DEF Readings, AgeSecs, WithinHorizon
<1>3. /\ a.hitAt \in Readings /\ a.tpjAt \in Readings
      /\ b.hitAt \in Readings /\ b.tpjAt \in Readings
  BY CandidatesAssumption DEF StatusType
<1>4. /\ ~WithinHorizon(AgeSecs(a.hitAt), Horizon)
      /\ ~WithinHorizon(AgeSecs(b.hitAt), Horizon)
      /\ ~WithinHorizon(AgeSecs(a.tpjAt), Horizon)
      /\ ~WithinHorizon(AgeSecs(b.tpjAt), Horizon)
  BY <1>2, <1>3 DEF DifferUndated
<1>5. QED
  BY <1>1, <1>4 DEF RanksAs, FromStatus, FreshHitRate, FreshTokensPerJoule

\* Candidates that rank alike compare alike.
LEMMA ComparesAlike ==
  ASSUME NEW a, NEW b, NEW c, NEW d, RanksAs(a, c), RanksAs(b, d)
  PROVE  Cmp(Strategy, Horizon, a, b) = Cmp(Strategy, Horizon, c, d)
  BY DEF RanksAs, Cmp, CmpEfficiencyAware, CmpWarmthFirst

\* The preferred nodes, without the pairs that name their candidates.
LEMMA BestIs ==
  Best = {n \in EligibleNodes : \A m \in EligibleNodes :
             Cmp(Strategy, Horizon, Candidate(m), Candidate(n)) # Greater}
<1> DEFINE ranked == {<<n, Candidate(n)>> : n \in EligibleNodes}
           best(d) == \A e \in ranked : Cmp(Strategy, Horizon, e[2], d[2]) # Greater
<1>1. Best = {c[1] : c \in {d \in ranked : best(d)}}
  BY DEF Best
<1>2. \A n \in EligibleNodes :
         best(<<n, Candidate(n)>>) <=>
            \A m \in EligibleNodes :
               Cmp(Strategy, Horizon, Candidate(m), Candidate(n)) # Greater
  <2> SUFFICES ASSUME NEW n \in EligibleNodes
               PROVE  best(<<n, Candidate(n)>>) <=>
                         \A m \in EligibleNodes :
                            Cmp(Strategy, Horizon, Candidate(m), Candidate(n)) # Greater
    OBVIOUS
  <2>1. best(<<n, Candidate(n)>>) <=>
           \A e \in ranked : Cmp(Strategy, Horizon, e[2], Candidate(n)) # Greater
    OBVIOUS
  <2>2. \A m \in EligibleNodes : \E e \in ranked : e[2] = Candidate(m)
    <3>1. \A m \in EligibleNodes : <<m, Candidate(m)>> \in ranked
      OBVIOUS
    <3>2. QED
      BY <3>1
  <2>3. \A e \in ranked : \E m \in EligibleNodes : e[2] = Candidate(m)
    OBVIOUS
  <2> HIDE DEF ranked, best
  <2>4. ASSUME best(<<n, Candidate(n)>>), NEW m \in EligibleNodes
        PROVE  Cmp(Strategy, Horizon, Candidate(m), Candidate(n)) # Greater
    BY <2>1, <2>2, <2>4
  <2>5. ASSUME \A m \in EligibleNodes :
                  Cmp(Strategy, Horizon, Candidate(m), Candidate(n)) # Greater,
               NEW e \in ranked
        PROVE  Cmp(Strategy, Horizon, e[2], Candidate(n)) # Greater
    BY <2>3, <2>5
  <2>6. QED
    BY <2>1, <2>4, <2>5
<1> HIDE DEF best
<1>3. Best = {n \in EligibleNodes : best(<<n, Candidate(n)>>)}
  BY <1>1
<1>4. QED
  BY <1>2, <1>3

(***************************************************************************)
(* Under a horizon no value of a signal with a missing, malformed or       *)
(* coming instant changes which nodes are preferred                        *)
(* (fleet_controller.rs:96-103, fleet_placement.rs:121-130).               *)
(***************************************************************************)
THEOREM UndatedSignalsSwayNothing == Spec => UndatedSwaysNothing
<1>1. ASSUME ReportsType, ReportsType', [Next]_vars, Horizon # None,
             UNCHANGED <<hasSelector, nodes, services, nodesRead, servicesRead>>,
             \A p \in Places :
                \/ reports'[p] = reports[p]
                \/ None \notin {reports[p], reports'[p]}
                      /\ DifferUndated(reports[p], reports'[p])
      PROVE  Best' = Best
  <2>1. \A p \in Names \X Namespaces :
           \/ reports'[p] = reports[p]
           \/ /\ reports[p] # None /\ reports[p] \in Statuses
              /\ reports'[p] # None /\ reports'[p] \in Statuses
              /\ DifferUndated(reports[p], reports'[p])
    <3>1. \A p \in (Names \X Namespaces) \ Places : reports'[p] = reports[p]
      BY <1>1 DEF ReportsType, Next, vars, Report, ChangeNode, ChangeService,
                  NodeListTurns, ServiceListTurns
    <3>2. QED
      BY <1>1, <3>1 DEF ReportsType
  <2>2. \A n \in Names, s \in Namespaces :
           reports'[<<n, s>>] # None <=> reports[<<n, s>>] # None
    BY <2>1
  <2>3. Reported' = Reported
    BY <2>2 DEF Reported
  <2>4. \A n \in Names, s \in Namespaces :
           reports[<<n, s>>] # None =>
              /\ RanksAs(FromStatus(reports'[<<n, s>>]), FromStatus(reports[<<n, s>>]))
              /\ reports'[<<n, s>>].notice = reports[<<n, s>>].notice
    BY <1>1, <2>1, UndatedRanksAs DEF RanksAs
  <2>5. \A n \in Names : RanksAs(Observed(n)', Observed(n))
    <3> SUFFICES ASSUME NEW n \in Names
                 PROVE  RanksAs(Observed(n)', Observed(n))
      OBVIOUS
    <3>1. CASE n \in Reported
      <4>1. Lender(n) \in Namespaces /\ reports[<<n, Lender(n)>>] # None
        BY <3>1, LenderReported
      <4>2. Lender(n)' = Lender(n)
        BY <2>2, <3>1, LenderKept
      <4>3. Observed(n)' = FromStatus(reports'[<<n, Lender(n)>>])
        BY <1>1, <2>3, <3>1, <4>2 DEF Observed, FromStatus, AgeSecs
      <4>4. Observed(n) = FromStatus(reports[<<n, Lender(n)>>])
        BY <3>1 DEF Observed
      <4>5. QED
        BY <2>4, <4>1, <4>3, <4>4
    <3>2. CASE n \notin Reported
      BY <2>3, <3>2 DEF Observed, RanksAs
    <3>3. QED
      BY <3>1, <3>2
  <2>6. EligibleNodes' = EligibleNodes /\ EligibleNodes \subseteq Names
    <3>1. Preempted' = Preempted
      BY <2>2, <2>4 DEF Preempted
    <3>2. QED
      BY <1>1, <2>3, <3>1 DEF EligibleNodes, Named, MatchesNodePool, Reported,
         CordonedNodes, DisplacedNodes, Allocatable, HasCapacityFor
  <2>7. \A n \in Names : RanksAs(Candidate(n)', Candidate(n))
    <3> SUFFICES ASSUME NEW n \in Names
                 PROVE  RanksAs(Candidate(n)', Candidate(n))
      OBVIOUS
    <3>1. OwnPlacements(n)' = OwnPlacements(n) /\ DerivedWarmth(n)' = DerivedWarmth(n)
      BY <1>1 DEF OwnPlacements, DerivedWarmth
    <3>2. RanksAs(Observed(n)', Observed(n))
      BY <2>5
    <3>3. QED
      BY <3>1, <3>2 DEF Candidate, RanksAs, FreshHitRate, FreshTokensPerJoule,
         Observed, FromStatus, Bare
  <2>8. Best' = {n \in EligibleNodes' : \A m \in EligibleNodes' :
                   Cmp(Strategy, Horizon, Candidate(m)', Candidate(n)') # Greater}
    <3>1. (Best = {n \in EligibleNodes : \A m \in EligibleNodes :
              Cmp(Strategy, Horizon, Candidate(m), Candidate(n)) # Greater})'
      BY BestIs, PTL
    <3>2. QED
      BY <3>1
  <2>9. \A m, n \in Names : Cmp(Strategy, Horizon, Candidate(m)', Candidate(n)')
                             = Cmp(Strategy, Horizon, Candidate(m), Candidate(n))
    BY <2>7, ComparesAlike
  <2>10. QED
    BY <2>6, <2>8, <2>9, BestIs
<1>2. ReportsType /\ ReportsType' /\ [Next]_vars =>
        ((/\ Horizon # None
          /\ UNCHANGED <<hasSelector, nodes, services, nodesRead, servicesRead>>
          /\ \A p \in Places :
                \/ reports'[p] = reports[p]
                \/ None \notin {reports[p], reports'[p]}
                      /\ DifferUndated(reports[p], reports'[p]))
           => Best' = Best)
  BY <1>1
<1>3. QED
  BY <1>2, ReportsTyped, PTL DEF Spec, UndatedSwaysNothing
=============================================================================
