--------------------------- MODULE FleetPlanning ---------------------------
(***************************************************************************)
(* plan_initial_placements (src/src/fleet_planning.rs), one iteration of   *)
(* its loop a step: pick the best candidate, count the replica as already  *)
(* placed there, pick again.                                               *)
(***************************************************************************)
EXTENDS Placement

CONSTANTS
    Profiles,      \* the candidate records to draw from
    MaxCandidates, \* bound on the length of the candidate list
    MaxSlots,      \* bound on slots_to_fill
    Strategies,
    Horizons       \* values of signal_max_age_seconds

ASSUME PlanningAssumption ==
    /\ {MaxCandidates, MaxSlots} \subseteq Nat
    /\ Profiles \subseteq NodeCandidate
    /\ Horizons \subseteq Int \cup {None}

VARIABLES
    strategy, horizon,
    working,       \* the candidates, with the load simulated so far
    chosen,        \* positions picked, in order
    left           \* iterations left

vars == <<strategy, horizon, working, chosen, left>>

Lists == UNION {[1 .. n -> Profiles] : n \in 0 .. MaxCandidates}

Init ==
    /\ strategy \in Strategies
    /\ horizon \in Horizons
    /\ working \in Lists
    /\ chosen = <<>>
    /\ left \in 0 .. MaxSlots

-----------------------------------------------------------------------------
\* The load a placement adds: an unmeasured node is from now on measured.
Loaded(c) == [c EXCEPT !.count = IF @ = None THEN 1 ELSE @ + 1,
                       !.own = @ + 1]

Pick ==
    /\ left > 0
    /\ \E best \in Selected(strategy, horizon, working) :
          /\ chosen' = Append(chosen, best)
          /\ working' = [working EXCEPT ![best] = Loaded(@)]
    /\ left' = left - 1
    /\ UNCHANGED <<strategy, horizon>>

\* No candidate: the rest of the slots wait for the next reconcile.
Break ==
    /\ left > 0
    /\ Selected(strategy, horizon, working) = {}
    /\ left' = 0
    /\ UNCHANGED <<strategy, horizon, working, chosen>>

Next == Pick \/ Break

Spec == Init /\ [][Next]_vars

-----------------------------------------------------------------------------
(***************************************************************************)
(* Properties.                                                             *)
(***************************************************************************)
\* The candidates some slot of this batch is on.
Picked == {chosen[j] : j \in DOMAIN chosen}

(***************************************************************************)
(* A batch never loads a node while another has fewer of the fleet's own   *)
(* replicas: after every pick, a chosen node has at most one replica more  *)
(* than any other candidate (ADR-0018; fleet_planning.rs:5-15).            *)
(***************************************************************************)
Balanced ==
    \A k \in Picked, m \in DOMAIN working : working[k].own <= working[m].own + 1

\* The candidates of S that rate highest in f, or lowest, of those it rates; all
\* of S if it rates none.
Highest(S, f) ==
    LET rated == {k \in S : f[k] # None}
    IN  IF rated = {} THEN S ELSE {k \in rated : \A m \in rated : f[m] <= f[k]}

Lowest(S, f) ==
    LET rated == {k \in S : f[k] # None}
    IN  IF rated = {} THEN S ELSE {k \in rated : \A m \in rated : f[k] <= f[m]}

(***************************************************************************)
(* Reference: the ranking as the ADRs tell it, tier after tier, each tier  *)
(* keeping the best of the previous one (ADR-0007, ADR-0008 D4, ADR-0018). *)
(***************************************************************************)
Winners(str, h, cands) ==
    LET all    == DOMAIN cands
        fresh(age) == h = None \/ (age # None /\ age \in 0 .. h)
        own    == [k \in all |-> cands[k].own]
        warmth == [k \in all |-> WarmthRank(cands[k].warmth)]
        tpj    == [k \in all |-> IF fresh(cands[k].tpjAge)
                                 THEN ValidPositive(cands[k].tpj) ELSE None]
        hit    == [k \in all |-> IF fresh(cands[k].hitAge)
                                 THEN ValidHitRate(cands[k].hit) ELSE None]
        util   == [k \in all |-> ValidPositive(cands[k].util)]
        count  == [k \in all |-> cands[k].count]
        warm   == Highest(Lowest(all, own), warmth)
    IN  IF str = "EfficiencyAware"
        THEN Lowest(Lowest(Highest(Highest(warm, tpj), hit), util), count)
        ELSE Lowest(Lowest(warm, count), util)

(***************************************************************************)
(* Each pick is the last, in list order, of the candidates that survive    *)
(* every tier (fleet_placement.rs:184-319).                                *)
(***************************************************************************)
PickIsTierWinner ==
    [][left' = left - 1 /\ chosen' # chosen =>
          LET best == chosen'[Len(chosen')]
              top  == Winners(strategy, horizon, working)
          IN  best \in top /\ \A k \in top : k <= best]_vars

(***************************************************************************)
(* The ranking is total: of any candidates exactly one is selected, so a   *)
(* reconcile that has a candidate places something and repeating it on the *)
(* same reads places the same (fleet_placement.rs:210-219).                *)
(***************************************************************************)
OneSelected ==
    strategy # "Unsupported" /\ working # <<>> =>
        \E k \in DOMAIN working : Selected(strategy, horizon, working) = {k}

(***************************************************************************)
(* The planner picks on what it can know: a signal of no known age, or of  *)
(* an age outside 0 .. horizon, changes no pick (ADR-0008 D2;              *)
(* fleet_placement.rs:105-130).                                            *)
(***************************************************************************)
StaleChangesNothing ==
    horizon # None =>
        LET stale(age) == age = None \/ age < 0 \/ age > horizon
            known == [k \in DOMAIN working |->
                        [working[k] EXCEPT
                            !.hit = IF stale(working[k].hitAge) THEN None ELSE @,
                            !.tpj = IF stale(working[k].tpjAge) THEN None ELSE @]]
        IN  Selected(strategy, horizon, known) = Selected(strategy, horizon, working)
=============================================================================
