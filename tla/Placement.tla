----------------------------- MODULE Placement -----------------------------
(***************************************************************************)
(* The ranking of candidate nodes (src/src/fleet_placement.rs): which node *)
(* a strategy selects out of a list of eligible candidates.                *)
(*                                                                         *)
(* A candidate is a record: own (own_replicas), warmth, util, count, hit   *)
(* and tpj (the optional signals) with hitAge and tpjAge.  Signals are     *)
(* integers, hit rates in percent; None is an absent Option and Invalid a  *)
(* value that is not finite.                                               *)
(***************************************************************************)
EXTENDS Integers, Sequences

CONSTANTS None, Invalid

ASSUME PlacementAssumption == None # Invalid /\ {None, Invalid} \cap Int = {}

\* An optional float or instant, which may fail to be one.
Readings == Int \cup {None, Invalid}

\* NodeCandidate, without its name.
NodeCandidate ==
    [own : Int, warmth : {"Warm", "Warming", "Cold"}, util : Readings,
     count : Int \cup {None}, hit : Readings, hitAge : Int \cup {None},
     tpj : Readings, tpjAge : Int \cup {None}]

Less == -1
Equal == 0
Greater == 1

Sign(x) == IF x < 0 THEN Less ELSE IF x = 0 THEN Equal ELSE Greater

-----------------------------------------------------------------------------
\* Plausible slips, substituted one at a time when the properties are tested.

NoTimestampIsFresh(age, horizon) ==
    \/ horizon = None
    \/ age = None
    \/ age # None /\ age <= horizon

OwnReplicasIgnored(cs) ==
    LET deciding == {k \in DOMAIN cs : k > 1 /\ cs[k] # Equal}
    IN  IF deciding = {} THEN Equal
        ELSE cs[CHOOSE k \in deciding : \A l \in deciding : k <= l]

AbsentTies(a, b) == IF None \in {a, b} THEN Equal ELSE Sign(a - b)

AbsentIsIdle(a, b) ==
    Sign((IF b = None THEN 0 ELSE b) - (IF a = None THEN 0 ELSE a))

-----------------------------------------------------------------------------
(***************************************************************************)
(* Signals.                                                                *)
(***************************************************************************)
\* within_horizon: no horizon admits every age; with one, an observation
\* without a timestamp, or from the future, is not fresh.
WithinHorizon(age, horizon) ==
    \/ horizon = None
    \/ horizon # None /\ age # None /\ 0 <= age /\ age <= horizon

\* valid_*: a value outside its physical domain reads as absent.
ValidHitRate(v)  == IF v \in Int /\ v \in 0 .. 100 THEN v ELSE None
ValidPositive(v) == IF v \in Int /\ v >= 0 THEN v ELSE None

FreshHitRate(c, horizon) ==
    IF WithinHorizon(c.hitAge, horizon) THEN ValidHitRate(c.hit) ELSE None

FreshTokensPerJoule(c, horizon) ==
    IF WithinHorizon(c.tpjAge, horizon) THEN ValidPositive(c.tpj) ELSE None

WarmthRank(w) == CASE w = "Warm" -> 2 [] w = "Warming" -> 1 [] w = "Cold" -> 0

(***************************************************************************)
(* Comparators: Greater means that a is preferred.                         *)
(***************************************************************************)
\* cmp_signal: higher is preferred, an absent signal last.
CmpHigher(a, b) ==
    CASE a = None /\ b = None -> Equal
      [] a = None /\ b # None -> Less
      [] a # None /\ b = None -> Greater
      [] OTHER                -> Sign(a - b)

\* cmp_signal_lower and cmp_count_lower: lower is preferred, an absent one last.
CmpLower(a, b) ==
    CASE a = None /\ b = None -> Equal
      [] a = None /\ b # None -> Less
      [] a # None /\ b = None -> Greater
      [] OTHER                -> Sign(b - a)

\* then_with: the first comparison that tells the two apart decides.
Lexicographic(cs) ==
    LET deciding == {k \in DOMAIN cs : cs[k] # Equal}
    IN  IF deciding = {} THEN Equal
        ELSE cs[CHOOSE k \in deciding : \A l \in deciding : k <= l]

\* select_node_for_placement.
CmpWarmthFirst(a, b) ==
    Lexicographic(<< Sign(b.own - a.own),
                     Sign(WarmthRank(a.warmth) - WarmthRank(b.warmth)),
                     CmpLower(a.count, b.count),
                     CmpLower(ValidPositive(a.util), ValidPositive(b.util)) >>)

\* select_node_efficiency_aware.
CmpEfficiencyAware(a, b, horizon) ==
    Lexicographic(<< Sign(b.own - a.own),
                     Sign(WarmthRank(a.warmth) - WarmthRank(b.warmth)),
                     CmpHigher(FreshTokensPerJoule(a, horizon),
                               FreshTokensPerJoule(b, horizon)),
                     CmpHigher(FreshHitRate(a, horizon), FreshHitRate(b, horizon)),
                     CmpLower(ValidPositive(a.util), ValidPositive(b.util)),
                     CmpLower(a.count, b.count) >>)

Cmp(strategy, horizon, a, b) ==
    IF strategy = "EfficiencyAware" THEN CmpEfficiencyAware(a, b, horizon)
    ELSE CmpWarmthFirst(a, b)

(***************************************************************************)
(* Iterator::max_by: the last of the candidates none is preferred to.      *)
(***************************************************************************)
IsLastMax(strategy, horizon, cands, k) ==
    /\ k \in DOMAIN cands
    /\ \A j \in DOMAIN cands :
          /\ j < k => Cmp(strategy, horizon, cands[j], cands[k]) # Greater
          /\ j > k => Cmp(strategy, horizon, cands[j], cands[k]) = Less

\* select_node_with_strategy: the positions it may return; at most one, and none
\* only for an empty list or a strategy that is not implemented.
Selected(strategy, horizon, cands) ==
    {k \in DOMAIN cands : /\ strategy # "Unsupported"
                          /\ IsLastMax(strategy, horizon, cands, k)}
=============================================================================
