------------------------ MODULE FleetPlanningProofs ------------------------
(***************************************************************************)
(* Proofs about the ranking of candidates and about the batch planner, for *)
(* every list of candidates, whatever their signals, every strategy, every *)
(* horizon and every number of slots.                                      *)
(***************************************************************************)
EXTENDS FleetPlanning, WellFoundedInduction, TLAPS

\* The three outcomes of a comparison are the three signs.
USE DEF Less, Equal, Greater

-----------------------------------------------------------------------------
(***************************************************************************)
(* Comparing lexicographically.                                            *)
(***************************************************************************)
\* A set of natural numbers that is not empty has a least one.
LEMMA LeastOf ==
  ASSUME NEW S \in SUBSET Nat, S # {}
  PROVE  \E m \in S : \A k \in S : m <= k
<1>1. PICK m \in S : \A k \in S : ~ (<<k, m>> \in OpToRel(<, Nat))
  <2>1. IsWellFoundedOn(OpToRel(<, Nat), Nat)
    BY NatLessThanWellFounded
  <2>2. QED
    BY <2>1, WFMin
<1>2. ASSUME NEW k \in S
      PROVE  m <= k
  <2>1. k \in Nat /\ m \in Nat
    OBVIOUS
  <2>2. ~ (k < m)
    BY <1>1, <2>1 DEF OpToRel
  <2>3. QED
    BY <2>1, <2>2
<1>3. QED
  BY <1>2

\* The first tier that tells the two apart decides; without one they are equal.
LEMMA FirstDecides ==
  ASSUME NEW n \in Nat, NEW cs \in [1 .. n -> Int]
  PROVE  \/ /\ \A k \in 1 .. n : cs[k] = 0
            /\ Lexicographic(cs) = 0
         \/ \E k \in 1 .. n :
               /\ cs[k] # 0
               /\ \A l \in 1 .. n : l < k => cs[l] = 0
               /\ Lexicographic(cs) = cs[k]
<1> DEFINE deciding == {k \in DOMAIN cs : cs[k] # Equal}
<1>1. deciding \in SUBSET Nat /\ DOMAIN cs = 1 .. n
  OBVIOUS
<1>2. CASE deciding = {}
  <2>1. Lexicographic(cs) = Equal
    BY <1>2 DEF Lexicographic
  <2>2. QED
    BY <1>1, <1>2, <2>1
<1>3. CASE deciding # {}
  <2> DEFINE first == CHOOSE k \in deciding : \A l \in deciding : k <= l
  <2>1. \E k \in deciding : \A l \in deciding : k <= l
    BY <1>1, <1>3, LeastOf
  <2>2. first \in deciding /\ \A l \in deciding : first <= l
    BY <2>1
  <2>3. Lexicographic(cs) = cs[first]
    BY <1>3 DEF Lexicographic
  <2> HIDE DEF first
  <2>4. first \in 1 .. n /\ cs[first] # 0
    BY <1>1, <2>2
  <2>5. \A l \in 1 .. n : l < first => cs[l] = 0
    BY <1>1, <2>2, <2>4
  <2>6. QED
    BY <2>3, <2>4, <2>5
<1>4. QED
  BY <1>2, <1>3

\* The tier before which all tie, if it does not, is the one that decides.
LEMMA DecidedBy ==
  ASSUME NEW n \in Nat, NEW cs \in [1 .. n -> Int], NEW k \in 1 .. n,
         cs[k] # 0, \A l \in 1 .. n : l < k => cs[l] = 0
  PROVE  Lexicographic(cs) = cs[k]
<1>1. PICK m \in 1 .. n : /\ cs[m] # 0
                          /\ \A l \in 1 .. n : l < m => cs[l] = 0
                          /\ Lexicographic(cs) = cs[m]
  BY FirstDecides
<1>2. m = k
  <2>1. m \in Int /\ k \in Int /\ ~(m < k) /\ ~(k < m)
    BY <1>1
  <2>2. QED
    BY <2>1
<1>3. QED
  BY <1>1, <1>2

\* The outcome is that of some tier, or a tie.
LEMMA LexType ==
  ASSUME NEW n \in Nat, NEW cs \in [1 .. n -> Int]
  PROVE  Lexicographic(cs) \in Int
  BY FirstDecides

\* Compared the other way round, the outcome is the opposite.
LEMMA LexOpposite ==
  ASSUME NEW n \in Nat, NEW cs \in [1 .. n -> Int], NEW ds \in [1 .. n -> Int],
         \A k \in 1 .. n : ds[k] = 0 - cs[k]
  PROVE  Lexicographic(ds) = 0 - Lexicographic(cs)
<1>1. CASE \A k \in 1 .. n : cs[k] = 0
  <2>1. \A k \in 1 .. n : ds[k] = 0
    BY <1>1
  <2>2. Lexicographic(cs) = 0 /\ Lexicographic(ds) = 0
    BY <1>1, <2>1, FirstDecides
  <2>3. QED
    BY <2>2
<1>2. CASE ~\A k \in 1 .. n : cs[k] = 0
  <2>1. PICK k \in 1 .. n : /\ cs[k] # 0
                            /\ \A l \in 1 .. n : l < k => cs[l] = 0
                            /\ Lexicographic(cs) = cs[k]
    BY <1>2, FirstDecides
  <2>2. ds[k] # 0 /\ \A l \in 1 .. n : l < k => ds[l] = 0
    BY <2>1
  <2>3. PICK m \in 1 .. n : /\ ds[m] # 0
                            /\ \A l \in 1 .. n : l < m => ds[l] = 0
                            /\ Lexicographic(ds) = ds[m]
    BY <2>2, FirstDecides
  <2>4. m = k
    BY <2>2, <2>3
  <2>5. QED
    BY <2>1, <2>3, <2>4
<1>3. QED
  BY <1>1, <1>2

\* What three comparisons of a, b and c in one tier have in common with the
\* differences of three numbers.
Chained(x, y, z) ==
    /\ x <= 0 /\ y <= 0 => z <= 0
    /\ x = 0 /\ y = 0 => z = 0
    /\ x < 0 /\ y <= 0 => z < 0
    /\ x <= 0 /\ y < 0 => z < 0

\* What no tier that comes to decide prefers is not preferred.
LEMMA LexChained ==
  ASSUME NEW n \in Nat, NEW xs \in [1 .. n -> Int], NEW ys \in [1 .. n -> Int],
         NEW zs \in [1 .. n -> Int],
         \A k \in 1 .. n : Chained(xs[k], ys[k], zs[k])
  PROVE  Chained(Lexicographic(xs), Lexicographic(ys), Lexicographic(zs))
<1> DEFINE differ == {k \in 1 .. n : xs[k] # 0 \/ ys[k] # 0}
<1>1. CASE differ = {}
  <2>1. \A k \in 1 .. n : xs[k] = 0 /\ ys[k] = 0
    BY <1>1
  <2>2. \A k \in 1 .. n : zs[k] = 0
    BY <2>1 DEF Chained
  <2>3. Lexicographic(xs) = 0 /\ Lexicographic(ys) = 0 /\ Lexicographic(zs) = 0
    BY <2>1, <2>2, FirstDecides
  <2>4. QED
    BY <2>3 DEF Chained
<1>2. CASE differ # {}
  <2>1. differ \in SUBSET Nat
    OBVIOUS
  <2>2. PICK k \in differ : \A l \in differ : k <= l
    BY <1>2, <2>1, LeastOf
  <2>3. k \in 1 .. n /\ (xs[k] # 0 \/ ys[k] # 0)
    BY <2>2
  <2>4. \A l \in 1 .. n : l < k => xs[l] = 0 /\ ys[l] = 0
    BY <2>2, <2>3
  <2>5. \A l \in 1 .. n : l < k => zs[l] = 0
    BY <2>4 DEF Chained
  <2>6. /\ xs[k] \in Int /\ ys[k] \in Int /\ zs[k] \in Int
        /\ Chained(xs[k], ys[k], zs[k])
    BY <2>3
  <2> HIDE DEF differ
  <2>7. /\ xs[k] # 0 => Lexicographic(xs) = xs[k]
        /\ ys[k] # 0 => Lexicographic(ys) = ys[k]
        /\ zs[k] # 0 => Lexicographic(zs) = zs[k]
    BY <2>3, <2>4, <2>5, DecidedBy
  <2>8. Lexicographic(xs) \in Int /\ Lexicographic(ys) \in Int
    BY LexType
  <2>9. ~(Lexicographic(xs) = 0 /\ Lexicographic(ys) = 0)
    BY <2>3, <2>7
  <2>10. ASSUME Lexicographic(xs) <= 0, Lexicographic(ys) <= 0
         PROVE  Lexicographic(zs) < 0
    <3>1. xs[k] <= 0 /\ ys[k] <= 0
      BY <2>6, <2>7, <2>8, <2>10
    <3>2. zs[k] < 0
      BY <2>3, <2>6, <3>1 DEF Chained
    <3>3. QED
      BY <2>6, <2>7, <3>2
  <2>11. Lexicographic(zs) \in Int
    BY LexType
  <2>12. QED
    BY <2>8, <2>9, <2>10, <2>11 DEF Chained
<1>3. QED
  BY <1>1, <1>2

-----------------------------------------------------------------------------
(***************************************************************************)
(* The tiers.                                                              *)
(***************************************************************************)
Opposite(x, y) == x \in Int /\ y = 0 - x

\* A signal that may be absent, compared with the higher or the lower preferred,
\* an absent one last: a comparison has its opposite, and comparisons chain.
LEMMA SignalTiers ==
  ASSUME NEW a \in Int \cup {None}, NEW b \in Int \cup {None},
         NEW c \in Int \cup {None}
  PROVE  /\ Opposite(CmpHigher(a, b), CmpHigher(b, a))
         /\ Opposite(CmpLower(a, b), CmpLower(b, a))
         /\ Chained(CmpHigher(a, b), CmpHigher(b, c), CmpHigher(a, c))
         /\ Chained(CmpLower(a, b), CmpLower(b, c), CmpLower(a, c))
<1>0. None \notin Int
  BY PlacementAssumption
<1>1. Opposite(CmpHigher(a, b), CmpHigher(b, a))
  BY <1>0 DEF Opposite, CmpHigher, Sign
<1>2. Opposite(CmpLower(a, b), CmpLower(b, a))
  BY <1>0 DEF Opposite, CmpLower, Sign
<1>3. Chained(CmpHigher(a, b), CmpHigher(b, c), CmpHigher(a, c))
  BY <1>0 DEF Chained, CmpHigher, Sign
<1>4. Chained(CmpLower(a, b), CmpLower(b, c), CmpLower(a, c))
  BY <1>0 DEF Chained, CmpLower, Sign
<1>5. QED
  BY <1>1, <1>2, <1>3, <1>4

\* So do numbers that are always known.
LEMMA NumberTiers ==
  ASSUME NEW a \in Int, NEW b \in Int, NEW c \in Int
  PROVE  /\ Opposite(Sign(a - b), Sign(b - a))
         /\ Chained(Sign(a - b), Sign(b - c), Sign(a - c))
         /\ Chained(Sign(b - a), Sign(c - b), Sign(c - a))
  BY DEF Opposite, Chained, Sign

\* What the tiers compare is a number or absent, whatever was observed.
LEMMA SignalsType ==
  ASSUME NEW c \in NodeCandidate, NEW h
  PROVE  /\ c.own \in Int
         /\ WarmthRank(c.warmth) \in Int
         /\ c.count \in Int \cup {None}
         /\ ValidPositive(c.util) \in Int \cup {None}
         /\ FreshHitRate(c, h) \in Int \cup {None}
         /\ FreshTokensPerJoule(c, h) \in Int \cup {None}
<1>1. c.own \in Int /\ c.count \in Int \cup {None}
  BY DEF NodeCandidate
<1>2. WarmthRank(c.warmth) \in Int
  BY DEF NodeCandidate, WarmthRank
<1>3. ValidPositive(c.util) \in Int \cup {None}
  BY DEF ValidPositive
<1>4. FreshHitRate(c, h) \in Int \cup {None}
  BY DEF FreshHitRate, ValidHitRate
<1>5. FreshTokensPerJoule(c, h) \in Int \cup {None}
  BY DEF FreshTokensPerJoule, ValidPositive
<1>6. QED
  BY <1>1, <1>2, <1>3, <1>4, <1>5

\* The tiers of a strategy, in order.
Tiers(str, h, a, b) ==
    IF str = "EfficiencyAware"
    THEN << Sign(b.own - a.own),
            Sign(WarmthRank(a.warmth) - WarmthRank(b.warmth)),
            CmpHigher(FreshTokensPerJoule(a, h), FreshTokensPerJoule(b, h)),
            CmpHigher(FreshHitRate(a, h), FreshHitRate(b, h)),
            CmpLower(ValidPositive(a.util), ValidPositive(b.util)),
            CmpLower(a.count, b.count) >>
    ELSE << Sign(b.own - a.own),
            Sign(WarmthRank(a.warmth) - WarmthRank(b.warmth)),
            CmpLower(a.count, b.count),
            CmpLower(ValidPositive(a.util), ValidPositive(b.util)) >>

TierCount(str) == IF str = "EfficiencyAware" THEN 6 ELSE 4

\* A strategy compares lexicographically, tier after tier.
LEMMA CmpIsLexicographic ==
  ASSUME NEW str, NEW h, NEW a \in NodeCandidate, NEW b \in NodeCandidate
  PROVE  /\ TierCount(str) \in Nat
         /\ Tiers(str, h, a, b) \in [1 .. TierCount(str) -> Int]
         /\ Cmp(str, h, a, b) = Lexicographic(Tiers(str, h, a, b))
<1>1. Cmp(str, h, a, b) = Lexicographic(Tiers(str, h, a, b))
  BY DEF Cmp, CmpEfficiencyAware, CmpWarmthFirst, Tiers
<1> DEFINE own == Sign(b.own - a.own)
           warm == Sign(WarmthRank(a.warmth) - WarmthRank(b.warmth))
           tpj == CmpHigher(FreshTokensPerJoule(a, h), FreshTokensPerJoule(b, h))
           hit == CmpHigher(FreshHitRate(a, h), FreshHitRate(b, h))
           util == CmpLower(ValidPositive(a.util), ValidPositive(b.util))
           count == CmpLower(a.count, b.count)
<1>2. own \in Int /\ warm \in Int
  BY SignalsType, NumberTiers DEF Opposite
<1>3. tpj \in Int /\ hit \in Int /\ util \in Int /\ count \in Int
  BY SignalsType, SignalTiers DEF Opposite
<1>4. Tiers(str, h, a, b) = IF str = "EfficiencyAware"
                            THEN <<own, warm, tpj, hit, util, count>>
                            ELSE <<own, warm, count, util>>
  BY DEF Tiers
<1> HIDE DEF own, warm, tpj, hit, util, count
<1>5. QED
  BY <1>1, <1>2, <1>3, <1>4 DEF TierCount

\* Each tier has its opposite, and chains.
LEMMA TiersChain ==
  ASSUME NEW str, NEW h, NEW a \in NodeCandidate, NEW b \in NodeCandidate,
         NEW c \in NodeCandidate, NEW k \in 1 .. TierCount(str)
  PROVE  /\ Tiers(str, h, b, a)[k] = 0 - Tiers(str, h, a, b)[k]
         /\ Chained(Tiers(str, h, a, b)[k], Tiers(str, h, b, c)[k],
                    Tiers(str, h, a, c)[k])
<1> DEFINE Good(x, y, u, v) == y = 0 - x /\ Chained(x, u, v)
<1>1. Good(Sign(b.own - a.own), Sign(a.own - b.own),
           Sign(c.own - b.own), Sign(c.own - a.own))
  BY SignalsType, NumberTiers DEF Opposite
<1>2. Good(Sign(WarmthRank(a.warmth) - WarmthRank(b.warmth)),
           Sign(WarmthRank(b.warmth) - WarmthRank(a.warmth)),
           Sign(WarmthRank(b.warmth) - WarmthRank(c.warmth)),
           Sign(WarmthRank(a.warmth) - WarmthRank(c.warmth)))
  BY SignalsType, NumberTiers DEF Opposite
<1>3. Good(CmpHigher(FreshTokensPerJoule(a, h), FreshTokensPerJoule(b, h)),
           CmpHigher(FreshTokensPerJoule(b, h), FreshTokensPerJoule(a, h)),
           CmpHigher(FreshTokensPerJoule(b, h), FreshTokensPerJoule(c, h)),
           CmpHigher(FreshTokensPerJoule(a, h), FreshTokensPerJoule(c, h)))
  BY SignalsType, SignalTiers DEF Opposite
<1>4. Good(CmpHigher(FreshHitRate(a, h), FreshHitRate(b, h)),
           CmpHigher(FreshHitRate(b, h), FreshHitRate(a, h)),
           CmpHigher(FreshHitRate(b, h), FreshHitRate(c, h)),
           CmpHigher(FreshHitRate(a, h), FreshHitRate(c, h)))
  BY SignalsType, SignalTiers DEF Opposite
<1>5. Good(CmpLower(ValidPositive(a.util), ValidPositive(b.util)),
           CmpLower(ValidPositive(b.util), ValidPositive(a.util)),
           CmpLower(ValidPositive(b.util), ValidPositive(c.util)),
           CmpLower(ValidPositive(a.util), ValidPositive(c.util)))
  BY SignalsType, SignalTiers DEF Opposite
<1>6. Good(CmpLower(a.count, b.count), CmpLower(b.count, a.count),
           CmpLower(b.count, c.count), CmpLower(a.count, c.count))
  BY SignalsType, SignalTiers DEF Opposite
<1> HIDE DEF Good
<1>7. Good(Tiers(str, h, a, b)[k], Tiers(str, h, b, a)[k],
           Tiers(str, h, b, c)[k], Tiers(str, h, a, c)[k])
  <2>1. CASE str = "EfficiencyAware"
    <3>1. k \in 1 .. 6
      BY <2>1 DEF TierCount
    <3>2. QED
      BY <1>1, <1>2, <1>3, <1>4, <1>5, <1>6, <2>1, <3>1 DEF Tiers
  <2>2. CASE str # "EfficiencyAware"
    <3>1. k \in 1 .. 4
      BY <2>2 DEF TierCount
    <3>2. QED
      BY <1>1, <1>2, <1>5, <1>6, <2>2, <3>1 DEF Tiers
  <2>3. QED
    BY <2>1, <2>2
<1>8. QED
  BY <1>7 DEF Good

\* The ranking is a total preorder: its comparison has an opposite and chains.
LEMMA RankingIsPreorder ==
  ASSUME NEW str, NEW h, NEW a \in NodeCandidate, NEW b \in NodeCandidate,
         NEW c \in NodeCandidate
  PROVE  /\ Cmp(str, h, a, b) \in Int
         /\ Cmp(str, h, b, a) = 0 - Cmp(str, h, a, b)
         /\ Chained(Cmp(str, h, a, b), Cmp(str, h, b, c), Cmp(str, h, a, c))
<1> DEFINE n == TierCount(str)
           ab == Tiers(str, h, a, b)
           ba == Tiers(str, h, b, a)
           bc == Tiers(str, h, b, c)
           ac == Tiers(str, h, a, c)
<1>1. /\ n \in Nat
      /\ ab \in [1 .. n -> Int] /\ ba \in [1 .. n -> Int]
      /\ bc \in [1 .. n -> Int] /\ ac \in [1 .. n -> Int]
  BY CmpIsLexicographic
<1>2. /\ Cmp(str, h, a, b) = Lexicographic(ab)
      /\ Cmp(str, h, b, a) = Lexicographic(ba)
      /\ Cmp(str, h, b, c) = Lexicographic(bc)
      /\ Cmp(str, h, a, c) = Lexicographic(ac)
  BY CmpIsLexicographic
<1>3. \A k \in 1 .. n : ba[k] = 0 - ab[k] /\ Chained(ab[k], bc[k], ac[k])
  BY TiersChain
<1> HIDE DEF n, ab, ba, bc, ac
<1>4. Lexicographic(ab) \in Int
  BY <1>1, LexType
<1>5. Lexicographic(ba) = 0 - Lexicographic(ab)
  BY <1>1, <1>3, LexOpposite
<1>6. Chained(Lexicographic(ab), Lexicographic(bc), Lexicographic(ac))
  BY <1>1, <1>3, LexChained
<1>7. QED
  BY <1>2, <1>4, <1>5, <1>6

\* A node with fewer of the fleet's own replicas is preferred whatever else is
\* known of it.
LEMMA OwnReplicasFirst ==
  ASSUME NEW str, NEW h, NEW a \in NodeCandidate, NEW b \in NodeCandidate,
         a.own < b.own
  PROVE  Cmp(str, h, a, b) = Greater
<1> DEFINE n == TierCount(str)
           ab == Tiers(str, h, a, b)
<1>1. /\ n \in Nat /\ ab \in [1 .. n -> Int]
      /\ Cmp(str, h, a, b) = Lexicographic(ab)
  BY CmpIsLexicographic
<1>2. 1 \in 1 .. n
  BY DEF TierCount
<1>3. ab[1] = 1
  <2>1. ab[1] = Sign(b.own - a.own)
    BY DEF Tiers
  <2>2. QED
    BY <2>1, SignalsType DEF Sign
<1> HIDE DEF n, ab
<1>4. \A l \in 1 .. n : l < 1 => ab[l] = 0
  BY <1>1
<1>5. QED
  BY <1>1, <1>2, <1>3, <1>4, DecidedBy

-----------------------------------------------------------------------------
(***************************************************************************)
(* max_by.                                                                 *)
(***************************************************************************)
\* Of two candidates at most one is the last maximum.
LEMMA AtMostOne ==
  ASSUME NEW str, NEW h, NEW n \in Nat, NEW cands \in [1 .. n -> NodeCandidate],
         NEW k \in 1 .. n, NEW m \in 1 .. n,
         IsLastMax(str, h, cands, k), IsLastMax(str, h, cands, m)
  PROVE  k = m
<1>1. ASSUME NEW i \in 1 .. n, NEW j \in 1 .. n, i < j,
             IsLastMax(str, h, cands, i), IsLastMax(str, h, cands, j)
      PROVE  FALSE
  <2>1. Cmp(str, h, cands[i], cands[j]) # Greater
    BY <1>1 DEF IsLastMax
  <2>2. Cmp(str, h, cands[j], cands[i]) = Less
    BY <1>1 DEF IsLastMax
  <2>3. /\ Cmp(str, h, cands[i], cands[j]) \in Int
        /\ Cmp(str, h, cands[j], cands[i]) = 0 - Cmp(str, h, cands[i], cands[j])
    BY RankingIsPreorder
  <2>4. QED
    BY <2>1, <2>2, <2>3
<1>2. k \in Int /\ m \in Int /\ ~(k < m) /\ ~(m < k)
  BY <1>1
<1>3. QED
  BY <1>2

\* The comparison of two candidates has three outcomes.
LEMMA ThreeOutcomes ==
  ASSUME NEW str, NEW h, NEW a \in NodeCandidate, NEW b \in NodeCandidate
  PROVE  Cmp(str, h, a, b) \in {Less, Equal, Greater}
<1> DEFINE n == TierCount(str)
           ab == Tiers(str, h, a, b)
<1>1. /\ n \in Nat /\ ab \in [1 .. n -> Int]
      /\ Cmp(str, h, a, b) = Lexicographic(ab)
  BY CmpIsLexicographic
<1>2. \A k \in 1 .. n : ab[k] \in {Less, Equal, Greater}
  <2>1. ASSUME NEW x, NEW y
        PROVE  /\ Sign(x) \in {Less, Equal, Greater}
               /\ CmpHigher(x, y) \in {Less, Equal, Greater}
               /\ CmpLower(x, y) \in {Less, Equal, Greater}
    BY DEF Sign, CmpHigher, CmpLower
  <2>2. QED
    BY <2>1 DEF Tiers, TierCount
<1> HIDE DEF n, ab
<1>3. QED
  BY <1>1, <1>2, FirstDecides

\* A list with a candidate has a last maximum.
LEMMA AtLeastOne ==
  ASSUME NEW str, NEW h, NEW n \in Nat, n > 0,
         NEW cands \in [1 .. n -> NodeCandidate]
  PROVE  \E k \in 1 .. n : IsLastMax(str, h, cands, k)
<1> DEFINE C(i, j) == Cmp(str, h, cands[i], cands[j])
           Leads(k, i) == /\ k \in 1 .. i
                          /\ \A j \in 1 .. i : /\ j < k => C(j, k) # Greater
                                               /\ j > k => C(j, k) = Less
           without == {i \in 1 .. n : ~\E k \in 1 .. i : Leads(k, i)}
<1>1. \A i, j, l \in 1 .. n :
        /\ C(i, j) \in {Less, Equal, Greater}
        /\ C(j, i) = 0 - C(i, j)
        /\ Chained(C(i, j), C(j, l), C(i, l))
  BY RankingIsPreorder, ThreeOutcomes
<1> HIDE DEF C
<1>2. without = {}
  <2> SUFFICES ASSUME without # {} PROVE FALSE
    OBVIOUS
  <2>1. without \in SUBSET Nat
    OBVIOUS
  <2>2. PICK i \in without : \A j \in without : i <= j
    BY <2>1, LeastOf
  <2>3. i \in 1 .. n /\ ~\E k \in 1 .. i : Leads(k, i)
    BY <2>2
  <2>4. i # 1
    <3>1. Leads(1, 1)
      OBVIOUS
    <3>2. QED
      BY <2>3, <3>1
  <2>5. i - 1 \in 1 .. n /\ \E k \in 1 .. (i - 1) : Leads(k, i - 1)
    <3>1. i - 1 \in 1 .. n /\ ~(i <= i - 1)
      BY <2>3, <2>4
    <3>2. i - 1 \notin without
      BY <2>2, <3>1
    <3> HIDE DEF Leads
    <3>3. QED
      BY <3>1, <3>2
  <2>6. PICK k \in 1 .. (i - 1) : Leads(k, i - 1)
    BY <2>5
  <2>7. CASE C(i, k) = Less
    <3>1. Leads(k, i)
      BY <2>3, <2>6, <2>7
    <3>2. QED
      BY <2>3, <3>1
  <2>8. CASE C(i, k) # Less
    <3>1. C(k, i) <= 0
      BY <1>1, <2>3, <2>6, <2>8
    <3>2. ASSUME NEW j \in 1 .. i, j < i
          PROVE  C(j, i) # Greater
      <4>1. j \in 1 .. (i - 1)
        BY <2>3, <3>2
      <4>2. j = k \/ C(j, k) # Greater
        BY <2>6, <4>1
      <4>3. C(j, k) \in {Less, Equal, Greater} /\ Chained(C(j, k), C(k, i), C(j, i))
        BY <1>1, <2>3, <2>6, <4>1
      <4>4. j = k => C(j, i) <= 0
        BY <3>1
      <4>5. j # k => C(j, i) <= 0
        BY <3>1, <4>2, <4>3 DEF Chained
      <4>6. QED
        BY <4>4, <4>5
    <3>3. Leads(i, i)
      BY <2>3, <3>2
    <3>4. QED
      BY <2>3, <3>3
  <2>9. QED
    BY <2>7, <2>8
<1>3. PICK k \in 1 .. n : Leads(k, n)
  <2>1. n \in 1 .. n
    OBVIOUS
  <2> HIDE DEF Leads
  <2>2. QED
    BY <1>2, <2>1
<1>4. IsLastMax(str, h, cands, k)
  BY <1>3 DEF IsLastMax, C
<1>5. QED
  BY <1>4

-----------------------------------------------------------------------------
(***************************************************************************)
(* The batch planner.                                                      *)
(***************************************************************************)
\* The candidates stay a list of candidates, and what is chosen is of them.
PlannerType ==
    /\ \E n \in Nat : working \in [1 .. n -> NodeCandidate]
    /\ chosen \in Seq(DOMAIN working)
    /\ horizon \in Int \cup {None}

\* A candidate loaded with one replica more is a candidate.
LEMMA LoadedType ==
  ASSUME NEW c \in NodeCandidate
  PROVE  Loaded(c) \in NodeCandidate /\ Loaded(c).own = c.own + 1
<1>1. c.own \in Int /\ c.count \in Int \cup {None}
  BY DEF NodeCandidate
<1> DEFINE count == IF c.count = None THEN 1 ELSE c.count + 1
<1>2. count \in Int
  BY <1>1
<1> HIDE DEF count
<1> DEFINE counted == [c EXCEPT !.count = count]
<1>3. counted \in NodeCandidate /\ counted.own = c.own
  BY <1>2 DEF NodeCandidate
<1>4. Loaded(c) = [counted EXCEPT !.own = c.own + 1]
  BY <1>3 DEF Loaded, count, NodeCandidate
<1> HIDE DEF counted
<1>5. Loaded(c) \in NodeCandidate /\ Loaded(c).own = c.own + 1
  BY <1>1, <1>3, <1>4 DEF NodeCandidate
<1>6. QED
  BY <1>5

\* One pick loads the node it chooses.
LEMMA PickLoads ==
  ASSUME PlannerType, Pick
  PROVE  /\ PlannerType'
         /\ DOMAIN working' = DOMAIN working
         /\ \E best \in Selected(strategy, horizon, working) :
               /\ Picked' = Picked \cup {best}
               /\ working'[best].own = working[best].own + 1
               /\ \A m \in DOMAIN working \ {best} : working'[m] = working[m]
<1>1. PICK n \in Nat : working \in [1 .. n -> NodeCandidate]
  BY DEF PlannerType
<1>2. PICK best \in Selected(strategy, horizon, working) :
        /\ chosen' = Append(chosen, best)
        /\ working' = [working EXCEPT ![best] = Loaded(working[best])]
  BY DEF Pick
<1>3. best \in 1 .. n /\ DOMAIN working = 1 .. n
  BY <1>1 DEF Selected
<1>4. working[best] \in NodeCandidate
  BY <1>1, <1>3
<1>5. Loaded(working[best]) \in NodeCandidate
      /\ Loaded(working[best]).own = working[best].own + 1
  BY <1>4, LoadedType
<1>6. /\ working' \in [1 .. n -> NodeCandidate]
      /\ working'[best].own = working[best].own + 1
      /\ \A m \in DOMAIN working \ {best} : working'[m] = working[m]
  BY <1>1, <1>2, <1>3, <1>5
<1>7. DOMAIN working' = 1 .. n
  BY <1>6
<1>8. chosen \in Seq(1 .. n)
  BY <1>3 DEF PlannerType
<1>9. chosen' \in Seq(1 .. n)
  BY <1>2, <1>3, <1>8
<1>10. Picked' = Picked \cup {best}
  <2>1. /\ Len(chosen) \in Nat
        /\ DOMAIN chosen = 1 .. Len(chosen)
        /\ DOMAIN chosen' = 1 .. (Len(chosen) + 1)
        /\ chosen'[Len(chosen) + 1] = best
        /\ \A j \in 1 .. Len(chosen) : chosen'[j] = chosen[j]
    BY <1>2, <1>3, <1>8
  <2>2. \A k : k \in Picked' <=> k \in Picked \cup {best}
    <3>1. ASSUME NEW k, k \in Picked'
          PROVE  k \in Picked \cup {best}
      <4>1. PICK j \in DOMAIN chosen' : k = chosen'[j]
        BY <3>1 DEF Picked
      <4>2. j \in 1 .. Len(chosen) \/ j = Len(chosen) + 1
        BY <2>1, <4>1
      <4>3. QED
        BY <2>1, <4>1, <4>2 DEF Picked
    <3>2. ASSUME NEW k, k \in Picked
          PROVE  k \in Picked'
      <4>1. PICK j \in DOMAIN chosen : k = chosen[j]
        BY <3>2 DEF Picked
      <4>2. j \in DOMAIN chosen' /\ chosen'[j] = k
        BY <2>1, <4>1
      <4>3. QED
        BY <4>2 DEF Picked
    <3>3. best \in Picked'
      <4>1. Len(chosen) + 1 \in DOMAIN chosen'
        BY <2>1
      <4>2. QED
        BY <2>1, <4>1 DEF Picked
    <3>4. QED
      BY <3>1, <3>2, <3>3
  <2>3. QED
    BY <2>2
<1>11. PlannerType'
  BY <1>6, <1>7, <1>9 DEF PlannerType, Pick
<1>12. QED
  BY <1>3, <1>6, <1>7, <1>10, <1>11

\* At first there are the candidates that were listed, and no choice.
LEMMA PlannerTypeInit == Init => PlannerType
<1> SUFFICES ASSUME Init PROVE PlannerType
  OBVIOUS
<1>1. PICK n \in 0 .. MaxCandidates : working \in [1 .. n -> Profiles]
  BY DEF Init, Lists
<1>2. n \in Nat /\ working \in [1 .. n -> NodeCandidate]
  BY <1>1, PlanningAssumption
<1>3. chosen \in Seq(DOMAIN working) /\ horizon \in Int \cup {None}
  BY PlanningAssumption DEF Init
<1>4. QED
  BY <1>2, <1>3 DEF PlannerType

\* Every step keeps the candidates candidates.
LEMMA PlannerTypeNext == PlannerType /\ [Next]_vars => PlannerType'
<1> SUFFICES ASSUME PlannerType, [Next]_vars PROVE PlannerType'
  OBVIOUS
<1>1. CASE Pick
  BY <1>1, PickLoads
<1>2. CASE Break \/ UNCHANGED vars
  BY <1>2 DEF Break, vars, PlannerType
<1>3. QED
  BY <1>1, <1>2 DEF Next

(***************************************************************************)
(* The ranking is total, whatever was observed of the candidates: however  *)
(* many there are, exactly one is selected, so a reconcile that has a      *)
(* candidate places something, and the same reads place the same           *)
(* (fleet_placement.rs:179-341).                                           *)
(***************************************************************************)
THEOREM RankingSelectsOne == Spec => []OneSelected
<1>1. Init => PlannerType
  BY PlannerTypeInit
<1>2. PlannerType /\ [Next]_vars => PlannerType'
  BY PlannerTypeNext
<1>3. PlannerType => OneSelected
  <2> SUFFICES ASSUME PlannerType, strategy # "Unsupported", working # <<>>
               PROVE  \E k \in DOMAIN working :
                         Selected(strategy, horizon, working) = {k}
    BY DEF OneSelected
  <2>1. PICK n \in Nat : working \in [1 .. n -> NodeCandidate]
    BY DEF PlannerType
  <2>2. n > 0
    <3>1. n = 0 => working = <<>>
      BY <2>1
    <3>2. QED
      BY <2>1, <3>1
  <2>3. PICK k \in 1 .. n : IsLastMax(strategy, horizon, working, k)
    BY <2>1, <2>2, AtLeastOne
  <2>4. \A m \in 1 .. n : IsLastMax(strategy, horizon, working, m) => m = k
    BY <2>1, <2>3, AtMostOne
  <2>5. Selected(strategy, horizon, working) = {k}
    BY <2>1, <2>3, <2>4 DEF Selected
  <2>6. QED
    BY <2>1, <2>5
<1>4. QED
  BY <1>1, <1>2, <1>3, PTL DEF Spec

\* The candidate selected has the fewest of the fleet's own replicas.
LEMMA SelectedHasFewest ==
  ASSUME PlannerType, NEW best \in Selected(strategy, horizon, working),
         NEW m \in DOMAIN working
  PROVE  working[best].own <= working[m].own
<1>1. PICK n \in Nat : working \in [1 .. n -> NodeCandidate]
  BY DEF PlannerType
<1>2. best \in 1 .. n /\ m \in 1 .. n /\ IsLastMax(strategy, horizon, working, best)
  BY <1>1 DEF Selected
<1>3. /\ working[best] \in NodeCandidate /\ working[m] \in NodeCandidate
      /\ working[best].own \in Int /\ working[m].own \in Int
  BY <1>1, <1>2 DEF NodeCandidate
<1>4. CASE m = best
  BY <1>3, <1>4
<1>5. CASE m # best
  <2>1. Cmp(strategy, horizon, working[m], working[best]) # Greater
    BY <1>1, <1>2, <1>5 DEF IsLastMax
  <2>2. ~(working[m].own < working[best].own)
    BY <1>3, <2>1, OwnReplicasFirst
  <2>3. QED
    BY <1>3, <2>2
<1>6. QED
  BY <1>4, <1>5

(***************************************************************************)
(* A batch is spread, for every list of candidates, signals and number of  *)
(* slots: after every pick a chosen node has at most one of the fleet's    *)
(* replicas more than any other candidate (ADR-0018;                       *)
(* fleet_planning.rs:26-47).                                               *)
(***************************************************************************)
THEOREM BatchIsSpread == Spec => []Balanced
<1>1. Init => PlannerType /\ Balanced
  BY PlannerTypeInit DEF Init, Balanced, Picked
<1>2. PlannerType /\ Balanced /\ [Next]_vars => PlannerType' /\ Balanced'
  <2> SUFFICES ASSUME PlannerType, Balanced, [Next]_vars
               PROVE  Balanced'
    BY PlannerTypeNext
  <2>1. CASE Pick
    <3>1. /\ PlannerType'
          /\ DOMAIN working' = DOMAIN working
      BY <2>1, PickLoads
    <3>2. PICK best \in Selected(strategy, horizon, working) :
               /\ Picked' = Picked \cup {best}
               /\ working'[best].own = working[best].own + 1
               /\ \A m \in DOMAIN working \ {best} : working'[m] = working[m]
      BY <2>1, PickLoads
    <3>3. best \in DOMAIN working
      BY DEF Selected
    <3>4. Picked \subseteq DOMAIN working
      BY DEF Picked, PlannerType
    <3>5. \A m \in DOMAIN working :
            /\ working[m].own \in Int
            /\ working[best].own <= working[m].own
            /\ working'[m].own \in {working[m].own, working[m].own + 1}
            /\ m # best => working'[m].own = working[m].own
      BY <3>2, <3>3, SelectedHasFewest DEF PlannerType, NodeCandidate
    <3>6. ASSUME NEW k \in Picked', NEW m \in DOMAIN working'
          PROVE  working'[k].own <= working'[m].own + 1
      <4>1. k \in DOMAIN working /\ m \in DOMAIN working
        BY <3>1, <3>2, <3>3, <3>4
      <4>2. CASE k = best
        BY <3>2, <3>3, <3>5, <4>1, <4>2
      <4>3. CASE k # best
        <5>1. k \in Picked /\ working[k].own <= working[m].own + 1
          BY <3>2, <4>1, <4>3 DEF Balanced
        <5>2. QED
          BY <3>5, <4>1, <4>3, <5>1
      <4>4. QED
        BY <4>2, <4>3
    <3>7. QED
      BY <3>6 DEF Balanced
  <2>2. CASE Break \/ UNCHANGED vars
    BY <2>2 DEF Break, vars, Balanced, Picked
  <2>3. QED
    BY <2>1, <2>2 DEF Next
<1>3. QED
  BY <1>1, <1>2, PTL DEF Spec

(***************************************************************************)
(* No pick depends on a hit rate or an efficiency of no known age, or of   *)
(* an age outside the horizon, in any list (ADR-0008 D2;                   *)
(* fleet_placement.rs:105-130).                                            *)
(***************************************************************************)
THEOREM StaleSignalsSwayNothing == Spec => []StaleChangesNothing
<1>1. Init => PlannerType
  BY PlannerTypeInit
<1>2. PlannerType /\ [Next]_vars => PlannerType'
  BY PlannerTypeNext
<1>3. PlannerType => StaleChangesNothing
  <2> SUFFICES ASSUME PlannerType, horizon # None PROVE StaleChangesNothing
    BY DEF StaleChangesNothing
  <2> DEFINE stale(age) == age = None \/ age < 0 \/ age > horizon
             known == [k \in DOMAIN working |->
                         [working[k] EXCEPT
                            !.hit = IF stale(working[k].hitAge) THEN None ELSE @,
                            !.tpj = IF stale(working[k].tpjAge) THEN None ELSE @]]
  <2>1. PICK n \in Nat : working \in [1 .. n -> NodeCandidate]
    BY DEF PlannerType
  <2>2. ASSUME NEW k \in DOMAIN working
        PROVE  /\ known[k].own = working[k].own
               /\ known[k].warmth = working[k].warmth
               /\ known[k].util = working[k].util
               /\ known[k].count = working[k].count
               /\ FreshHitRate(known[k], horizon) = FreshHitRate(working[k], horizon)
               /\ FreshTokensPerJoule(known[k], horizon)
                    = FreshTokensPerJoule(working[k], horizon)
    <3> DEFINE c == working[k]
               d == known[k]
    <3>1. c \in NodeCandidate
      BY <2>1, <2>2
    <3>2. d = [c EXCEPT !.hit = IF stale(c.hitAge) THEN None ELSE c.hit,
                        !.tpj = IF stale(c.tpjAge) THEN None ELSE c.tpj]
      BY <2>2, <3>1
    <3>3. /\ d.own = c.own /\ d.warmth = c.warmth /\ d.util = c.util
          /\ d.count = c.count /\ d.hitAge = c.hitAge /\ d.tpjAge = c.tpjAge
          /\ d.hit = IF stale(c.hitAge) THEN None ELSE c.hit
          /\ d.tpj = IF stale(c.tpjAge) THEN None ELSE c.tpj
      BY <3>1, <3>2 DEF NodeCandidate
    <3>4. /\ stale(c.hitAge) => ~WithinHorizon(c.hitAge, horizon)
          /\ stale(c.tpjAge) => ~WithinHorizon(c.tpjAge, horizon)
      BY <3>1 DEF NodeCandidate, WithinHorizon, PlannerType
    <3> HIDE DEF c, d, stale
    <3>5. QED
      BY <3>3, <3>4 DEF FreshHitRate, FreshTokensPerJoule, c, d
  <2>4. DOMAIN known = DOMAIN working
    OBVIOUS
  <2> HIDE DEF known
  <2>3. \A j, k \in DOMAIN working :
          Cmp(strategy, horizon, known[j], known[k])
            = Cmp(strategy, horizon, working[j], working[k])
    BY <2>2 DEF Cmp, CmpEfficiencyAware, CmpWarmthFirst
  <2>5. \A k : IsLastMax(strategy, horizon, known, k)
                 <=> IsLastMax(strategy, horizon, working, k)
    BY <2>3, <2>4 DEF IsLastMax
  <2>6. Selected(strategy, horizon, known) = Selected(strategy, horizon, working)
    BY <2>4, <2>5 DEF Selected
  <2>7. QED
    BY <2>6 DEF StaleChangesNothing, known
<1>4. QED
  BY <1>1, <1>2, <1>3, PTL DEF Spec

-----------------------------------------------------------------------------
(***************************************************************************)
(* The ranking and the tiers the ADRs tell.                                *)
(***************************************************************************)
\* The first tiers only.
Prefix(cs, i) == [l \in 1 .. i |-> cs[l]]

\* A further tier decides where the earlier ones tie.
LEMMA LexStep ==
  ASSUME NEW n \in Nat, NEW cs \in [1 .. n -> Int], NEW i \in 0 .. n - 1
  PROVE  Lexicographic(Prefix(cs, i + 1))
           = IF Lexicographic(Prefix(cs, i)) = 0 THEN cs[i + 1]
             ELSE Lexicographic(Prefix(cs, i))
<1> DEFINE p == Prefix(cs, i)
           q == Prefix(cs, i + 1)
<1>1. /\ i \in Nat /\ i + 1 \in Nat
      /\ 1 .. i \subseteq 1 .. (i + 1) /\ 1 .. (i + 1) \subseteq 1 .. n
      /\ i + 1 \in 1 .. (i + 1)
      /\ \A l \in 1 .. (i + 1) : l < i + 1 => l \in 1 .. i
  OBVIOUS
<1>2. /\ p \in [1 .. i -> Int] /\ q \in [1 .. (i + 1) -> Int]
      /\ \A l \in 1 .. i : p[l] = cs[l] /\ q[l] = cs[l]
      /\ q[i + 1] = cs[i + 1]
  BY <1>1 DEF Prefix
<1> HIDE DEF p, q
<1>3. CASE \A l \in 1 .. i : p[l] = 0
  <2>1. Lexicographic(p) = 0
    BY <1>1, <1>2, <1>3, FirstDecides
  <2>2. \A l \in 1 .. (i + 1) : l < i + 1 => q[l] = 0
    BY <1>1, <1>2, <1>3
  <2>3. CASE q[i + 1] = 0
    <3>1. \A l \in 1 .. (i + 1) : q[l] = 0
      BY <1>1, <2>2, <2>3
    <3>2. Lexicographic(q) = 0
      BY <1>1, <1>2, <3>1, FirstDecides
    <3>3. QED
      BY <1>2, <2>1, <2>3, <3>2 DEF p, q
  <2>4. CASE q[i + 1] # 0
    <3>1. Lexicographic(q) = q[i + 1]
      BY <1>1, <1>2, <2>2, <2>4, DecidedBy
    <3>2. QED
      BY <1>2, <2>1, <3>1 DEF p, q
  <2>5. QED
    BY <2>3, <2>4
<1>4. CASE ~\A l \in 1 .. i : p[l] = 0
  <2>1. PICK k \in 1 .. i : /\ p[k] # 0
                            /\ \A l \in 1 .. i : l < k => p[l] = 0
                            /\ Lexicographic(p) = p[k]
    BY <1>1, <1>2, <1>4, FirstDecides
  <2>2. /\ k \in 1 .. (i + 1) /\ q[k] = p[k]
        /\ \A l \in 1 .. (i + 1) : l < k => l \in 1 .. i
    BY <1>1, <1>2
  <2>3. \A l \in 1 .. (i + 1) : l < k => q[l] = 0
    BY <1>2, <2>1, <2>2
  <2>4. Lexicographic(q) = q[k]
    BY <1>1, <1>2, <2>1, <2>2, <2>3, DecidedBy
  <2>5. QED
    BY <2>1, <2>2, <2>4 DEF p, q
<1>5. QED
  BY <1>3, <1>4

\* How the first i tiers compare two candidates.
First(str, h, i, a, b) == Lexicographic(Prefix(Tiers(str, h, a, b), i))

\* The first tiers, too, compare as a total preorder does.
LEMMA FirstIsPreorder ==
  ASSUME NEW str, NEW h, NEW a \in NodeCandidate, NEW b \in NodeCandidate,
         NEW c \in NodeCandidate, NEW i \in 0 .. TierCount(str)
  PROVE  /\ First(str, h, i, a, b) \in Int
         /\ First(str, h, i, b, a) = 0 - First(str, h, i, a, b)
         /\ Chained(First(str, h, i, a, b), First(str, h, i, b, c),
                    First(str, h, i, a, c))
<1> DEFINE n == TierCount(str)
           ab == Prefix(Tiers(str, h, a, b), i)
           ba == Prefix(Tiers(str, h, b, a), i)
           bc == Prefix(Tiers(str, h, b, c), i)
           ac == Prefix(Tiers(str, h, a, c), i)
<1>1. n \in Nat
  BY DEF TierCount
<1>2. i \in Nat /\ 1 .. i \subseteq 1 .. n
  BY <1>1
<1>3. /\ ab \in [1 .. i -> Int] /\ ba \in [1 .. i -> Int]
      /\ bc \in [1 .. i -> Int] /\ ac \in [1 .. i -> Int]
  <2>1. \A cs \in [1 .. n -> Int] : Prefix(cs, i) \in [1 .. i -> Int]
    BY <1>2 DEF Prefix
  <2>2. /\ Tiers(str, h, a, b) \in [1 .. n -> Int]
        /\ Tiers(str, h, b, a) \in [1 .. n -> Int]
        /\ Tiers(str, h, b, c) \in [1 .. n -> Int]
        /\ Tiers(str, h, a, c) \in [1 .. n -> Int]
    BY CmpIsLexicographic
  <2>3. QED
    BY <2>1, <2>2
<1>4. \A k \in 1 .. i : ba[k] = 0 - ab[k] /\ Chained(ab[k], bc[k], ac[k])
  BY <1>2, TiersChain DEF Prefix
<1> HIDE DEF ab, ba, bc, ac
<1>5. Lexicographic(ab) \in Int
  BY <1>2, <1>3, LexType
<1>6. Lexicographic(ba) = 0 - Lexicographic(ab)
  BY <1>2, <1>3, <1>4, LexOpposite
<1>7. Chained(Lexicographic(ab), Lexicographic(bc), Lexicographic(ac))
  BY <1>2, <1>3, <1>4, LexChained
<1>8. QED
  BY <1>5, <1>6, <1>7 DEF First, ab, ba, bc, ac

\* The candidates to which the first i tiers prefer no other.
Lead(str, h, cands, i) ==
    {k \in DOMAIN cands :
        \A m \in DOMAIN cands : First(str, h, i, cands[m], cands[k]) <= 0}

\* Before the first tier everybody leads.
LEMMA AllLead ==
  ASSUME NEW str, NEW h, NEW cands
  PROVE  Lead(str, h, cands, 0) = DOMAIN cands
<1>1. ASSUME NEW a, NEW b
      PROVE  First(str, h, 0, a, b) = 0
  <2> DEFINE p == Prefix(Tiers(str, h, a, b), 0)
  <2>1. p \in [1 .. 0 -> Int] /\ 0 \in Nat /\ 1 .. 0 = {}
    BY DEF Prefix
  <2> HIDE DEF p
  <2>2. Lexicographic(p) = 0
    BY <2>1, FirstDecides
  <2>3. QED
    BY <2>2 DEF First, p
<1>2. QED
  BY <1>1 DEF Lead

\* A further tier keeps of those who lead the ones it prefers no other to.
LEMMA TierNarrows ==
  ASSUME NEW str, NEW h, NEW n \in Nat, NEW cands \in [1 .. n -> NodeCandidate],
         NEW i \in 0 .. TierCount(str) - 1
  PROVE  Lead(str, h, cands, i + 1)
           = {k \in Lead(str, h, cands, i) : \A m \in Lead(str, h, cands, i) :
                 Tiers(str, h, cands[m], cands[k])[i + 1] <= 0}
<1> DEFINE F(m, k) == First(str, h, i, cands[m], cands[k])
           G(m, k) == First(str, h, i + 1, cands[m], cands[k])
           T(m, k) == Tiers(str, h, cands[m], cands[k])[i + 1]
           lead == {k \in 1 .. n : \A m \in 1 .. n : F(m, k) <= 0}
           next == {k \in 1 .. n : \A m \in 1 .. n : G(m, k) <= 0}
<1>1. /\ TierCount(str) \in Nat
      /\ i \in 0 .. TierCount(str) /\ i + 1 \in 1 .. TierCount(str)
  BY DEF TierCount
<1>2. \A j, k, m \in 1 .. n : /\ F(j, k) \in Int
                              /\ F(k, j) = 0 - F(j, k)
                              /\ Chained(F(j, k), F(k, m), F(j, m))
  BY <1>1, FirstIsPreorder
<1>3. \A m, k \in 1 .. n : G(m, k) = IF F(m, k) = 0 THEN T(m, k) ELSE F(m, k)
  <2>1. \A m, k \in 1 .. n :
          Tiers(str, h, cands[m], cands[k]) \in [1 .. TierCount(str) -> Int]
    BY CmpIsLexicographic
  <2>2. QED
    BY <1>1, <2>1, LexStep DEF First
<1>4. Lead(str, h, cands, i) = lead /\ Lead(str, h, cands, i + 1) = next
  BY DEF Lead
<1> HIDE DEF F, G, T
<1>5. ASSUME NEW k \in next
      PROVE  k \in lead /\ \A m \in lead : T(m, k) <= 0
  <2>1. k \in 1 .. n /\ \A m \in 1 .. n : G(m, k) <= 0
    OBVIOUS
  <2>2. \A m \in 1 .. n : F(m, k) <= 0
    <3>1. ASSUME NEW m \in 1 .. n
          PROVE  F(m, k) <= 0
      <4>1. F(m, k) \in Int /\ G(m, k) <= 0
        BY <1>2, <2>1
      <4>2. G(m, k) = IF F(m, k) = 0 THEN T(m, k) ELSE F(m, k)
        BY <1>3, <2>1
      <4>3. QED
        BY <4>1, <4>2
    <3>2. QED
      BY <3>1
  <2>3. ASSUME NEW m \in lead
        PROVE  T(m, k) <= 0
    <3>1. m \in 1 .. n /\ F(k, m) <= 0 /\ F(m, k) <= 0
      BY <2>1, <2>2
    <3>2. F(m, k) = 0
      <4>1. F(m, k) \in Int /\ F(k, m) = 0 - F(m, k)
        BY <1>2, <2>1, <3>1
      <4>2. QED
        BY <3>1, <4>1
    <3>3. QED
      BY <1>3, <2>1, <3>1, <3>2
  <2>4. QED
    BY <2>1, <2>2, <2>3
<1>6. ASSUME NEW k \in lead, \A m \in lead : T(m, k) <= 0
      PROVE  k \in next
  <2>1. k \in 1 .. n /\ \A m \in 1 .. n : F(m, k) <= 0
    OBVIOUS
  <2>2. ASSUME NEW m \in 1 .. n
        PROVE  G(m, k) <= 0
    <3>1. CASE F(m, k) = 0
      <4>1. F(k, m) <= 0
        BY <1>2, <2>1, <3>1
      <4>2. \A j \in 1 .. n : F(j, m) <= 0
        BY <1>2, <2>1, <4>1 DEF Chained
      <4>3. m \in lead
        BY <4>2
      <4>4. QED
        BY <1>3, <1>6, <2>1, <3>1, <4>3
    <3>2. CASE F(m, k) # 0
      BY <1>3, <2>1, <3>2
    <3>3. QED
      BY <3>1, <3>2
  <2>3. QED
    BY <2>1, <2>2
<1>7. next = {k \in lead : \A m \in lead : T(m, k) <= 0}
  BY <1>5, <1>6
<1>8. QED
  BY <1>4, <1>7 DEF T

\* The highest rated are those to whom no higher signal is preferred.
LEMMA HighestPreferred ==
  ASSUME NEW all, NEW S \in SUBSET all, NEW f \in [all -> Int \cup {None}]
  PROVE  \A k : /\ k \in Highest(S, f) <=>
                     k \in S /\ \A m \in S : CmpHigher(f[m], f[k]) <= 0
                /\ k \in Lowest(S, f) <=>
                     k \in S /\ \A m \in S : CmpLower(f[m], f[k]) <= 0
<1> DEFINE rated == {k \in S : f[k] # None}
<1>1. None \notin Int /\ \A k \in S : f[k] \in Int \/ f[k] = None
  BY PlacementAssumption
<1>2. \A k, m \in S :
        /\ CmpHigher(f[m], f[k]) <= 0 <=>
             \/ f[m] = None
             \/ f[k] # None /\ f[m] # None /\ f[m] <= f[k]
        /\ CmpLower(f[m], f[k]) <= 0 <=>
             \/ f[m] = None
             \/ f[k] # None /\ f[m] # None /\ f[k] <= f[m]
  BY <1>1 DEF CmpHigher, CmpLower, Sign
<1>3. CASE rated = {}
  BY <1>2, <1>3 DEF Highest, Lowest
<1>4. CASE rated # {}
  <2>1. /\ Highest(S, f) = {k \in rated : \A m \in rated : f[m] <= f[k]}
        /\ Lowest(S, f) = {k \in rated : \A m \in rated : f[k] <= f[m]}
    BY <1>4 DEF Highest, Lowest
  <2>2. QED
    BY <1>2, <1>4, <2>1
<1>5. QED
  BY <1>3, <1>4

\* Those who survive every tier of the reference are those who lead.
LEMMA WinnersLead ==
  ASSUME NEW str, NEW h \in Int \cup {None}, NEW n \in Nat,
         NEW cands \in [1 .. n -> NodeCandidate]
  PROVE  Winners(str, h, cands) = Lead(str, h, cands, TierCount(str))
<1> DEFINE all == DOMAIN cands
           fresh(age) == h = None \/ (age # None /\ age \in 0 .. h)
           own == [k \in all |-> cands[k].own]
           warmth == [k \in all |-> WarmthRank(cands[k].warmth)]
           tpj == [k \in all |-> IF fresh(cands[k].tpjAge)
                                 THEN ValidPositive(cands[k].tpj) ELSE None]
           hit == [k \in all |-> IF fresh(cands[k].hitAge)
                                 THEN ValidHitRate(cands[k].hit) ELSE None]
           util == [k \in all |-> ValidPositive(cands[k].util)]
           count == [k \in all |-> cands[k].count]
           Kept(S, i) == {k \in S : \A m \in S : Tiers(str, h, cands[m], cands[k])[i] <= 0}
           L(i) == Lead(str, h, cands, i)
<1>1. Winners(str, h, cands) =
        IF str = "EfficiencyAware"
        THEN Lowest(Lowest(Highest(Highest(Highest(Lowest(all, own), warmth),
                                           tpj), hit), util), count)
        ELSE Lowest(Lowest(Highest(Lowest(all, own), warmth), count), util)
  BY DEF Winners
<1>2. \A k \in all : cands[k] \in NodeCandidate
  OBVIOUS
<1>3. \A k \in all : /\ tpj[k] = FreshTokensPerJoule(cands[k], h)
                     /\ hit[k] = FreshHitRate(cands[k], h)
  <2>1. ASSUME NEW age \in Int \cup {None}
        PROVE  fresh(age) <=> WithinHorizon(age, h)
    BY PlacementAssumption DEF WithinHorizon
  <2>2. \A k \in all : /\ cands[k].tpjAge \in Int \cup {None}
                       /\ cands[k].hitAge \in Int \cup {None}
    BY <1>2 DEF NodeCandidate
  <2> HIDE DEF fresh
  <2>3. QED
    BY <2>1, <2>2 DEF FreshTokensPerJoule, FreshHitRate
<1>4. \A k \in all : /\ own[k] = cands[k].own
                     /\ warmth[k] = WarmthRank(cands[k].warmth)
                     /\ util[k] = ValidPositive(cands[k].util)
                     /\ count[k] = cands[k].count
  OBVIOUS
<1>5. /\ own \in [all -> Int \cup {None}] /\ warmth \in [all -> Int \cup {None}]
      /\ util \in [all -> Int \cup {None}] /\ count \in [all -> Int \cup {None}]
      /\ own \in [all -> Int] /\ warmth \in [all -> Int]
  BY <1>2, SignalsType
<1>6. tpj \in [all -> Int \cup {None}] /\ hit \in [all -> Int \cup {None}]
  <2>1. \A k \in all : tpj[k] \in Int \cup {None} /\ hit[k] \in Int \cup {None}
    BY <1>2, <1>3, SignalsType
  <2>2. QED
    BY <2>1
<1> HIDE DEF own, warmth, tpj, hit, util, count
\* Each tier compares what the reference rates.
<1>7. \A m, k \in all :
        /\ CmpLower(own[m], own[k]) = Sign(cands[k].own - cands[m].own)
        /\ CmpHigher(warmth[m], warmth[k])
             = Sign(WarmthRank(cands[m].warmth) - WarmthRank(cands[k].warmth))
        /\ CmpHigher(tpj[m], tpj[k])
             = CmpHigher(FreshTokensPerJoule(cands[m], h), FreshTokensPerJoule(cands[k], h))
        /\ CmpHigher(hit[m], hit[k])
             = CmpHigher(FreshHitRate(cands[m], h), FreshHitRate(cands[k], h))
        /\ CmpLower(util[m], util[k])
             = CmpLower(ValidPositive(cands[m].util), ValidPositive(cands[k].util))
        /\ CmpLower(count[m], count[k]) = CmpLower(cands[m].count, cands[k].count)
  <2>1. \A x, y \in Int : CmpLower(x, y) = Sign(y - x) /\ CmpHigher(x, y) = Sign(x - y)
    BY PlacementAssumption DEF CmpLower, CmpHigher
  <2>2. \A k \in all : own[k] \in Int /\ warmth[k] \in Int
    BY <1>5
  <2>3. ASSUME NEW m \in all, NEW k \in all
        PROVE  /\ CmpLower(own[m], own[k]) = Sign(own[k] - own[m])
               /\ CmpHigher(warmth[m], warmth[k]) = Sign(warmth[m] - warmth[k])
    BY <2>1, <2>2
  <2>4. QED
    BY <1>3, <1>4, <2>3
\* What a tier keeps.
<1>h. ASSUME NEW f \in [all -> Int \cup {None}], NEW i,
             \A m, k \in all : Tiers(str, h, cands[m], cands[k])[i] = CmpHigher(f[m], f[k])
      PROVE  \A S \in SUBSET all : Kept(S, i) = Highest(S, f)
  <2> TAKE S \in SUBSET all
  <2> HIDE DEF all
  <2>1. \A k : k \in Highest(S, f) <=>
                 k \in S /\ \A m \in S : CmpHigher(f[m], f[k]) <= 0
    BY HighestPreferred
  <2>2. \A k, m \in S :
          Tiers(str, h, cands[m], cands[k])[i] = CmpHigher(f[m], f[k])
    BY <1>h
  <2>3. QED
    BY <2>1, <2>2
<1>l. ASSUME NEW f \in [all -> Int \cup {None}], NEW i,
             \A m, k \in all : Tiers(str, h, cands[m], cands[k])[i] = CmpLower(f[m], f[k])
      PROVE  \A S \in SUBSET all : Kept(S, i) = Lowest(S, f)
  <2> TAKE S \in SUBSET all
  <2> HIDE DEF all
  <2>1. \A k : k \in Lowest(S, f) <=>
                 k \in S /\ \A m \in S : CmpLower(f[m], f[k]) <= 0
    BY HighestPreferred
  <2>2. \A k, m \in S :
          Tiers(str, h, cands[m], cands[k])[i] = CmpLower(f[m], f[k])
    BY <1>l
  <2>3. QED
    BY <2>1, <2>2
<1>8. L(0) = all
  BY AllLead
<1>9. \A i \in 0 .. TierCount(str) - 1 : L(i + 1) = Kept(L(i), i + 1)
  BY TierNarrows
<1>10. \A i : L(i) \subseteq all
  BY DEF Lead
<1> HIDE DEF L
<1>11. L(1) = Lowest(all, own) /\ L(2) = Highest(L(1), warmth)
  <2>1. /\ \A S \in SUBSET all : Kept(S, 1) = Lowest(S, own)
        /\ \A S \in SUBSET all : Kept(S, 2) = Highest(S, warmth)
    <3>1. \A m, k \in all :
            /\ Tiers(str, h, cands[m], cands[k])[1] = CmpLower(own[m], own[k])
            /\ Tiers(str, h, cands[m], cands[k])[2] = CmpHigher(warmth[m], warmth[k])
      BY <1>7 DEF Tiers
    <3> HIDE DEF Kept, all
    <3>2. QED
      BY <1>5, <1>h, <1>l, <3>1
  <2>2. L(0 + 1) = Kept(L(0), 0 + 1) /\ L(1 + 1) = Kept(L(1), 1 + 1)
    BY <1>9 DEF TierCount
  <2> HIDE DEF Kept, all
  <2>3. L(1) = Kept(all, 1) /\ L(2) = Kept(L(1), 2)
    BY <1>8, <2>2
  <2>4. QED
    BY <1>10, <2>1, <2>3
<1>12. CASE str = "EfficiencyAware"
  <2>1. \A S \in SUBSET all : /\ Kept(S, 3) = Highest(S, tpj)
                              /\ Kept(S, 4) = Highest(S, hit)
                              /\ Kept(S, 5) = Lowest(S, util)
                              /\ Kept(S, 6) = Lowest(S, count)
    <3>1. \A m, k \in all :
            /\ Tiers(str, h, cands[m], cands[k])[3] = CmpHigher(tpj[m], tpj[k])
            /\ Tiers(str, h, cands[m], cands[k])[4] = CmpHigher(hit[m], hit[k])
            /\ Tiers(str, h, cands[m], cands[k])[5] = CmpLower(util[m], util[k])
            /\ Tiers(str, h, cands[m], cands[k])[6] = CmpLower(count[m], count[k])
      BY <1>7, <1>12 DEF Tiers
    <3> HIDE DEF Kept, all
    <3>2. QED
      BY <1>5, <1>6, <1>h, <1>l, <3>1
  <2>2. /\ L(2 + 1) = Kept(L(2), 2 + 1) /\ L(3 + 1) = Kept(L(3), 3 + 1)
        /\ L(4 + 1) = Kept(L(4), 4 + 1) /\ L(5 + 1) = Kept(L(5), 5 + 1)
        /\ TierCount(str) = 6
    BY <1>9, <1>12 DEF TierCount
  <2> HIDE DEF Kept, all
  <2>3. /\ L(3) = Kept(L(2), 3) /\ L(4) = Kept(L(3), 4)
        /\ L(5) = Kept(L(4), 5) /\ L(6) = Kept(L(5), 6)
    BY <2>2
  <2>4. L(6) = Lowest(Lowest(Highest(Highest(L(2), tpj), hit), util), count)
    BY <1>10, <2>1, <2>3
  <2>5. QED
    BY <1>1, <1>11, <1>12, <2>2, <2>4 DEF L
<1>13. CASE str # "EfficiencyAware"
  <2>1. \A S \in SUBSET all : /\ Kept(S, 3) = Lowest(S, count)
                              /\ Kept(S, 4) = Lowest(S, util)
    <3>1. \A m, k \in all :
            /\ Tiers(str, h, cands[m], cands[k])[3] = CmpLower(count[m], count[k])
            /\ Tiers(str, h, cands[m], cands[k])[4] = CmpLower(util[m], util[k])
      BY <1>7, <1>13 DEF Tiers
    <3> HIDE DEF Kept, all
    <3>2. QED
      BY <1>5, <1>h, <1>l, <3>1
  <2>2. /\ L(2 + 1) = Kept(L(2), 2 + 1) /\ L(3 + 1) = Kept(L(3), 3 + 1)
        /\ TierCount(str) = 4
    BY <1>9, <1>13 DEF TierCount
  <2> HIDE DEF Kept, all
  <2>3. L(3) = Kept(L(2), 3) /\ L(4) = Kept(L(3), 4)
    BY <2>2
  <2>4. L(4) = Lowest(Lowest(L(2), count), util)
    BY <1>10, <2>1, <2>3
  <2>5. QED
    BY <1>1, <1>11, <1>13, <2>2, <2>4 DEF L
<1>14. QED
  BY <1>12, <1>13

\* Those who lead by all tiers are those to whom no candidate is preferred.
LEMMA LeadIsBest ==
  ASSUME NEW str, NEW h, NEW n \in Nat, NEW cands \in [1 .. n -> NodeCandidate]
  PROVE  Lead(str, h, cands, TierCount(str))
           = {k \in 1 .. n : \A m \in 1 .. n : Cmp(str, h, cands[m], cands[k]) <= 0}
<1>1. ASSUME NEW m \in 1 .. n, NEW k \in 1 .. n
      PROVE  First(str, h, TierCount(str), cands[m], cands[k])
               = Cmp(str, h, cands[m], cands[k])
  <2> DEFINE t == Tiers(str, h, cands[m], cands[k])
  <2>1. /\ t \in [1 .. TierCount(str) -> Int]
        /\ Cmp(str, h, cands[m], cands[k]) = Lexicographic(t)
    BY CmpIsLexicographic
  <2> HIDE DEF t
  <2>2. Prefix(t, TierCount(str)) = t
    BY <2>1 DEF Prefix
  <2>3. QED
    BY <2>1, <2>2 DEF First, t
<1>2. QED
  BY <1>1 DEF Lead

(***************************************************************************)
(* Each pick is the one the ADRs tell, for every list of candidates and    *)
(* every signal: the comparator, applied to two candidates at a time, and  *)
(* the last maximum max_by returns, leave the last of the candidates that  *)
(* survive tier after tier (fleet_placement.rs:184-319; ADR-0007, ADR-0008 *)
(* D4, ADR-0018).                                                          *)
(***************************************************************************)
THEOREM PicksTheWinner == Spec => PickIsTierWinner
<1> DEFINE Right == left' = left - 1 /\ chosen' # chosen =>
                      LET best == chosen'[Len(chosen')]
                          top  == Winners(strategy, horizon, working)
                      IN  best \in top /\ \A k \in top : k <= best
<1>1. ASSUME PlannerType, Pick PROVE Right
  <2>1. PICK n \in Nat : working \in [1 .. n -> NodeCandidate]
    BY <1>1 DEF PlannerType
  <2>2. PICK best \in Selected(strategy, horizon, working) : chosen' = Append(chosen, best)
    BY <1>1 DEF Pick
  <2>3. chosen'[Len(chosen')] = best
    BY <1>1, <2>2 DEF PlannerType
  <2> DEFINE C(m, k) == Cmp(strategy, horizon, working[m], working[k])
             top == Winners(strategy, horizon, working)
  <2>4. top = {k \in 1 .. n : \A m \in 1 .. n : C(m, k) <= 0}
    <3>1. horizon \in Int \cup {None}
      BY <1>1 DEF PlannerType
    <3>2. QED
      BY <2>1, <3>1, WinnersLead, LeadIsBest
  <2>5. \A m, k \in 1 .. n : C(m, k) \in {-1, 0, 1} /\ C(k, m) = 0 - C(m, k)
    BY <2>1, RankingIsPreorder, ThreeOutcomes
  <2>6. /\ best \in 1 .. n
        /\ \A m \in 1 .. n : /\ m < best => C(m, best) # 1
                             /\ m > best => C(m, best) = -1
    BY <2>1 DEF Selected, IsLastMax
  <2> HIDE DEF C, top
  <2>7. ASSUME NEW m \in 1 .. n PROVE C(m, best) <= 0
    <3>1. m \in Int /\ best \in Int /\ (m < best \/ m > best \/ m = best)
      BY <2>6
    <3>2. C(m, best) \in {-1, 0, 1} /\ C(best, m) = 0 - C(m, best)
      BY <2>5, <2>6
    <3>3. QED
      BY <2>6, <3>1, <3>2
  <2>8. ASSUME NEW k \in top PROVE k <= best
    <3>1. k \in 1 .. n /\ C(best, k) <= 0 /\ C(k, best) = 0 - C(best, k)
      BY <2>4, <2>5, <2>6
    <3>2. C(best, k) \in Int /\ C(k, best) # -1
      BY <2>5, <2>6, <3>1
    <3>3. QED
      BY <2>6, <3>1, <3>2
  <2>9. QED
    BY <2>3, <2>4, <2>6, <2>7, <2>8 DEF top
<1>2. PlannerType /\ [Next]_vars => [Right]_vars
  <2>1. Break => chosen' = chosen
    BY DEF Break
  <2>2. QED
    BY <1>1, <2>1 DEF Next
<1>3. QED
  BY <1>2, PlannerTypeInit, PlannerTypeNext, PTL DEF Spec, PickIsTierWinner
=============================================================================
