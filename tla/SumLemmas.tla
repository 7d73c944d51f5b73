------------------------------ MODULE SumLemmas ------------------------------
(***************************************************************************)
(* Facts about SumFunction(f), the sum of a function over a finite domain  *)
(* as the community modules define it.  Induction takes a set where its    *)
(* usual statement takes a predicate.                                      *)
(***************************************************************************)
EXTENDS Integers, FiniteSets, Functions, FiniteSetTheorems,
        WellFoundedInduction, TLAPS

\* The element the folds take out of a set first.
Picked(s) == CHOOSE x \in s : TRUE

\* A set of natural numbers that is not empty has a least one.
LEMMA LeastNumber ==
    ASSUME NEW S \in SUBSET Nat, S # {}
    PROVE  \E m \in S : \A k \in S : m <= k
<1>1. PICK m \in S : \A k \in S : ~(<<k, m>> \in OpToRel(<, Nat))
  <2>1. IsWellFoundedOn(OpToRel(<, Nat), Nat)
    BY NatLessThanWellFounded
  <2> QED
    BY <2>1, WFMin
<1>2. ASSUME NEW k \in S PROVE m <= k
  <2>1. k \in Nat /\ m \in Nat
    OBVIOUS
  <2>2. ~(k < m)
    BY <1>1, <2>1 DEF OpToRel
  <2> QED
    BY <2>1, <2>2
<1> QED
  BY <1>2

\* The least number that is not in a set follows from none before it.
LEMMA InductionOverNat ==
    ASSUME NEW P, 0 \in P, \A n \in Nat : n \in P => n + 1 \in P
    PROVE  Nat \subseteq P
<1> SUFFICES ASSUME ~(Nat \subseteq P) PROVE FALSE
  OBVIOUS
<1> DEFINE Missing == Nat \ P
<1>1. PICK n \in Missing : \A m \in Missing : n <= m
  BY LeastNumber
<1>2. n \in Nat /\ n # 0 /\ n - 1 \in Nat /\ ~(n <= n - 1) /\ n = (n - 1) + 1
  OBVIOUS
<1>3. n - 1 \in P
  BY <1>1, <1>2
<1> QED
  BY <1>2, <1>3

\* What holds of the empty set, and of a set when it holds without the
\* element picked first, holds of every subset of a finite set.
LEMMA InductionOverPicks ==
    ASSUME NEW D, IsFiniteSet(D), NEW P, {} \in P,
           \A s \in SUBSET D : s # {} /\ s \ {Picked(s)} \in P => s \in P
    PROVE  SUBSET D \subseteq P
<1> DEFINE Good == {n \in Nat : \A s \in SUBSET D : Cardinality(s) = n => s \in P}
<1>1. 0 \in Good
  BY FS_Subset, FS_EmptySet
<1>2. ASSUME NEW n \in Nat, n \in Good PROVE n + 1 \in Good
  <2> SUFFICES ASSUME NEW s \in SUBSET D, Cardinality(s) = n + 1 PROVE s \in P
    OBVIOUS
  <2>1. IsFiniteSet(s) /\ s # {}
    BY FS_Subset, FS_EmptySet
  <2>2. Picked(s) \in s
    BY <2>1 DEF Picked
  <2>3. Cardinality(s \ {Picked(s)}) = n
    <3>1. Cardinality(s \ {Picked(s)}) = Cardinality(s) - 1
      BY <2>1, <2>2, FS_RemoveElement
    <3> QED
      BY <3>1
  <2>4. s \ {Picked(s)} \in P
    BY <1>2, <2>3
  <2> QED
    BY <2>1, <2>4
<1>3. Nat \subseteq Good
  <2> HIDE DEF Good
  <2> QED
    BY <1>1, <1>2, InductionOverNat
<1>4. \A s \in SUBSET D : Cardinality(s) \in Nat
  BY FS_Subset, FS_CardinalityType
<1> QED
  BY <1>3, <1>4

\* What a fold adds up, subset by subset.
SumsOver(S, f, g) ==
    [s \in S |-> IF s = {} THEN 0 ELSE f[Picked(s)] + g[s \ {Picked(s)}]]

\* The recursion behind a sum has a solution over the subsets of a finite set.
LEMMA SumRecursion ==
    ASSUME NEW D, IsFiniteSet(D), NEW f
    PROVE  \E g : g = SumsOver(SUBSET D, f, g)
<1> DEFINE UpTo(n) == {s \in SUBSET D : Cardinality(s) <= n}
           Good == {n \in Nat : \E g : g = SumsOver(UpTo(n), f, g)}
<1>1. ASSUME NEW s \in SUBSET D
      PROVE  /\ Cardinality(s) \in Nat
             /\ Cardinality(s) = 0 <=> s = {}
             /\ s # {} => /\ s \ {Picked(s)} \in SUBSET D
                          /\ Cardinality(s \ {Picked(s)}) = Cardinality(s) - 1
  <2>1. IsFiniteSet(s) /\ Cardinality(s) \in Nat
    BY FS_Subset, FS_CardinalityType
  <2>2. Cardinality(s) = 0 <=> s = {}
    BY <2>1, FS_EmptySet
  <2>3. s # {} => Picked(s) \in s
    BY DEF Picked
  <2> QED
    BY <2>1, <2>2, <2>3, FS_RemoveElement
<1>2. 0 \in Good
  <2> DEFINE g == [s \in UpTo(0) |-> 0]
  <2>1. ASSUME NEW s \in UpTo(0) PROVE s = {}
    <3>1. s \in SUBSET D /\ Cardinality(s) <= 0
      OBVIOUS
    <3>2. Cardinality(s) \in Nat
      BY <1>1, <3>1
    <3>3. Cardinality(s) = 0
      BY <3>1, <3>2
    <3> QED
      BY <1>1, <3>1, <3>3
  <2>2. g = SumsOver(UpTo(0), f, g)
    BY <2>1 DEF SumsOver
  <2>3. \E k : k = SumsOver(UpTo(0), f, k)
    <3> HIDE DEF g, UpTo
    <3> QED
      BY <2>2
  <2> QED
    BY <2>3
<1>3. ASSUME NEW n \in Nat, n \in Good PROVE n + 1 \in Good
  <2>1. PICK g : g = SumsOver(UpTo(n), f, g)
    BY <1>3
  <2> DEFINE h == SumsOver(UpTo(n + 1), f, g)
  <2>2. UpTo(n) \subseteq UpTo(n + 1)
    <3> SUFFICES ASSUME NEW s \in SUBSET D, Cardinality(s) <= n
                 PROVE  Cardinality(s) <= n + 1
      OBVIOUS
    <3>1. Cardinality(s) \in Nat
      BY <1>1
    <3> QED
      BY <3>1
  <2>3. \A s \in UpTo(n + 1) : s # {} => s \ {Picked(s)} \in UpTo(n)
    <3> SUFFICES ASSUME NEW s \in SUBSET D, Cardinality(s) <= n + 1, s # {}
                 PROVE  /\ s \ {Picked(s)} \in SUBSET D
                        /\ Cardinality(s \ {Picked(s)}) <= n
      OBVIOUS
    <3>1. /\ Cardinality(s) \in Nat
          /\ s \ {Picked(s)} \in SUBSET D
          /\ Cardinality(s \ {Picked(s)}) = Cardinality(s) - 1
      BY <1>1
    <3> QED
      BY <3>1
  <2> HIDE DEF UpTo
  <2>4. \A s \in UpTo(n) : h[s] = g[s]
    <3> TAKE s \in UpTo(n)
    <3>1. g[s] = SumsOver(UpTo(n), f, g)[s]
      BY <2>1
    <3> QED
      BY <2>2, <3>1 DEF SumsOver
  <2>5. h = SumsOver(UpTo(n + 1), f, h)
    BY <2>3, <2>4 DEF SumsOver
  <2>6. \E k : k = SumsOver(UpTo(n + 1), f, k)
    <3> HIDE DEF h
    <3> QED
      BY <2>5
  <2> QED
    BY <2>6
<1>4. Nat \subseteq Good
  <2> HIDE DEF Good
  <2> QED
    BY <1>2, <1>3, InductionOverNat
<1>5. Cardinality(D) \in Nat
  BY <1>1
<1>6. \E g : g = SumsOver(UpTo(Cardinality(D)), f, g)
  BY <1>4, <1>5
<1>7. UpTo(Cardinality(D)) = SUBSET D
  BY FS_Subset, FS_CardinalityType
<1> QED
  BY <1>6, <1>7

\* The partial sums of f.
Partial(f) == CHOOSE g : g = SumsOver(SUBSET DOMAIN f, f, g)

LEMMA PartialSums ==
    ASSUME NEW D, IsFiniteSet(D), NEW f \in [D -> Int]
    PROVE  /\ SumFunction(f) = Partial(f)[D]
           /\ Partial(f)[{}] = 0
           /\ \A s \in SUBSET D :
                 s # {} => /\ Picked(s) \in D
                           /\ Partial(f)[s] = f[Picked(s)] + Partial(f)[s \ {Picked(s)}]
<1>1. DOMAIN f = D
  OBVIOUS
<1>2. SumFunction(f) = Partial(f)[D]
  BY <1>1 DEF SumFunction, SumFunctionOnSet, FoldFunctionOnSet, MapThenFoldSet,
              Partial, SumsOver, Picked
<1>3. \E g : g = SumsOver(SUBSET D, f, g)
  BY SumRecursion
<1>4. Partial(f) = SumsOver(SUBSET D, f, Partial(f))
  BY <1>1, <1>3 DEF Partial
<1>5. \A s \in SUBSET D : s # {} => Picked(s) \in D
  BY DEF Picked
<1> HIDE DEF Partial
<1>6. \A s \in SUBSET D : Partial(f)[s] = SumsOver(SUBSET D, f, Partial(f))[s]
  BY <1>4
<1> QED
  BY <1>2, <1>5, <1>6 DEF SumsOver

-----------------------------------------------------------------------------
\* A sum of integers is one, and of natural numbers.
LEMMA SumIsInteger ==
    ASSUME NEW D, IsFiniteSet(D), NEW f \in [D -> Int]
    PROVE  SumFunction(f) \in Int
<1> DEFINE P == {s \in SUBSET D : Partial(f)[s] \in Int}
<1>1. {} \in P
  BY PartialSums
<1>2. \A s \in SUBSET D : s # {} /\ s \ {Picked(s)} \in P => s \in P
  <2> TAKE s \in SUBSET D
  <2> HAVE s # {} /\ s \ {Picked(s)} \in P
  <2>1. Picked(s) \in D
    BY DEF Picked
  <2>2. Partial(f)[s] = f[Picked(s)] + Partial(f)[s \ {Picked(s)}]
    BY PartialSums
  <2> QED
    BY <2>1, <2>2
<1>3. SUBSET D \subseteq P
  <2> HIDE DEF P
  <2> QED
    BY <1>1, <1>2, InductionOverPicks
<1> QED
  BY <1>3, PartialSums

LEMMA SumIsMonotone ==
    ASSUME NEW D, IsFiniteSet(D), NEW f \in [D -> Int], NEW g \in [D -> Int],
           \A d \in D : f[d] <= g[d]
    PROVE  SumFunction(f) <= SumFunction(g)
<1> DEFINE P == {s \in SUBSET D : /\ {Partial(f)[s], Partial(g)[s]} \subseteq Int
                                  /\ Partial(f)[s] <= Partial(g)[s]}
<1>0. \A s \in SUBSET D : s # {} =>
          /\ Picked(s) \in D
          /\ Partial(f)[s] = f[Picked(s)] + Partial(f)[s \ {Picked(s)}]
          /\ Partial(g)[s] = g[Picked(s)] + Partial(g)[s \ {Picked(s)}]
  BY PartialSums
<1>1. {} \in P
  BY PartialSums
<1>2. ASSUME NEW s \in SUBSET D, s # {}, s \ {Picked(s)} \in P PROVE s \in P
  <2> DEFINE p == Picked(s)
             r == s \ {p}
  <2>1. /\ p \in D
        /\ Partial(f)[s] = f[p] + Partial(f)[r]
        /\ Partial(g)[s] = g[p] + Partial(g)[r]
    BY <1>0, <1>2
  <2>2. /\ {Partial(f)[r], Partial(g)[r]} \subseteq Int
        /\ Partial(f)[r] <= Partial(g)[r]
    BY <1>2
  <2> HIDE DEF p, r
  <2>3. {f[p], g[p]} \subseteq Int /\ f[p] <= g[p]
    BY <2>1
  <2> QED
    BY <2>1, <2>2, <2>3
<1>3. SUBSET D \subseteq P
  <2> HIDE DEF P
  <2> QED
    BY <1>1, <1>2, InductionOverPicks
<1> QED
  BY <1>3, PartialSums

\* Where one summand changes the sum changes by as much.
LEMMA SumChangesByOne ==
    ASSUME NEW D, IsFiniteSet(D), NEW f \in [D -> Int], NEW g \in [D -> Int],
           NEW d \in D, \A c \in D \ {d} : g[c] = f[c]
    PROVE  SumFunction(g) = SumFunction(f) + (g[d] - f[d])
<1> DEFINE P == {s \in SUBSET D :
                    /\ {Partial(f)[s], Partial(g)[s]} \subseteq Int
                    /\ Partial(g)[s] = Partial(f)[s]
                                       + (IF d \in s THEN g[d] - f[d] ELSE 0)}
<1>1. {} \in P
  BY PartialSums
<1>2. \A s \in SUBSET D : s # {} /\ s \ {Picked(s)} \in P => s \in P
  <2> TAKE s \in SUBSET D
  <2> HAVE s # {} /\ s \ {Picked(s)} \in P
  <2>1. Picked(s) \in s /\ Picked(s) \in D
    BY DEF Picked
  <2>2. Partial(f)[s] = f[Picked(s)] + Partial(f)[s \ {Picked(s)}]
    BY PartialSums
  <2>3. Partial(g)[s] = g[Picked(s)] + Partial(g)[s \ {Picked(s)}]
    BY PartialSums
  <2>4. CASE Picked(s) = d
    BY <2>1, <2>2, <2>3, <2>4
  <2>5. CASE Picked(s) # d
    BY <2>1, <2>2, <2>3, <2>5
  <2> QED
    BY <2>4, <2>5
<1>3. SUBSET D \subseteq P
  <2> HIDE DEF P
  <2> QED
    BY <1>1, <1>2, InductionOverPicks
<1> QED
  BY <1>3, PartialSums

\* A sum of zeros.
LEMMA SumOfZeros ==
    ASSUME NEW D, IsFiniteSet(D)
    PROVE  SumFunction([d \in D |-> 0]) = 0
<1> DEFINE f == [d \in D |-> 0]
           P == {s \in SUBSET D : Partial(f)[s] = 0}
<1>0. f \in [D -> Int] /\ \A d \in D : f[d] = 0
  OBVIOUS
<1> HIDE DEF f
<1>1. {} \in P
  BY <1>0, PartialSums
<1>2. ASSUME NEW s \in SUBSET D, s # {}, s \ {Picked(s)} \in P PROVE s \in P
  <2>1. Picked(s) \in D /\ Partial(f)[s] = f[Picked(s)] + Partial(f)[s \ {Picked(s)}]
    BY <1>0, <1>2, PartialSums
  <2> QED
    BY <1>0, <1>2, <2>1
<1>3. SUBSET D \subseteq P
  <2> HIDE DEF P
  <2> QED
    BY <1>1, <1>2, InductionOverPicks
<1> QED
  BY <1>0, <1>3, PartialSums DEF f

\* No summand of a sum of natural numbers exceeds it.
LEMMA SumOfNaturals ==
    ASSUME NEW D, IsFiniteSet(D), NEW f \in [D -> Nat]
    PROVE  /\ SumFunction(f) \in Nat
           /\ \A d \in D : f[d] <= SumFunction(f)
<1>1. f \in [D -> Int]
  OBVIOUS
<1> DEFINE zero == [c \in D |-> 0]
<1>2. SumFunction(zero) = 0 /\ zero \in [D -> Int]
  BY SumOfZeros
<1>3. SumFunction(f) \in Nat
  BY <1>1, <1>2, SumIsMonotone, SumIsInteger
<1>4. ASSUME NEW d \in D PROVE f[d] <= SumFunction(f)
  <2> DEFINE g == [zero EXCEPT ![d] = f[d]]
  <2>1. g \in [D -> Int] /\ g[d] = f[d] /\ \A c \in D \ {d} : g[c] = zero[c]
    OBVIOUS
  <2>2. SumFunction(g) = f[d]
    <3> HIDE DEF g
    <3>1. SumFunction(g) = SumFunction(zero) + (g[d] - zero[d])
      BY <1>2, <2>1, SumChangesByOne
    <3> QED
      BY <1>2, <2>1, <3>1
  <2>3. \A c \in D : g[c] <= f[c]
    BY <2>1
  <2> QED
    BY <1>1, <2>1, <2>2, <2>3, SumIsMonotone
<1> QED
  BY <1>3, <1>4
=============================================================================
