----------------------------- MODULE CollectionFacts -----------------------------
(***************************************************************************)
(* Facts about finite sets, sums and sequences that the proofs of several  *)
(* components need.  Those that would be an induction on a set take a      *)
(* smallest set for which they fail.                                       *)
(***************************************************************************)
EXTENDS Integers, Sequences, FiniteSetsExt, FiniteSetTheorems, SequenceTheorems,
        WellFoundedInduction, TLAPS

-----------------------------------------------------------------------------
(* Finite sets                                                             *)

\* A set of subsets of a finite set has a smallest member.
LEMMA SmallestSubset ==
    ASSUME NEW S, IsFiniteSet(S), NEW T, T \subseteq SUBSET S, T # {}
    PROVE  \E u \in T : \A v \in T : ~(v \subseteq u /\ v # u)
<1>1. IsWellFoundedOn(StrictSubsetOrdering(S), SUBSET S)
  BY FS_StrictSubsetOrderingWellFounded, FS_FiniteSubsetsOfFinite
<1>2. \E u \in T : \A v \in T : <<v, u>> \notin StrictSubsetOrdering(S)
  <2> HIDE DEF StrictSubsetOrdering
  <2> QED BY <1>1, WFMin
<1>3. PICK u \in T : \A v \in T : <<v, u>> \notin StrictSubsetOrdering(S)
  BY <1>2
<1>4. ASSUME NEW v \in T, v \subseteq u, v # u PROVE FALSE
  <2>1. <<v, u>> \in (SUBSET S) \X (SUBSET S) OBVIOUS
  <2>2. <<v, u>> \in StrictSubsetOrdering(S)
    BY <2>1, <1>4 DEF StrictSubsetOrdering
  <2> QED BY <2>2, <1>3
<1> QED BY <1>3, <1>4

LEMMA PartOfInterval ==
    ASSUME NEW n \in Nat, NEW S, S \subseteq 1 .. n
    PROVE  IsFiniteSet(S) /\ Cardinality(S) \in Nat
<1>1. IsFiniteSet(1 .. n)
  <2>1. 1 \in Int /\ n \in Int OBVIOUS
  <2> QED BY <2>1, FS_Interval
<1>2. IsFiniteSet(S) BY <1>1, FS_Subset
<1> QED BY <1>2, FS_CardinalityType

\* A finite set that a transitive relation orders totally has a last member.
LEMMA LastMember ==
    ASSUME NEW S, IsFiniteSet(S), S # {}, NEW R,
           \A x, y \in S : x = y \/ <<x, y>> \in R \/ <<y, x>> \in R,
           \A x, y, z \in S : <<x, y>> \in R /\ <<y, z>> \in R => <<x, z>> \in R
    PROVE  \E m \in S : \A n \in S : n = m \/ <<n, m>> \in R
<1> DEFINE Last(u, m) == \A n \in u : n = m \/ <<n, m>> \in R
           T == {u \in SUBSET S : u # {} /\ ~\E m \in u : Last(u, m)}
<1>1. SUFFICES ASSUME T # {} PROVE FALSE
  <2>1. S \in SUBSET S OBVIOUS
  <2> QED BY <2>1
<1>2. PICK u \in T : \A v \in T : ~(v \subseteq u /\ v # u)
  <2>1. T \subseteq SUBSET S OBVIOUS
  <2> HIDE DEF T
  <2> QED BY <1>1, <2>1, SmallestSubset
<1>3. u \in SUBSET S /\ u # {} /\ ~\E m \in u : Last(u, m) OBVIOUS
<1>4. PICK x \in u : TRUE BY <1>3
<1> DEFINE v == u \ {x}
<1>5. v # {} BY <1>3, <1>4
<1>6. \E m \in v : Last(v, m)
  <2>1. v \subseteq u /\ v # u /\ v \in SUBSET S BY <1>3, <1>4
  <2>2. v \notin T
    <3> HIDE DEF T, v
    <3> QED BY <2>1, <1>2
  <2> HIDE DEF v, Last
  <2> QED BY <2>1, <2>2, <1>5
<1>7. PICK m \in v : Last(v, m) BY <1>6
<1>8. m \in S /\ x \in S /\ m \in u BY <1>3, <1>4
<1>9. CASE <<x, m>> \in R
  <2>1. Last(u, m) BY <1>7, <1>9
  <2> QED BY <2>1, <1>3, <1>8
<1>10. CASE <<m, x>> \in R
  <2>1. ASSUME NEW n \in u PROVE n = x \/ <<n, x>> \in R
    <3>1. n = x \/ n = m \/ <<n, m>> \in R BY <1>7
    <3> QED BY <3>1, <1>3, <1>8, <1>10
  <2> QED BY <2>1, <1>3, <1>4
<1> QED BY <1>4, <1>7, <1>8, <1>9, <1>10

LEMMA LargestMember ==
    ASSUME NEW S, IsFiniteSet(S), \A n \in S : n \in Int, S # {}
    PROVE  \E m \in S : \A n \in S : n <= m
<1> DEFINE R == {p \in S \X S : p[1] <= p[2]}
<1>1. ASSUME NEW x \in S, NEW y \in S
      PROVE  x \in Int /\ y \in Int /\ (<<x, y>> \in R <=> x <= y)
  OBVIOUS
<1> HIDE DEF R
<1>2. ASSUME NEW x \in S, NEW y \in S PROVE x = y \/ <<x, y>> \in R \/ <<y, x>> \in R
  <2>1. x \in Int /\ y \in Int /\ (<<x, y>> \in R <=> x <= y) BY <1>1
  <2>2. <<y, x>> \in R <=> y <= x BY <1>1
  <2> QED BY <2>1, <2>2
<1>3. ASSUME NEW x \in S, NEW y \in S, NEW z \in S, <<x, y>> \in R, <<y, z>> \in R
      PROVE  <<x, z>> \in R
  <2>1. x \in Int /\ y \in Int /\ z \in Int /\ x <= y /\ y <= z BY <1>1, <1>3
  <2>2. <<x, z>> \in R <=> x <= z BY <1>1
  <2> QED BY <2>1, <2>2
<1>4. PICK m \in S : \A n \in S : n = m \/ <<n, m>> \in R BY <1>2, <1>3, LastMember
<1>5. ASSUME NEW n \in S PROVE n <= m
  <2>1. n = m \/ <<n, m>> \in R BY <1>4
  <2>2. n \in Int /\ m \in Int /\ (<<n, m>> \in R <=> n <= m) BY <1>1
  <2> QED BY <2>1, <2>2
<1> QED BY <1>5

\* A function with a finite domain takes finitely many values.
LEMMA FiniteImage ==
    ASSUME NEW f, IsFiniteSet(DOMAIN f), f = [x \in DOMAIN f |-> f[x]]
    PROVE  IsFiniteSet({f[x] : x \in DOMAIN f})
<1> DEFINE T == {f[x] : x \in DOMAIN f}
<1>1. f \in [DOMAIN f -> T] /\ \A t \in T : \E x \in DOMAIN f : f[x] = t OBVIOUS
<1>2. f \in Surjection(DOMAIN f, T)
  <2> HIDE DEF T
  <2> QED BY <1>1 DEF Surjection
<1> HIDE DEF T
<1>3. IsFiniteSet(T) BY <1>2, FS_Surjection
<1> QED BY <1>3 DEF T

LEMMA FinitePair == ASSUME NEW a, NEW b PROVE IsFiniteSet({a, b})
<1>1. IsFiniteSet({a}) BY FS_Singleton
<1>2. IsFiniteSet({a} \cup {b}) BY <1>1, FS_AddElement
<1>3. {a} \cup {b} = {a, b} OBVIOUS
<1> QED BY <1>2, <1>3

\* Between finite sets there are finitely many functions.
LEMMA FiniteFunctions ==
    ASSUME NEW S, NEW T, IsFiniteSet(S), IsFiniteSet(T)
    PROVE  IsFiniteSet([S -> T])
<1> DEFINE graph(f) == {<<x, f[x]>> : x \in S}
           G == [f \in [S -> T] |-> graph(f)]
<1>1. IsFiniteSet(SUBSET (S \X T)) BY FS_Product, FS_SUBSET
<1>2. \A f \in [S -> T] : G[f] \in SUBSET (S \X T) OBVIOUS
<1>3. ASSUME NEW f \in [S -> T], NEW g \in [S -> T], G[f] = G[g] PROVE f = g
  <2>1. ASSUME NEW x \in S PROVE f[x] = g[x]
    <3>1. <<x, f[x]>> \in graph(g) BY <1>3
    <3> QED BY <3>1
  <2> QED BY <2>1
<1>4. G \in Injection([S -> T], SUBSET (S \X T))
  <2>1. G \in [[S -> T] -> SUBSET (S \X T)] BY <1>2
  <2> HIDE DEF G
  <2> QED BY <2>1, <1>3 DEF Injection, IsInjective
<1> HIDE DEF G
<1> QED BY <1>1, <1>4, FS_Injection

-----------------------------------------------------------------------------
(* Sums as MapThenSumSet computes them: a choice among the functions that  *)
(* satisfy its recursive equation, of which there is one and only one.     *)

Pick(s) == CHOOSE x \in s : TRUE

\* h[s] is the sum of g over s, for every subset s of Z.
IsSum(h, g, Z) ==
    h = [s \in SUBSET Z |->
            IF s = {} THEN 0 ELSE g[Pick(s)] + h[s \ {Pick(s)}]]

Sum(g, S) == (CHOOSE h : IsSum(h, g, S))[S]

\* Two functions that satisfy the equation agree wherever their summands do.
LEMMA SumUnique ==
    ASSUME NEW g1, NEW g2, NEW h1, NEW h2, NEW Y, NEW Z,
           IsSum(h1, g1, Y), IsSum(h2, g2, Z),
           NEW s, s \subseteq Y, s \subseteq Z, IsFiniteSet(s),
           \A x \in s : g1[x] = g2[x]
    PROVE  h1[s] = h2[s]
<1> DEFINE T == {u \in SUBSET s : h1[u] # h2[u]}
<1>1. SUFFICES ASSUME T # {} PROVE FALSE
  <2>1. s \in SUBSET s OBVIOUS
  <2> QED BY <2>1
<1>2. PICK u \in T : \A v \in T : ~(v \subseteq u /\ v # u)
  <2>1. T \subseteq SUBSET s OBVIOUS
  <2> HIDE DEF T
  <2> QED BY <1>1, <2>1, SmallestSubset
<1>3. u \in SUBSET s /\ u \in SUBSET Y /\ u \in SUBSET Z OBVIOUS
<1>4. CASE u = {}
  <2>1. h1[u] = 0 /\ h2[u] = 0 BY <1>3, <1>4 DEF IsSum
  <2> QED BY <2>1
<1>5. CASE u # {}
  <2> DEFINE x == Pick(u)
             v == u \ {x}
  <2>1. x \in u BY <1>5 DEF Pick
  <2>2. h1[u] = g1[x] + h1[v] /\ h2[u] = g2[x] + h2[v]
    BY <1>3, <1>5 DEF IsSum
  <2>3. g1[x] = g2[x] BY <2>1, <1>3
  <2>4. v \notin T
    <3>1. v \subseteq u /\ v # u BY <2>1
    <3> HIDE DEF T, v
    <3> QED BY <3>1, <1>2
  <2>5. v \in SUBSET s BY <1>3
  <2>6. h1[v] = h2[v]
    <3> HIDE DEF v
    <3> QED BY <2>4, <2>5
  <2> QED BY <2>2, <2>3, <2>6
<1> QED BY <1>4, <1>5

\* There is a function that satisfies the equation.
LEMMA SumExists ==
    ASSUME NEW g, NEW S, IsFiniteSet(S)
    PROVE  \E h : IsSum(h, g, S)
<1> DEFINE T == {X \in SUBSET S : ~\E h : IsSum(h, g, X)}
<1>1. SUFFICES ASSUME T # {} PROVE FALSE
  <2>1. S \in SUBSET S OBVIOUS
  <2> QED BY <2>1
<1>2. PICK X \in T : \A v \in T : ~(v \subseteq X /\ v # X)
  <2>1. T \subseteq SUBSET S OBVIOUS
  <2> HIDE DEF T
  <2> QED BY <1>1, <2>1, SmallestSubset
<1> DEFINE H(Y) == CHOOSE h : IsSum(h, g, Y)
           Less(s) == s \ {Pick(s)}
           f == [s \in SUBSET X |->
                    IF s = {} THEN 0 ELSE g[Pick(s)] + H(Less(s))[Less(s)]]
<1>3. ASSUME NEW Y, Y \subseteq X, Y # X PROVE IsSum(H(Y), g, Y)
  <2>1. Y \notin T
    <3> HIDE DEF T
    <3> QED BY <1>2, <1>3
  <2>2. Y \in SUBSET S BY <1>3
  <2>3. \E h : IsSum(h, g, Y)
    <3> HIDE DEF IsSum, H
    <3> QED BY <2>1, <2>2
  <2> HIDE DEF IsSum
  <2> QED BY <2>3
<1>4. ASSUME NEW s \in SUBSET X, s # {}
      PROVE  f[Less(s)] = H(Less(s))[Less(s)]
  <2> DEFINE Y == Less(s)
  <2>1. Pick(s) \in s BY <1>4 DEF Pick
  <2>2. Y \subseteq X /\ Y # X BY <2>1
  <2> HIDE DEF Y
  <2>3. IsSum(H(Y), g, Y) BY <2>2, <1>3
  <2>4. CASE Y = {}
    <3>1. f[Y] = 0 BY <2>2, <2>4
    <3>2. H(Y)[Y] = 0
      <4> HIDE DEF H
      <4> QED BY <2>3, <2>4 DEF IsSum
    <3> QED BY <3>1, <3>2 DEF Y
  <2>5. CASE Y # {}
    <3> DEFINE W == Less(Y)
    <3>1. Pick(Y) \in Y BY <2>5 DEF Pick
    <3>2. W \subseteq X /\ W # X /\ W \subseteq Y BY <3>1, <2>2
    <3>3. f[Y] = g[Pick(Y)] + H(W)[W] BY <2>2, <2>5
    <3>4. H(Y)[Y] = g[Pick(Y)] + H(Y)[W]
      <4> HIDE DEF H
      <4> QED BY <2>3, <2>5 DEF IsSum
    <3> HIDE DEF W
    <3>5. IsSum(H(W), g, W) BY <3>2, <1>3
    <3>6. IsFiniteSet(W)
      BY <3>2, FS_Subset
    <3>7. H(W)[W] = H(Y)[W]
      <4> HIDE DEF H, IsSum
      <4> QED BY <3>5, <2>3, <3>2, <3>6, SumUnique
    <3> QED BY <3>3, <3>4, <3>7 DEF Y
  <2> QED BY <2>4, <2>5
<1>5. f = [s \in SUBSET X |->
              IF s = {} THEN 0 ELSE g[Pick(s)] + f[s \ {Pick(s)}]]
  <2>1. ASSUME NEW s \in SUBSET X
        PROVE  f[s] = IF s = {} THEN 0 ELSE g[Pick(s)] + f[s \ {Pick(s)}]
    <3>1. CASE s = {} BY <3>1
    <3>2. CASE s # {}
      <4>1. f[s] = g[Pick(s)] + H(Less(s))[Less(s)] BY <3>2
      <4>2. f[Less(s)] = H(Less(s))[Less(s)] BY <3>2, <1>4
      <4> HIDE DEF f, H
      <4> QED BY <4>1, <4>2, <3>2
    <3> QED BY <3>1, <3>2
  <2>2. f = [s \in SUBSET X |-> f[s]] OBVIOUS
  <2> HIDE DEF f
  <2> QED BY <2>1, <2>2
<1>6. IsSum(f, g, X)
  <2> HIDE DEF f
  <2> QED BY <1>5 DEF IsSum
<1> QED
  <2> HIDE DEF f, IsSum
  <2> QED BY <1>6

\* Whichever function is chosen, its value at a subset is the sum over it.
LEMMA SumIs ==
    ASSUME NEW g, NEW h, NEW Z, IsSum(h, g, Z), NEW s, s \subseteq Z, IsFiniteSet(s)
    PROVE  h[s] = Sum(g, s)
<1> DEFINE k == CHOOSE f : IsSum(f, g, s)
<1>1. \E f : IsSum(f, g, s)
  <2> HIDE DEF IsSum
  <2> QED BY SumExists
<1>2. IsSum(k, g, s)
  <2> HIDE DEF IsSum
  <2> QED BY <1>1
<1> HIDE DEF k
<1>3. h[s] = k[s]
  <2> HIDE DEF IsSum
  <2> QED BY <1>2, SumUnique
<1> QED BY <1>3 DEF Sum, k

LEMMA SumEmpty == ASSUME NEW g PROVE Sum(g, {}) = 0
<1>1. IsFiniteSet({}) BY FS_EmptySet
<1>2. PICK h : IsSum(h, g, {})
  <2> HIDE DEF IsSum
  <2> QED BY <1>1, SumExists
<1>3. h[{}] = 0 BY <1>2 DEF IsSum
<1>4. h[{}] = Sum(g, {})
  <2> HIDE DEF IsSum
  <2> QED BY <1>1, <1>2, SumIs
<1> QED BY <1>3, <1>4

LEMMA SumPick ==
    ASSUME NEW g, NEW S, IsFiniteSet(S), S # {}
    PROVE  Pick(S) \in S /\ Sum(g, S) = g[Pick(S)] + Sum(g, S \ {Pick(S)})
<1> DEFINE R == S \ {Pick(S)}
<1>1. PICK h : IsSum(h, g, S)
  <2> HIDE DEF IsSum
  <2> QED BY SumExists
<1>2. Pick(S) \in S BY DEF Pick
<1>3. h[S] = g[Pick(S)] + h[R] BY <1>1 DEF IsSum
<1>4. R \subseteq S /\ IsFiniteSet(R) BY FS_Subset
<1> HIDE DEF R
<1>5. h[S] = Sum(g, S)
  <2> HIDE DEF IsSum
  <2> QED BY <1>1, SumIs
<1>6. h[R] = Sum(g, R)
  <2> HIDE DEF IsSum
  <2> QED BY <1>1, <1>4, SumIs
<1> QED BY <1>2, <1>3, <1>5, <1>6 DEF R

\* Equal summands, equal sums.
LEMMA SumSame ==
    ASSUME NEW f, NEW g, NEW S, IsFiniteSet(S), \A x \in S : f[x] = g[x]
    PROVE  Sum(f, S) = Sum(g, S)
<1>1. PICK h : IsSum(h, f, S)
  <2> HIDE DEF IsSum
  <2> QED BY SumExists
<1>2. PICK k : IsSum(k, g, S)
  <2> HIDE DEF IsSum
  <2> QED BY SumExists
<1>3. h[S] = k[S]
  <2> HIDE DEF IsSum
  <2> QED BY <1>1, <1>2, SumUnique
<1>4. h[S] = Sum(f, S) /\ k[S] = Sum(g, S)
  <2> HIDE DEF IsSum
  <2> QED BY <1>1, <1>2, SumIs
<1> QED BY <1>3, <1>4

\* A sum of n integers between lo and hi is between n * lo and n * hi.
LEMMA SumBounds ==
    ASSUME NEW g, NEW S, IsFiniteSet(S), NEW lo \in Int, NEW hi \in Int,
           \A x \in S : g[x] \in Int /\ lo <= g[x] /\ g[x] <= hi
    PROVE  /\ Sum(g, S) \in Int
           /\ lo * Cardinality(S) <= Sum(g, S)
           /\ Sum(g, S) <= hi * Cardinality(S)
<1> DEFINE Ok(u) == /\ Sum(g, u) \in Int
                    /\ lo * Cardinality(u) <= Sum(g, u)
                    /\ Sum(g, u) <= hi * Cardinality(u)
           T == {u \in SUBSET S : ~Ok(u)}
<1>1. SUFFICES ASSUME T # {} PROVE FALSE
  <2>1. S \in SUBSET S OBVIOUS
  <2> QED BY <2>1
<1>2. PICK u \in T : \A v \in T : ~(v \subseteq u /\ v # u)
  <2>1. T \subseteq SUBSET S OBVIOUS
  <2> HIDE DEF T
  <2> QED BY <1>1, <2>1, SmallestSubset
<1>3. u \in SUBSET S /\ IsFiniteSet(u) /\ ~Ok(u) BY FS_Subset
<1>4. CASE u = {}
  <2>1. Sum(g, u) = 0 /\ Cardinality(u) = 0 BY <1>4, SumEmpty, FS_EmptySet
  <2>2. Ok(u) BY <2>1
  <2> QED BY <2>2, <1>3
<1>5. CASE u # {}
  <2> DEFINE x == Pick(u)
             v == u \ {x}
  <2>1. x \in u /\ Sum(g, u) = g[x] + Sum(g, v) BY <1>3, <1>5, SumPick
  <2>2. IsFiniteSet(v) /\ Cardinality(v) = Cardinality(u) - 1
    BY <1>3, <2>1, FS_RemoveElement
  <2>3. Cardinality(u) \in Nat BY <1>3, FS_CardinalityType
  <2>4. Ok(v)
    <3>1. v \subseteq u /\ v # u /\ v \in SUBSET S BY <2>1, <1>3
    <3>2. v \notin T
      <4> HIDE DEF T, v
      <4> QED BY <3>1, <1>2
    <3> HIDE DEF v, Ok
    <3> QED BY <3>1, <3>2
  <2>5. g[x] \in Int /\ lo <= g[x] /\ g[x] <= hi BY <2>1, <1>3
  <2> DEFINE n == Cardinality(u)
             m == Cardinality(v)
             p == Sum(g, u)
             q == Sum(g, v)
             a == g[x]
  <2>6. n \in Int /\ m = n - 1 /\ p = a + q BY <2>1, <2>2, <2>3
  <2>7. q \in Int /\ lo * m <= q /\ q <= hi * m BY <2>4
  <2>8. a \in Int /\ lo <= a /\ a <= hi BY <2>5
  <2> HIDE DEF n, m, p, q, a
  <2>9. lo * (n - 1) = lo * n - lo /\ hi * (n - 1) = hi * n - hi BY <2>6
  <2>10. lo * n \in Int /\ hi * n \in Int BY <2>6
  <2>11. p \in Int /\ lo * n <= p /\ p <= hi * n
    BY <2>6, <2>7, <2>8, <2>9, <2>10
  <2>12. Ok(u) BY <2>11 DEF n, p
  <2> QED BY <2>12, <1>3
<1> QED BY <1>4, <1>5

LEMMA SumInt ==
    ASSUME NEW g, NEW S, IsFiniteSet(S), \A x \in S : g[x] \in Int
    PROVE  Sum(g, S) \in Int
<1> DEFINE T == {u \in SUBSET S : Sum(g, u) \notin Int}
<1>1. SUFFICES ASSUME T # {} PROVE FALSE
  <2>1. S \in SUBSET S OBVIOUS
  <2> QED BY <2>1
<1>2. PICK u \in T : \A v \in T : ~(v \subseteq u /\ v # u)
  <2>1. T \subseteq SUBSET S OBVIOUS
  <2> HIDE DEF T
  <2> QED BY <1>1, <2>1, SmallestSubset
<1>3. u \in SUBSET S /\ IsFiniteSet(u) /\ Sum(g, u) \notin Int BY FS_Subset
<1>4. u # {} BY <1>3, SumEmpty
<1> DEFINE x == Pick(u)
           v == u \ {x}
<1>5. x \in u /\ Sum(g, u) = g[x] + Sum(g, v) BY <1>3, <1>4, SumPick
<1>6. v \subseteq u /\ v # u /\ v \in SUBSET S BY <1>5, <1>3
<1>7. v \notin T
  <2> HIDE DEF T, v
  <2> QED BY <1>6, <1>2
<1>8. Sum(g, v) \in Int
  <2> HIDE DEF v
  <2> QED BY <1>6, <1>7
<1>9. g[x] \in Int BY <1>5, <1>3
<1> QED BY <1>3, <1>5, <1>8, <1>9

\* The order of summation is immaterial: any element can be taken out first.
LEMMA SumRemove ==
    ASSUME NEW g, NEW S, IsFiniteSet(S), \A x \in S : g[x] \in Int,
           NEW e \in S
    PROVE  Sum(g, S) = g[e] + Sum(g, S \ {e})
<1> DEFINE Ok(u) == \A x \in u : Sum(g, u) = g[x] + Sum(g, u \ {x})
           T == {u \in SUBSET S : ~Ok(u)}
<1>1. SUFFICES ASSUME T # {} PROVE FALSE
  <2>1. S \in SUBSET S OBVIOUS
  <2> QED BY <2>1
<1>2. PICK u \in T : \A v \in T : ~(v \subseteq u /\ v # u)
  <2>1. T \subseteq SUBSET S OBVIOUS
  <2> HIDE DEF T
  <2> QED BY <1>1, <2>1, SmallestSubset
<1>3. u \in SUBSET S /\ IsFiniteSet(u) /\ ~Ok(u) BY FS_Subset
<1>4. PICK x \in u : Sum(g, u) # g[x] + Sum(g, u \ {x}) BY <1>3
<1> DEFINE p == Pick(u)
           v == u \ {p}
           w == u \ {x}
<1>5. p \in u /\ Sum(g, u) = g[p] + Sum(g, v) BY <1>3, SumPick
<1>6. x # p BY <1>4, <1>5
<1>7. \A z \in {v, w} : Ok(z)
  <2>1. \A z \in {v, w} : z \subseteq u /\ z # u /\ z \in SUBSET S
    BY <1>3, <1>5
  <2> HIDE DEF v, w, Ok
  <2> QED BY <2>1, <1>2
<1>8. x \in v /\ p \in w /\ v \ {x} = w \ {p} BY <1>5, <1>6
<1>9. Sum(g, v) = g[x] + Sum(g, v \ {x}) /\ Sum(g, w) = g[p] + Sum(g, w \ {p})
  BY <1>7, <1>8
<1>10. g[x] \in Int /\ g[p] \in Int BY <1>3, <1>5
<1>11. Sum(g, w \ {p}) \in Int
  <2>1. w \ {p} \subseteq S /\ IsFiniteSet(w \ {p}) BY <1>3, FS_Subset
  <2> HIDE DEF w, p
  <2> QED BY <2>1, SumInt
<1> DEFINE rest == Sum(g, w \ {p})
<1>12. Sum(g, u) = g[p] + (g[x] + rest) /\ Sum(g, w) = g[p] + rest
  BY <1>5, <1>8, <1>9
<1>13. g[p] + (g[x] + rest) = g[x] + (g[p] + rest)
  <2> HIDE DEF rest, p
  <2> QED BY <1>10, <1>11 DEF rest, p
<1>14. Sum(g, u) = g[x] + Sum(g, w) BY <1>12, <1>13
<1> QED BY <1>4, <1>14

\* When one summand changes, the sum changes by as much.
LEMMA SumChange ==
    ASSUME NEW f, NEW g, NEW S, IsFiniteSet(S), NEW e \in S,
           \A x \in S : f[x] \in Int /\ g[x] \in Int,
           \A x \in S \ {e} : f[x] = g[x]
    PROVE  /\ Sum(f, S) \in Int /\ Sum(g, S) \in Int
           /\ Sum(g, S) = (Sum(f, S) - f[e]) + g[e]
<1> DEFINE R == S \ {e}
<1>1. Sum(f, S) = f[e] + Sum(f, R) /\ Sum(g, S) = g[e] + Sum(g, R)
  BY SumRemove
<1>2. IsFiniteSet(R) /\ R \subseteq S BY FS_Subset
<1>3. Sum(f, R) = Sum(g, R) /\ Sum(f, R) \in Int BY <1>2, SumSame, SumInt
<1>4. f[e] \in Int /\ g[e] \in Int OBVIOUS
<1> DEFINE a == f[e]
           b == g[e]
           r == Sum(f, R)
<1>5. Sum(f, S) = a + r /\ Sum(g, S) = b + r /\ a \in Int /\ b \in Int /\ r \in Int
  BY <1>1, <1>3, <1>4
<1> HIDE DEF a, b, r
<1>6. /\ Sum(f, S) \in Int /\ Sum(g, S) \in Int
      /\ Sum(g, S) = (Sum(f, S) - a) + b
  BY <1>5
<1> QED BY <1>6 DEF a, b

\* The sum of no less is no less.
LEMMA SumMonotone ==
    ASSUME NEW f, NEW g, NEW S, IsFiniteSet(S),
           \A x \in S : f[x] \in Int /\ g[x] \in Int /\ f[x] <= g[x]
    PROVE  Sum(f, S) <= Sum(g, S)
<1> DEFINE T == {u \in SUBSET S : ~(Sum(f, u) <= Sum(g, u))}
<1>1. SUFFICES ASSUME T # {} PROVE FALSE
  <2>1. S \in SUBSET S OBVIOUS
  <2> QED BY <2>1
<1>2. PICK u \in T : \A v \in T : ~(v \subseteq u /\ v # u)
  <2>1. T \subseteq SUBSET S OBVIOUS
  <2> HIDE DEF T
  <2> QED BY <1>1, <2>1, SmallestSubset
<1>3. u \in SUBSET S /\ IsFiniteSet(u) /\ ~(Sum(f, u) <= Sum(g, u)) BY FS_Subset
<1>4. u # {}
  <2>1. Sum(f, {}) = 0 /\ Sum(g, {}) = 0 BY SumEmpty
  <2>2. Sum(f, {}) <= Sum(g, {}) BY <2>1
  <2> QED BY <2>2, <1>3
<1> DEFINE x == Pick(u)
           v == u \ {x}
<1>5. x \in u /\ Sum(f, u) = f[x] + Sum(f, v) /\ Sum(g, u) = g[x] + Sum(g, v)
  BY <1>3, <1>4, SumPick
<1>6. v \subseteq u /\ v # u /\ v \in SUBSET S /\ IsFiniteSet(v) BY <1>5, <1>3, FS_Subset
<1>7. v \notin T
  <2> HIDE DEF T, v
  <2> QED BY <1>6, <1>2
<1> DEFINE a == Sum(f, v)
           b == Sum(g, v)
           c == f[x]
           d == g[x]
<1>8. a <= b
  <2> HIDE DEF v
  <2> QED BY <1>6, <1>7
<1>9. a \in Int /\ b \in Int
  <2>1. \A y \in v : f[y] \in Int /\ g[y] \in Int BY <1>6
  <2> HIDE DEF v
  <2> QED BY <1>6, <2>1, SumInt
<1>10. c \in Int /\ d \in Int /\ c <= d BY <1>5, <1>3
<1>11. Sum(f, u) = c + a /\ Sum(g, u) = d + b BY <1>5
<1>12. c + a <= d + b
  <2> HIDE DEF a, b, c, d
  <2> QED BY <1>8, <1>9, <1>10
<1> QED BY <1>3, <1>11, <1>12

\* When no summand is more than c times another's, neither is the sum.
LEMMA SumAtMost ==
    ASSUME NEW f, NEW g, NEW S, IsFiniteSet(S), NEW c \in Int,
           \A x \in S : f[x] \in Int /\ g[x] \in Int /\ f[x] <= c * g[x]
    PROVE  Sum(f, S) <= c * Sum(g, S)
<1> DEFINE T == {u \in SUBSET S : ~(Sum(f, u) <= c * Sum(g, u))}
<1>1. SUFFICES ASSUME T # {} PROVE FALSE
  <2>1. S \in SUBSET S
    OBVIOUS
  <2> QED BY <2>1
<1>2. PICK u \in T : \A v \in T : ~(v \subseteq u /\ v # u)
  <2>1. T \subseteq SUBSET S
    OBVIOUS
  <2> HIDE DEF T
  <2> QED BY <1>1, <2>1, SmallestSubset
<1>3. u \in SUBSET S /\ IsFiniteSet(u) /\ ~(Sum(f, u) <= c * Sum(g, u))
  BY FS_Subset
<1>4. u # {}
  <2>1. Sum(f, {}) = 0 /\ Sum(g, {}) = 0
    BY SumEmpty
  <2>2. Sum(f, {}) <= c * Sum(g, {})
    BY <2>1
  <2> QED BY <2>2, <1>3
<1> DEFINE x == Pick(u)
           v == u \ {x}
<1>5. x \in u /\ Sum(f, u) = f[x] + Sum(f, v) /\ Sum(g, u) = g[x] + Sum(g, v)
  BY <1>3, <1>4, SumPick
<1>6. v \subseteq u /\ v # u /\ v \in SUBSET S /\ IsFiniteSet(v)
  BY <1>5, <1>3, FS_Subset
<1>7. v \notin T
  <2> HIDE DEF T, v
  <2> QED BY <1>6, <1>2
<1> DEFINE a == Sum(f, v)
           b == Sum(g, v)
           d == f[x]
           e == g[x]
<1>8. a <= c * b
  <2> HIDE DEF v
  <2> QED BY <1>6, <1>7
<1>9. a \in Int /\ b \in Int
  <2>1. \A y \in v : f[y] \in Int /\ g[y] \in Int
    BY <1>6
  <2> HIDE DEF v
  <2> QED BY <1>6, <2>1, SumInt
<1>10. d \in Int /\ e \in Int /\ d <= c * e
  BY <1>5, <1>3
<1>11. Sum(f, u) = d + a /\ Sum(g, u) = e + b
  BY <1>5
<1>12. d + a <= c * (e + b)
  <2> HIDE DEF a, b, d, e
  <2>1. c * (e + b) = c * e + c * b
    BY <1>9, <1>10
  <2>2. c * e \in Int /\ c * b \in Int
    BY <1>9, <1>10
  <2> QED BY <1>8, <1>9, <1>10, <2>1, <2>2
<1> QED BY <1>3, <1>11, <1>12

\* What a set of numbers is the image of, sums to the same.
LEMMA SumRenamed ==
    ASSUME NEW f, NEW g, NEW S, IsFiniteSet(S), NEW p,
           \A x, y \in S : p[x] = p[y] => x = y,
           \A x \in S : f[x] = g[p[x]] /\ g[p[x]] \in Int
    PROVE  Sum(f, S) = Sum(g, {p[x] : x \in S})
<1> DEFINE image(u) == {p[x] : x \in u}
           T == {u \in SUBSET S : Sum(f, u) # Sum(g, image(u))}
<1>1. SUFFICES ASSUME T # {} PROVE FALSE
  <2>1. S \in SUBSET S
    OBVIOUS
  <2> QED BY <2>1
<1>2. PICK u \in T : \A v \in T : ~(v \subseteq u /\ v # u)
  <2>1. T \subseteq SUBSET S
    OBVIOUS
  <2> HIDE DEF T
  <2> QED BY <1>1, <2>1, SmallestSubset
<1>3. u \in SUBSET S /\ IsFiniteSet(u) /\ Sum(f, u) # Sum(g, image(u))
  BY FS_Subset
<1>4. u # {}
  <2>1. Sum(f, {}) = 0 /\ Sum(g, {}) = 0
    BY SumEmpty
  <2>2. image({}) = {}
    OBVIOUS
  <2> HIDE DEF image
  <2> QED BY <1>3, <2>1, <2>2
<1>5. PICK x \in u : TRUE
  BY <1>4
<1> DEFINE v == u \ {x}
<1>6. v \in SUBSET S /\ v \subseteq u /\ v # u
  BY <1>3
<1>7. Sum(f, v) = Sum(g, image(v))
  <2>1. v \notin T
    <3> HIDE DEF T, v
    <3> QED BY <1>2, <1>6
  <2> HIDE DEF v
  <2> QED BY <1>6, <2>1
<1>8. Sum(f, u) = f[x] + Sum(f, v)
  <2>1. \A y \in u : f[y] \in Int
    BY <1>3
  <2> QED BY <1>3, <2>1, SumRemove
<1>9. image(u) \ {p[x]} = image(v) /\ p[x] \in image(u)
  BY <1>3
<1>10. IsFiniteSet(image(u))
  <2> DEFINE h == [y \in u |-> p[y]]
  <2>1. DOMAIN h = u /\ h = [y \in DOMAIN h |-> h[y]] /\ image(u) = {h[y] : y \in DOMAIN h}
    OBVIOUS
  <2> HIDE DEF h, image
  <2> QED BY <1>3, <2>1, FiniteImage
<1>11. \A y \in image(u) : g[y] \in Int
  BY <1>3
<1> DEFINE U == image(u)
           V == image(v)
<1>12. Sum(g, U) = g[p[x]] + Sum(g, U \ {p[x]})
  <2> DEFINE e == p[x]
  <2>1. e \in U /\ IsFiniteSet(U) /\ \A y \in U : g[y] \in Int
    BY <1>9, <1>10, <1>11
  <2> HIDE DEF e, U
  <2>2. Sum(g, U) = g[e] + Sum(g, U \ {e})
    BY <2>1, SumRemove
  <2> QED BY <2>2 DEF e
<1>13. f[x] = g[p[x]]
  BY <1>3
<1>14. U \ {p[x]} = V
  BY <1>9
<1> HIDE DEF U, V
<1>15. Sum(f, u) = Sum(g, U)
  <2>1. Sum(g, U) = g[p[x]] + Sum(g, V)
    BY <1>12, <1>14
  <2> QED BY <1>7, <1>8, <1>13, <2>1 DEF V
<1> QED BY <1>3, <1>15 DEF U

\* A finite set of numbers has a smallest member.
LEMMA FirstMember ==
    ASSUME NEW S, IsFiniteSet(S), \A n \in S : n \in Int, S # {}
    PROVE  \E m \in S : \A n \in S : m <= n
<1> DEFINE f == [n \in S |-> 0 - n]
           T == {f[n] : n \in DOMAIN f}
<1>1. IsFiniteSet(T)
  <2>1. DOMAIN f = S /\ f = [n \in DOMAIN f |-> f[n]]
    OBVIOUS
  <2> HIDE DEF f
  <2> QED BY <2>1, FiniteImage
<1>2. \A t \in T : t \in Int
  OBVIOUS
<1>3. T # {}
  OBVIOUS
<1>4. \A n \in S : 0 - n \in T
  OBVIOUS
<1>5. \A t \in T : \E n \in S : t = 0 - n
  OBVIOUS
<1> HIDE DEF T
<1>6. PICK t \in T : \A u \in T : u <= t
  BY <1>1, <1>2, <1>3, LargestMember
<1>7. PICK m \in S : t = 0 - m
  BY <1>5
<1>8. \A n \in S : m <= n
  BY <1>4, <1>6, <1>7
<1> QED BY <1>8

\* A sum of numbers that are not negative is not, and is 0 only when they are.
LEMMA SumZero ==
    ASSUME NEW g, NEW S, IsFiniteSet(S), \A x \in S : g[x] \in Int /\ 0 <= g[x]
    PROVE  /\ Sum(g, S) \in Int /\ 0 <= Sum(g, S)
           /\ \A x \in S : g[x] <= Sum(g, S)
<1>1. ASSUME NEW U, U \subseteq S PROVE Sum(g, U) \in Int /\ 0 <= Sum(g, U)
  <2> DEFINE z == [x \in U |-> 0]
  <2>1. IsFiniteSet(U) BY <1>1, FS_Subset
  <2>2. \A x \in U : z[x] \in Int /\ 0 <= z[x] /\ z[x] <= 0 /\ g[x] \in Int /\ z[x] <= g[x]
    BY <1>1
  <2> HIDE DEF z
  <2>3. Sum(z, U) \in Int /\ 0 * Cardinality(U) <= Sum(z, U) BY <2>1, <2>2, SumBounds
  <2>4. 0 <= Sum(z, U) BY <2>1, <2>3, FS_CardinalityType
  <2>5. Sum(z, U) <= Sum(g, U) /\ Sum(g, U) \in Int BY <2>1, <2>2, SumMonotone, SumInt
  <2> QED BY <2>3, <2>4, <2>5
<1>2. ASSUME NEW x \in S PROVE g[x] <= Sum(g, S)
  <2>1. Sum(g, S) = g[x] + Sum(g, S \ {x}) BY SumRemove
  <2>2. Sum(g, S \ {x}) \in Int /\ 0 <= Sum(g, S \ {x}) BY <1>1
  <2> QED BY <2>1, <2>2
<1> QED BY <1>1, <1>2

-----------------------------------------------------------------------------
(* Sequences of anything                                                   *)

IsSeq(s) == s \in Seq(Range(s))

LEMMA SeqFacts ==
  ASSUME NEW S, NEW s \in Seq(S)
  PROVE  /\ IsSeq(s) /\ Len(s) \in Nat /\ DOMAIN s = 1 .. Len(s)
         /\ \A e : e \in Range(s) <=> \E i \in 1 .. Len(s) : e = s[i]
<1>1. Len(s) \in Nat /\ DOMAIN s = 1 .. Len(s) /\ s \in [1 .. Len(s) -> S]
  BY LenProperties
<1>2. \A e : e \in Range(s) <=> \E i \in 1 .. Len(s) : e = s[i]
  BY <1>1 DEF Range
<1>3. \A i \in 1 .. Len(s) : s[i] \in Range(s)
  BY <1>2
<1>4. s = [i \in 1 .. Len(s) |-> s[i]]
  BY <1>1
<1>5. [i \in 1 .. Len(s) |-> s[i]] \in Seq(Range(s))
  BY <1>1, <1>3, IsASeq
<1> QED
  BY <1>1, <1>2, <1>4, <1>5 DEF IsSeq

\* The empty sequence has no members.
LEMMA EmptySeqFacts == IsSeq(<<>>) /\ Range(<<>>) = {} /\ Len(<<>>) = 0
<1>1. <<>> \in Seq({}) /\ Len(<<>>) = 0
  BY EmptySeq
<1> DEFINE s == <<>>
<1> HIDE DEF s
<1>2. s \in Seq({}) /\ Len(s) = 0
  BY <1>1 DEF s
<1>3. IsSeq(s) /\ \A e : e \in Range(s) <=> \E i \in 1 .. Len(s) : e = s[i]
  BY <1>2, SeqFacts
<1>4. Range(s) = {}
  BY <1>2, <1>3
<1> QED BY <1>2, <1>3, <1>4 DEF s

LEMMA AppendFacts ==
  ASSUME NEW s, IsSeq(s), NEW x
  PROVE  LET t == Append(s, x) IN
         /\ IsSeq(t)
         /\ Len(t) = Len(s) + 1
         /\ \A i \in 1 .. Len(s) : t[i] = s[i]
         /\ t[Len(s) + 1] = x
         /\ Range(t) = Range(s) \cup {x}
<1> DEFINE S == Range(s) \cup {x}
           t == Append(s, x)
<1>1. s \in Seq(S)
  BY SeqMonotonic DEF IsSeq
<1> HIDE DEF S
<1>2. /\ t \in Seq(S) /\ Len(s) \in Nat
      /\ Len(t) = Len(s) + 1
      /\ \A i \in 1 .. Len(s) : t[i] = s[i]
      /\ t[Len(s) + 1] = x
  <2>1. x \in S
    BY DEF S
  <2> QED
    BY <1>1, <2>1, AppendProperties, LenProperties
<1>3. \A e : e \in Range(t) <=> \E i \in 1 .. Len(t) : e = t[i]
  BY <1>2, SeqFacts
<1>4. \A e : e \in Range(s) <=> \E i \in 1 .. Len(s) : e = s[i]
  BY <1>1, SeqFacts
<1>5. IsSeq(t)
  BY <1>2, SeqFacts
<1> HIDE DEF t
<1>6. Range(t) = Range(s) \cup {x}
  <2>1. ASSUME NEW e \in Range(t) PROVE e \in Range(s) \cup {x}
    BY <1>2, <1>3, <1>4
  <2>2. ASSUME NEW e \in Range(s) \cup {x} PROVE e \in Range(t)
    BY <1>2, <1>3, <1>4
  <2> QED
    BY <2>1, <2>2
<1> QED
  BY <1>2, <1>5, <1>6 DEF t

\* A sequence has finitely many members.
LEMMA FiniteRange == ASSUME NEW s, IsSeq(s) PROVE IsFiniteSet(Range(s))
<1>1. s \in Seq(Range(s)) BY DEF IsSeq
<1>2. Len(s) \in Nat /\ s \in [1 .. Len(s) -> Range(s)] BY <1>1, LenProperties
<1>3. \A e \in Range(s) : \E i \in 1 .. Len(s) : s[i] = e BY <1>1, SeqFacts
<1>4. s \in Surjection(1 .. Len(s), Range(s)) BY <1>2, <1>3 DEF Surjection
<1>5. IsFiniteSet(1 .. Len(s)) BY <1>2, FS_Interval
<1> QED BY <1>4, <1>5, FS_Surjection

LEMMA SameInterval == ASSUME NEW a \in Nat, NEW b \in Nat, 1 .. a = 1 .. b PROVE a = b
<1>1. \A n \in Nat : Cardinality(1 .. n) = n
  <2> TAKE n \in Nat
  <2>1. 1 \in Int /\ n \in Int
    OBVIOUS
  <2>2. Cardinality(1 .. n) = IF 1 > n THEN 0 ELSE n - 1 + 1
    BY <2>1, FS_Interval
  <2> QED BY <2>2
<1> QED BY <1>1

\* A function on the first k numbers is a sequence of k members.
LEMMA FunIsSeq ==
    ASSUME NEW k \in Nat, NEW S, NEW t \in [1 .. k -> S]
    PROVE  /\ t \in Seq(S) /\ IsSeq(t) /\ Len(t) = k
           /\ \A e : e \in Range(t) <=> \E i \in 1 .. k : e = t[i]
<1>1. t \in UNION {[1 .. n -> S] : n \in Nat}
  OBVIOUS
<1>2. t \in Seq(S)
  BY <1>1, SeqDef
<1>3. DOMAIN t = 1 .. k /\ DOMAIN t = 1 .. Len(t) /\ Len(t) \in Nat
  BY <1>2, LenProperties
<1>4. Len(t) = k
  BY <1>3, SameInterval
<1> QED BY <1>2, <1>4, SeqFacts

-----------------------------------------------------------------------------
(* Total orders, as sets of pairs, and the places they give                *)

\* What a set of pairs must be to order a set one after the other.
OrderedBy(R, S) ==
    /\ \A x \in S : <<x, x>> \notin R
    /\ \A x, y \in S : x = y \/ <<x, y>> \in R \/ <<y, x>> \in R
    /\ \A x, y, z \in S : <<x, y>> \in R /\ <<y, z>> \in R => <<x, z>> \in R

RankIn(R, S, x) == Cardinality({y \in S : <<y, x>> \in R})

\* Ranks are the numbers from 0, in the order, each of one member.
LEMMA Ranks ==
    ASSUME NEW S, IsFiniteSet(S), NEW R, OrderedBy(R, S)
    PROVE  /\ Cardinality(S) \in Nat
           /\ \A x \in S : RankIn(R, S, x) \in 0 .. Cardinality(S) - 1
           /\ \A x, y \in S : <<x, y>> \in R <=> RankIn(R, S, x) < RankIn(R, S, y)
           /\ \A n \in 0 .. Cardinality(S) - 1 : \E x \in S : RankIn(R, S, x) = n
<1> DEFINE Below(x) == {y \in S : <<y, x>> \in R}
           k == Cardinality(S)
           f == [x \in S |-> RankIn(R, S, x)]
<1>1. k \in Nat
  BY FS_CardinalityType
<1>2. ASSUME NEW x \in S
      PROVE  RankIn(R, S, x) = Cardinality(Below(x)) /\ IsFiniteSet(Below(x))
             /\ RankIn(R, S, x) \in 0 .. k - 1 /\ RankIn(R, S, x) \in Int
  <2>1. Below(x) \in SUBSET S /\ Below(x) # S
    BY DEF OrderedBy
  <2>2. Cardinality(Below(x)) <= k /\ Cardinality(Below(x)) # k /\ IsFiniteSet(Below(x))
    <3> HIDE DEF Below
    <3> QED BY <2>1, FS_Subset
  <2>3. Cardinality(Below(x)) \in Nat
    <3> HIDE DEF Below
    <3> QED BY <2>2, FS_CardinalityType
  <2> HIDE DEF k
  <2>4. Cardinality(Below(x)) \in 0 .. k - 1
    BY <1>1, <2>2, <2>3 DEF k
  <2> QED BY <2>2, <2>3, <2>4 DEF RankIn
<1>3. ASSUME NEW x \in S, NEW y \in S, <<x, y>> \in R
      PROVE  RankIn(R, S, x) < RankIn(R, S, y)
  <2>1. x \in Below(y) /\ x \notin Below(x)
    BY <1>3 DEF OrderedBy
  <2>2. Below(x) \in SUBSET Below(y)
    BY <1>3 DEF OrderedBy
  <2>3. Below(x) # Below(y)
    BY <2>1
  <2>4. IsFiniteSet(Below(x)) /\ IsFiniteSet(Below(y))
    BY <1>2
  <2>5. Cardinality(Below(x)) <= Cardinality(Below(y)) /\ Cardinality(Below(x)) # Cardinality(Below(y))
    <3> HIDE DEF Below
    <3> QED BY <2>2, <2>3, <2>4, FS_Subset
  <2>6. Cardinality(Below(x)) \in Nat /\ Cardinality(Below(y)) \in Nat
    <3> HIDE DEF Below
    <3> QED BY <2>4, FS_CardinalityType
  <2>7. Cardinality(Below(x)) < Cardinality(Below(y))
    <3> HIDE DEF Below
    <3> QED BY <2>5, <2>6
  <2>8. RankIn(R, S, x) = Cardinality(Below(x)) /\ RankIn(R, S, y) = Cardinality(Below(y))
    BY <1>2
  <2> QED BY <2>7, <2>8
<1>4. ASSUME NEW x \in S, NEW y \in S, RankIn(R, S, x) < RankIn(R, S, y)
      PROVE  <<x, y>> \in R
  <2>1. RankIn(R, S, x) \in Int /\ RankIn(R, S, y) \in Int
    BY <1>2
  <2>2. x # y
    BY <2>1, <1>4
  <2>3. ~(<<y, x>> \in R)
    <3>1. ~(RankIn(R, S, y) < RankIn(R, S, x))
      BY <2>1, <1>4
    <3> QED BY <3>1, <1>3
  <2> QED BY <2>2, <2>3 DEF OrderedBy
<1>5. ASSUME NEW x \in S, NEW y \in S, f[x] = f[y] PROVE x = y
  <2>1. RankIn(R, S, x) \in Int /\ RankIn(R, S, x) = RankIn(R, S, y)
    <3>1. f[x] = RankIn(R, S, x) /\ f[y] = RankIn(R, S, y)
      OBVIOUS
    <3> HIDE DEF f
    <3> QED BY <3>1, <1>5, <1>2
  <2>2. ~(RankIn(R, S, x) < RankIn(R, S, y)) /\ ~(RankIn(R, S, y) < RankIn(R, S, x))
    BY <2>1
  <2> QED BY <2>2, <1>3 DEF OrderedBy
<1> DEFINE I == {f[x] : x \in S}
<1>6. f \in Bijection(S, I)
  <2>1. f \in [S -> I]
    OBVIOUS
  <2>2. \A n \in I : \E x \in S : f[x] = n
    OBVIOUS
  <2> HIDE DEF f, I
  <2> QED BY <2>1, <2>2, <1>5 DEF Bijection, Injection, Surjection, IsInjective
<1>7. Cardinality(I) = k /\ IsFiniteSet(I)
  <2>1. ExistsBijection(S, I)
    <3> HIDE DEF f, I
    <3> QED BY <1>6 DEF ExistsBijection
  <2> HIDE DEF I
  <2> QED BY <2>1, FS_Bijection
<1>8. I \in SUBSET (0 .. k - 1)
  BY <1>2
<1>9. IsFiniteSet(0 .. k - 1) /\ Cardinality(0 .. k - 1) = k
  <2>1. 0 \in Int /\ k - 1 \in Int
    BY <1>1
  <2> HIDE DEF k
  <2>2. IsFiniteSet(0 .. k - 1) /\ Cardinality(0 .. k - 1) = IF 0 > k - 1 THEN 0 ELSE k - 1 - 0 + 1
    BY <2>1, FS_Interval
  <2> QED BY <2>2, <1>1 DEF k
<1>10. I = 0 .. k - 1
  <2> HIDE DEF I, k
  <2> QED BY <1>7, <1>8, <1>9, FS_Subset
<1>11. ASSUME NEW n \in 0 .. k - 1 PROVE \E x \in S : RankIn(R, S, x) = n
  <2>1. n \in I
    <3> HIDE DEF I
    <3> QED BY <1>10
  <2> QED BY <2>1
<1> HIDE DEF f, I, Below
<1> QED BY <1>1, <1>2, <1>3, <1>4, <1>11

\* A sequence in which the member at n has n - 1 before it.
LEMMA ByRank ==
    ASSUME NEW S, IsFiniteSet(S), NEW R, OrderedBy(R, S), NEW q,
           q = [n \in 1 .. Cardinality(S) |-> q[n]],
           \A n \in 1 .. Cardinality(S) : q[n] \in S /\ RankIn(R, S, q[n]) = n - 1
    PROVE  /\ q \in Seq(S) /\ IsSeq(q) /\ Len(q) = Cardinality(S) /\ Range(q) = S
           /\ \A i, j \in 1 .. Cardinality(S) : <<q[i], q[j]>> \in R <=> i < j
<1> DEFINE k == Cardinality(S)
<1>1. k \in Nat
  BY FS_CardinalityType
<1>2. q \in Seq(S) /\ Len(q) = k
  <2>1. [n \in 1 .. k |-> q[n]] \in Seq(S) /\ Len([n \in 1 .. k |-> q[n]]) = k
    <3>1. \A n \in 1 .. k : q[n] \in S
      OBVIOUS
    <3>2. [n \in 1 .. k |-> q[n]] \in [1 .. k -> S]
      BY <3>1
    <3> HIDE DEF k
    <3> QED BY <1>1, <3>2, FunIsSeq
  <2> QED BY <2>1
<1>3. IsSeq(q) /\ \A e : e \in Range(q) <=> \E i \in 1 .. k : e = q[i]
  BY <1>2, SeqFacts
<1>4. ASSUME NEW x \in S PROVE x \in Range(q)
  <2> DEFINE n == RankIn(R, S, x) + 1
  <2>1. n \in 1 .. k /\ n - 1 = RankIn(R, S, x)
    <3>1. RankIn(R, S, x) \in 0 .. k - 1
      BY Ranks
    <3> HIDE DEF k
    <3> QED BY <3>1, <1>1
  <2>2. RankIn(R, S, q[n]) = RankIn(R, S, x) /\ q[n] \in S
    BY <2>1
  <2>3. RankIn(R, S, x) \in Int
    <3>1. RankIn(R, S, x) \in 0 .. k - 1
      BY Ranks
    <3> QED BY <3>1
  <2>4. ~(RankIn(R, S, q[n]) < RankIn(R, S, x)) /\ ~(RankIn(R, S, x) < RankIn(R, S, q[n]))
    BY <2>2, <2>3
  <2>5. <<q[n], x>> \notin R /\ <<x, q[n]>> \notin R
    BY <2>2, <2>4, Ranks
  <2>6. q[n] = x
    BY <2>2, <2>5 DEF OrderedBy
  <2> HIDE DEF n
  <2> QED BY <1>3, <2>1, <2>6
<1>5. Range(q) = S
  BY <1>3, <1>4
<1>6. ASSUME NEW i \in 1 .. k, NEW j \in 1 .. k PROVE <<q[i], q[j]>> \in R <=> i < j
  <2>1. RankIn(R, S, q[i]) = i - 1 /\ RankIn(R, S, q[j]) = j - 1 /\ q[i] \in S /\ q[j] \in S
    OBVIOUS
  <2>2. <<q[i], q[j]>> \in R <=> RankIn(R, S, q[i]) < RankIn(R, S, q[j])
    BY <2>1, Ranks
  <2>3. i - 1 < j - 1 <=> i < j
    BY <1>1
  <2> QED BY <2>1, <2>2, <2>3
<1> QED BY <1>2, <1>3, <1>5, <1>6
==================================================================================
