------------------------------ MODULE AnswersProofs ------------------------------
(***************************************************************************)
(* What the room planner promises, for every catalogue, vocabulary entry,  *)
(* request, draft of the model and size of the shortlists.                 *)
(***************************************************************************)
EXTENDS Answers, CollectionFacts

-----------------------------------------------------------------------------
(* Sums of functions, members of sequences                                 *)

LEMMA SumOfIs == ASSUME NEW f, IsFiniteSet(DOMAIN f) PROVE SumOf(f) = Sum(f, DOMAIN f)
<1> DEFINE S == DOMAIN f
           Eqn(h) == h = [s \in SUBSET S |->
                             IF s = {} THEN 0 ELSE f[Pick(s)] + h[s \ {Pick(s)}]]
           k == CHOOSE h : Eqn(h)
<1>1. SumOf(f) = k[S]
  BY DEF SumOf, FoldFunction, FoldFunctionOnSet, MapThenFoldSet, Pick
<1>2. \A h : Eqn(h) <=> IsSum(h, f, S)
  BY DEF IsSum
<1>3. \E h : IsSum(h, f, S)
  <2> HIDE DEF IsSum, S
  <2> QED BY SumExists DEF S
<1>4. IsSum(k, f, S)
  <2> HIDE DEF Eqn, IsSum, S
  <2> QED BY <1>2, <1>3
<1>5. k[S] = Sum(f, S)
  <2> HIDE DEF IsSum, k
  <2> QED BY <1>4, SumIs
<1> QED BY <1>1, <1>5

\* Places in a sequence, taken in their order.
Increasing(K) == {p \in K \X K : p[1] < p[2]}

LEMMA IndexOrder ==
    ASSUME NEW K, IsFiniteSet(K), \A x \in K : x \in Int
    PROVE  LET q == InOrder(K, <)
           IN  /\ Cardinality(K) \in Nat /\ DOMAIN q = 1 .. Cardinality(K)
               /\ q \in Seq(K) /\ IsSeq(q) /\ Len(q) = Cardinality(K) /\ Range(q) = K
               /\ \A i, j \in 1 .. Cardinality(K) : q[i] < q[j] <=> i < j
<1> DEFINE R == Increasing(K)
           k == Cardinality(K)
           q == InOrder(K, <)
           at(n) == CHOOSE x \in K : Cardinality({y \in K : y < x}) = n - 1
<1>1. IsFiniteSet(K) /\ k \in Nat
  BY FS_CardinalityType
<1>2. \A x \in K : x \in Int
  OBVIOUS
<1>3. ASSUME NEW x \in K, NEW y \in K PROVE <<x, y>> \in R <=> x < y
  BY DEF Increasing
<1>4. OrderedBy(R, K)
  <2>1. ASSUME NEW x \in K PROVE <<x, x>> \notin R
    BY <1>2, <1>3
  <2>2. ASSUME NEW x \in K, NEW y \in K PROVE x = y \/ <<x, y>> \in R \/ <<y, x>> \in R
    BY <1>2, <1>3
  <2>3. ASSUME NEW x \in K, NEW y \in K, NEW z \in K, <<x, y>> \in R, <<y, z>> \in R
        PROVE  <<x, z>> \in R
    BY <1>2, <1>3, <2>3
  <2> HIDE DEF R
  <2> QED BY <2>1, <2>2, <2>3 DEF OrderedBy
<1>5. ASSUME NEW x \in K PROVE RankIn(R, K, x) = Cardinality({y \in K : y < x})
  <2>1. {y \in K : <<y, x>> \in R} = {y \in K : y < x}
    BY <1>3
  <2> QED BY <2>1 DEF RankIn
<1>6. q = [n \in 1 .. k |-> at(n)]
  BY DEF InOrder
<1>7. ASSUME NEW n \in 1 .. k PROVE q[n] \in K /\ RankIn(R, K, q[n]) = n - 1
  <2>1. n - 1 \in 0 .. k - 1
    <3> HIDE DEF k
    <3> QED BY <1>1
  <2>2. \E x \in K : RankIn(R, K, x) = n - 1
    <3>1. \A j \in 0 .. k - 1 : \E x \in K : RankIn(R, K, x) = j
      <4> HIDE DEF R
      <4> QED BY <1>1, <1>4, Ranks
    <3> HIDE DEF R, k
    <3> QED BY <2>1, <3>1
  <2>3. \E x \in K : Cardinality({y \in K : y < x}) = n - 1
    <3> HIDE DEF R
    <3> QED BY <2>2, <1>5
  <2>4. q[n] = CHOOSE x \in K : Cardinality({y \in K : y < x}) = n - 1
    <3>1. q[n] = at(n)
      <4> HIDE DEF q, at, k
      <4> QED BY <1>6
    <3> QED BY <3>1
  <2> HIDE DEF q, R
  <2>5. q[n] \in K /\ Cardinality({y \in K : y < q[n]}) = n - 1
    BY <2>3, <2>4
  <2> QED BY <2>5, <1>5
<1>8. q = [n \in 1 .. k |-> q[n]]
  <2> HIDE DEF q, at
  <2> QED BY <1>6
<1> HIDE DEF q, R
<1>9. /\ q \in Seq(K) /\ IsSeq(q) /\ Len(q) = k /\ Range(q) = K
      /\ \A i, j \in 1 .. k : <<q[i], q[j]>> \in R <=> i < j
  BY <1>1, <1>4, <1>7, <1>8, ByRank
<1>10. \A i, j \in 1 .. k : q[i] < q[j] <=> i < j
  BY <1>3, <1>7, <1>9
<1>11. DOMAIN q = 1 .. k
  <2> HIDE DEF k, at
  <2> QED BY <1>6
<1> QED BY <1>1, <1>9, <1>10, <1>11 DEF q

\* The members of a sequence at some places, as Passing takes them.
Taken(s, K) == LET kept == InOrder(K, <) IN [n \in DOMAIN kept |-> s[kept[n]]]

LEMMA TakenFacts ==
    ASSUME NEW s, NEW K, IsFiniteSet(K), \A x \in K : x \in Int
    PROVE  LET t == Taken(s, K)
           IN  /\ IsSeq(t) /\ DOMAIN t = 1 .. Len(t) /\ Len(t) \in Nat
               /\ \A i \in 1 .. Len(t) : \E n \in K : t[i] = s[n]
               /\ \A n \in K : \E i \in 1 .. Len(t) : t[i] = s[n]
<1> DEFINE kept == InOrder(K, <)
           k == Cardinality(K)
           t == Taken(s, K)
           S == {s[n] : n \in K}
<1>1. /\ k \in Nat /\ DOMAIN kept = 1 .. k /\ IsSeq(kept)
      /\ Len(kept) = k /\ Range(kept) = K /\ kept \in Seq(K)
  BY IndexOrder
<1>2. \A e : e \in K <=> \E i \in 1 .. k : e = kept[i]
  <2> HIDE DEF kept
  <2> QED BY <1>1, SeqFacts
<1>3. t = [n \in 1 .. k |-> s[kept[n]]]
  BY <1>1 DEF Taken
<1> HIDE DEF kept, k
<1>4. [n \in 1 .. k |-> s[kept[n]]] \in [1 .. k -> S]
  BY <1>2
<1>5. IsSeq(t) /\ Len(t) = k
  <2>1. t \in [1 .. k -> S]
    <3> HIDE DEF t
    <3> QED BY <1>3, <1>4
  <2> HIDE DEF t, S
  <2> QED BY <1>1, <2>1, FunIsSeq
<1>6. DOMAIN t = 1 .. k
  BY <1>3
<1>7. \A i \in 1 .. k : t[i] = s[kept[i]] /\ kept[i] \in K
  BY <1>2, <1>3
<1> HIDE DEF t
<1>8. ASSUME NEW i \in 1 .. k PROVE \E n \in K : t[i] = s[n]
  BY <1>7
<1>9. ASSUME NEW n \in K PROVE \E i \in 1 .. k : t[i] = s[n]
  BY <1>2, <1>7
<1>10. Len(t) \in Nat /\ 1 .. Len(t) = 1 .. k
  BY <1>1, <1>5
<1> QED BY <1>5, <1>6, <1>8, <1>9, <1>10 DEF t

-----------------------------------------------------------------------------
(* The candidates                                                          *)

Rising(Q) == {p \in Q \X Q : p[1].id < p[2].id}

\* Rows that are told apart by their ids, in the order of these.
LEMMA IdOrder ==
    ASSUME NEW Q, IsFiniteSet(Q), \A r \in Q : r.id \in Int,
           \A r, s \in Q : r.id = s.id => r = s
    PROVE  LET q == InOrder(Q, ById)
           IN  /\ Cardinality(Q) \in Nat /\ DOMAIN q = 1 .. Cardinality(Q)
               /\ q \in Seq(Q) /\ IsSeq(q) /\ Len(q) = Cardinality(Q) /\ Range(q) = Q
               /\ \A i, j \in 1 .. Cardinality(Q) : q[i].id < q[j].id <=> i < j
<1> DEFINE R == Rising(Q)
           k == Cardinality(Q)
           q == InOrder(Q, ById)
           at(n) == CHOOSE x \in Q : Cardinality({y \in Q : y.id < x.id}) = n - 1
<1>1. k \in Nat
  BY FS_CardinalityType
<1>3. ASSUME NEW x \in Q, NEW y \in Q PROVE <<x, y>> \in R <=> x.id < y.id
  BY DEF Rising
<1>4. OrderedBy(R, Q)
  <2>1. ASSUME NEW x \in Q PROVE <<x, x>> \notin R
    BY <1>3
  <2>2. ASSUME NEW x \in Q, NEW y \in Q PROVE x = y \/ <<x, y>> \in R \/ <<y, x>> \in R
    <3>1. x.id \in Int /\ y.id \in Int /\ (x.id = y.id => x = y)
      OBVIOUS
    <3> QED BY <1>3, <3>1
  <2>3. ASSUME NEW x \in Q, NEW y \in Q, NEW z \in Q, <<x, y>> \in R, <<y, z>> \in R
        PROVE  <<x, z>> \in R
    <3>1. x.id \in Int /\ y.id \in Int /\ z.id \in Int
      OBVIOUS
    <3> QED BY <1>3, <2>3, <3>1
  <2> HIDE DEF R
  <2> QED BY <2>1, <2>2, <2>3 DEF OrderedBy
<1>5. ASSUME NEW x \in Q PROVE RankIn(R, Q, x) = Cardinality({y \in Q : y.id < x.id})
  <2>1. {y \in Q : <<y, x>> \in R} = {y \in Q : y.id < x.id}
    BY <1>3
  <2> QED BY <2>1 DEF RankIn
<1>6. q = [n \in 1 .. k |-> at(n)]
  BY DEF InOrder, ById
<1>7. ASSUME NEW n \in 1 .. k PROVE q[n] \in Q /\ RankIn(R, Q, q[n]) = n - 1
  <2>1. n - 1 \in 0 .. k - 1
    <3> HIDE DEF k
    <3> QED BY <1>1
  <2>2. \E x \in Q : RankIn(R, Q, x) = n - 1
    <3>1. \A j \in 0 .. k - 1 : \E x \in Q : RankIn(R, Q, x) = j
      <4> HIDE DEF R
      <4> QED BY <1>1, <1>4, Ranks
    <3> HIDE DEF R, k
    <3> QED BY <2>1, <3>1
  <2>3. \E x \in Q : Cardinality({y \in Q : y.id < x.id}) = n - 1
    <3> HIDE DEF R
    <3> QED BY <2>2, <1>5
  <2>4. q[n] = CHOOSE x \in Q : Cardinality({y \in Q : y.id < x.id}) = n - 1
    <3>1. q[n] = at(n)
      <4> HIDE DEF q, at, k
      <4> QED BY <1>6
    <3> QED BY <3>1
  <2> HIDE DEF q, R
  <2>5. q[n] \in Q /\ Cardinality({y \in Q : y.id < q[n].id}) = n - 1
    BY <2>3, <2>4
  <2> QED BY <2>5, <1>5
<1>8. q = [n \in 1 .. k |-> q[n]]
  <2> HIDE DEF q, at
  <2> QED BY <1>6
<1> HIDE DEF q, R
<1>9. /\ q \in Seq(Q) /\ IsSeq(q) /\ Len(q) = k /\ Range(q) = Q
      /\ \A i, j \in 1 .. k : <<q[i], q[j]>> \in R <=> i < j
  BY <1>1, <1>4, <1>7, <1>8, ByRank
<1>10. \A i, j \in 1 .. k : q[i].id < q[j].id <=> i < j
  BY <1>3, <1>7, <1>9
<1>11. DOMAIN q = 1 .. k
  <2> HIDE DEF k, at
  <2> QED BY <1>6
<1> QED BY <1>1, <1>9, <1>10, <1>11 DEF q

\* The rows the catalogue query leaves: finitely many, one of each id.
LEMMA QueryRows ==
    ASSUME NEW s \in Shops
    PROVE  LET Q == CatalogueQuery(s.rows)
           IN  /\ IsFiniteSet(Q)
               /\ \A r \in Q : /\ r.id \in Int /\ r.price \in Int /\ \A d \in r.discount : d \in Int
                               /\ \E q \in s.rows : /\ IsRecommendationEligible(q)
                                                    /\ r.id = q.id /\ r.colours \subseteq q.colours
               /\ \A r, q \in Q : r.id = q.id => r = q
<1> DEFINE E == {q \in s.rows : IsRecommendationEligible(q)}
           cut(r) == [r EXCEPT !.colours = {c \in r.colours : c.stock > 0}, !.enrichment = Confirmed(r)]
           f == [r \in E |-> cut(r)]
           Q == CatalogueQuery(s.rows)
<1>1. Q = {cut(r) : r \in E}
  BY DEF CatalogueQuery
<1>2. IsFiniteSet(E)
  <2>1. E \in SUBSET s.rows /\ IsFiniteSet(s.rows)
    BY ShopAssumption
  <2> HIDE DEF E
  <2> QED BY <2>1, FS_Subset
<1>3. ASSUME NEW r \in E
      PROVE  /\ cut(r).id = r.id /\ cut(r).price = r.price /\ cut(r).discount = r.discount
             /\ cut(r).colours \subseteq r.colours
             /\ r \in s.rows /\ r.id \in Int /\ r.price \in Int /\ \A d \in r.discount : d \in Int
  <2>1. {"id", "category", "materials", "price", "discount"} \subseteq DOMAIN r
    BY ShopAssumption DEF RowColumns
  <2>2. r.id \in Int /\ r.price \in Int /\ \A d \in r.discount : d \in Int
    BY ShopAssumption
  <2>3. cut(r).id = r.id /\ cut(r).price = r.price /\ cut(r).discount = r.discount
    BY <2>1
  <2>4. cut(r).colours \subseteq r.colours
    OBVIOUS
  <2> QED BY <2>2, <2>3, <2>4
<1> HIDE DEF cut
<1>4. IsFiniteSet(Q)
  <2>1. f \in Surjection(E, Q)
    <3>1. f \in [E -> Q] /\ \A r \in Q : \E e \in E : f[e] = r
      BY <1>1
    <3> HIDE DEF f, E, Q
    <3> QED BY <3>1 DEF Surjection
  <2> HIDE DEF f, E, Q
  <2> QED BY <2>1, <1>2, FS_Surjection
<1>5. ASSUME NEW r \in Q, NEW q \in Q, r.id = q.id PROVE r = q
  <2>1. PICK a \in E : r = cut(a)
    BY <1>1
  <2>2. PICK b \in E : q = cut(b)
    BY <1>1
  <2>3. a.id = b.id /\ a \in s.rows /\ b \in s.rows
    BY <2>1, <2>2, <1>3, <1>5
  <2>4. a = b
    BY <2>3, ShopAssumption
  <2> QED BY <2>1, <2>2, <2>4
<1>6. ASSUME NEW r \in Q
      PROVE  /\ r.id \in Int /\ r.price \in Int /\ \A d \in r.discount : d \in Int
             /\ \E q \in s.rows : /\ IsRecommendationEligible(q)
                                  /\ r.id = q.id /\ r.colours \subseteq q.colours
  <2>1. PICK a \in E : r = cut(a)
    BY <1>1
  <2> QED BY <2>1, <1>3
<1> HIDE DEF Q
<1> QED BY <1>4, <1>5, <1>6 DEF Q

\* The beginning of a sequence.
LEMMA FirstOnes ==
    ASSUME NEW S, NEW s \in Seq(S), NEW n \in Int, n <= Len(s)
    PROVE  SubSeq(s, 1, n) \in Seq(S)
<1>1. Len(s) \in Nat /\ s \in [1 .. Len(s) -> S]
  BY LenProperties
<1>2. \A i \in 1 .. n : s[i] \in S
  BY <1>1
<1>3. 1 \in Int
  OBVIOUS
<1> QED BY <1>2, <1>3, SubSeqProperties

\* The rows a search or a room starts from are rows of the query, one after the other.
LEMMA CandidateRowFacts ==
    ASSUME shop \in Shops
    PROVE  /\ IsSeq(CandidateRows) /\ Len(CandidateRows) \in Nat
           /\ DOMAIN CandidateRows = 1 .. Len(CandidateRows)
           /\ \A i \in 1 .. Len(CandidateRows) : CandidateRows[i] \in CatalogueQuery(shop.rows)
           /\ DOMAIN Candidates = 1 .. Len(CandidateRows)
           /\ \A i \in 1 .. Len(CandidateRows) : Candidates[i] = NormalizeProduct(CandidateRows[i])
<1> DEFINE Q == CatalogueQuery(shop.rows)
           found == InOrder(Q, ById)
           last == IF Len(found) < 0 + CANDIDATE_LIMIT + 1 THEN Len(found) ELSE 0 + CANDIDATE_LIMIT + 1
           first == SubSeq(Products, 1, MinOf(Len(Products), CANDIDATE_LIMIT))
           K == {i \in DOMAIN first : IsRecommendationEligible(first[i])}
<1>1. /\ IsFiniteSet(Q) /\ \A r \in Q : r.id \in Int
      /\ \A r, q \in Q : r.id = q.id => r = q
  BY QueryRows
<1>2. found \in Seq(Q)
  <2> HIDE DEF Q
  <2> QED BY <1>1, IdOrder
<1>3. Products \in Seq(Q)
  <2>1. Products = SubSeq(found, 1, last)
    BY DEF Products, ListProducts
  <2>2. last \in Int /\ last <= Len(found)
    <3>1. Len(found) \in Nat
      <4> HIDE DEF found, Q
      <4> QED BY <1>2, LenProperties
    <3> HIDE DEF found
    <3> QED BY <3>1, LimitAssumption
  <2> HIDE DEF found, last, Q
  <2> QED BY <2>1, <2>2, <1>2, FirstOnes
<1>4. first \in Seq(Q)
  <2>1. Len(Products) \in Nat
    <3> HIDE DEF Q
    <3> QED BY <1>3, LenProperties
  <2>2. MinOf(Len(Products), CANDIDATE_LIMIT) \in Int /\ MinOf(Len(Products), CANDIDATE_LIMIT) <= Len(Products)
    BY <2>1, LimitAssumption DEF MinOf
  <2> HIDE DEF Q
  <2> QED BY <2>2, <1>3, FirstOnes
<1>5. CandidateRows = Taken(first, K)
  BY DEF CandidateRows, Passing, Taken
<1>6. Len(first) \in Nat /\ DOMAIN first = 1 .. Len(first) /\ \A i \in 1 .. Len(first) : first[i] \in Q
  <2> HIDE DEF first, Q
  <2> QED BY <1>4, LenProperties
<1>7. /\ IsSeq(CandidateRows) /\ DOMAIN CandidateRows = 1 .. Len(CandidateRows) /\ Len(CandidateRows) \in Nat
      /\ \A i \in 1 .. Len(CandidateRows) : \E n \in K : CandidateRows[i] = first[n]
  <2>1. K \in SUBSET (1 .. Len(first))
    BY <1>6
  <2>2. IsFiniteSet(K) /\ \A x \in K : x \in Int
    <3>1. \A x \in K : x \in Int
      BY <2>1
    <3> HIDE DEF K, first
    <3> QED BY <2>1, <3>1, <1>6, PartOfInterval
  <2> HIDE DEF K, first
  <2> DEFINE t == Taken(first, K)
  <2>3. /\ IsSeq(t) /\ DOMAIN t = 1 .. Len(t) /\ Len(t) \in Nat
        /\ \A i \in 1 .. Len(t) : \E n \in K : t[i] = first[n]
    BY <2>2, TakenFacts
  <2> HIDE DEF t
  <2> QED BY <2>3, <1>5 DEF t
<1>8. \A i \in 1 .. Len(CandidateRows) : CandidateRows[i] \in Q
  <2> HIDE DEF first, Q
  <2> QED BY <1>6, <1>7
<1>9. Candidates = [i \in 1 .. Len(CandidateRows) |-> NormalizeProduct(CandidateRows[i])]
  BY <1>7 DEF Candidates
<1> QED BY <1>7, <1>8, <1>9

\* The candidates of a search or a room are those rows, normalised.
LEMMA CandidateFacts ==
    ASSUME shop \in Shops
    PROVE  /\ IsFiniteSet(Range(Candidates))
           /\ \A p \in Range(Candidates) : \E r \in CatalogueQuery(shop.rows) : p = NormalizeProduct(r)
<1> DEFINE Q == CatalogueQuery(shop.rows)
<1>1. IsFiniteSet(Q)
  BY QueryRows
<1> DEFINE P == {NormalizeProduct(r) : r \in Q}
           f == [r \in Q |-> NormalizeProduct(r)]
<1>9. IsFiniteSet(P)
  <2>1. f \in Surjection(Q, P)
    <3>1. f \in [Q -> P] /\ \A p \in P : \E r \in Q : f[r] = p
      OBVIOUS
    <3> HIDE DEF f, Q, P
    <3> QED BY <3>1 DEF Surjection
  <2> HIDE DEF f, Q, P
  <2> QED BY <2>1, <1>1, FS_Surjection
<1>10. Candidates = [i \in 1 .. Len(CandidateRows) |-> NormalizeProduct(CandidateRows[i])]
  BY CandidateRowFacts DEF Candidates
<1>11. ASSUME NEW p \in Range(Candidates) PROVE \E r \in Q : p = NormalizeProduct(r)
  <2>1. PICK i \in 1 .. Len(CandidateRows) : p = NormalizeProduct(CandidateRows[i])
    BY <1>10 DEF Range
  <2> QED BY <2>1, CandidateRowFacts
<1>12. Range(Candidates) \in SUBSET P
  <2> HIDE DEF Q
  <2> QED BY <1>11
<1>13. IsFiniteSet(Range(Candidates))
  <2> HIDE DEF P
  <2> QED BY <1>9, <1>12, FS_Subset
<1> QED BY <1>11, <1>13

\* What the planner uses of a candidate.
LEMMA NormalizedFacts ==
    ASSUME NEW s \in Shops, NEW r \in CatalogueQuery(s.rows)
    PROVE  LET p == NormalizeProduct(r)
           IN  /\ p.id = r.id /\ p.id \in Int /\ p.price \in Int /\ p.tags = {}
               /\ \A c \in p.colours : \E d \in r.colours :
                     c.slug = Lookup(COLOURS, d.label) /\ c.stock = d.stock
<1> DEFINE p == NormalizeProduct(r)
<1>1. r.id \in Int /\ r.price \in Int /\ \A d \in r.discount : d \in Int
  BY QueryRows
<1>2. EffectivePrice(r) \in Int
  <2>1. CASE \E d \in r.discount : d < r.price
    <3>1. (CHOOSE d \in r.discount : TRUE) \in r.discount
      BY <2>1
    <3> QED BY <2>1, <3>1, <1>1 DEF EffectivePrice
  <2>2. CASE ~ \E d \in r.discount : d < r.price
    BY <2>2, <1>1 DEF EffectivePrice
  <2> QED BY <2>1, <2>2
<1>3. p.id = r.id /\ p.price = EffectivePrice(r) /\ p.tags = {}
      /\ p.colours = {[slug |-> Lookup(COLOURS, c.label), stock |-> c.stock] : c \in r.colours}
  BY DEF NormalizeProduct
<1> HIDE DEF p
<1>4. ASSUME NEW c \in p.colours
      PROVE \E d \in r.colours : c.slug = Lookup(COLOURS, d.label) /\ c.stock = d.stock
  <2>1. PICK d \in r.colours : c = [slug |-> Lookup(COLOURS, d.label), stock |-> d.stock]
    BY <1>3
  <2> QED BY <2>1
<1> QED BY <1>1, <1>2, <1>3, <1>4 DEF p

\* A candidate is told by its id.
LEMMA CandidateIds ==
    ASSUME shop \in Shops
    PROVE  \A p, q \in Range(Candidates) : p.id = q.id => p = q
<1> SUFFICES ASSUME NEW p \in Range(Candidates), NEW q \in Range(Candidates), p.id = q.id PROVE p = q
  OBVIOUS
<1>1. PICK r \in CatalogueQuery(shop.rows) : p = NormalizeProduct(r)
  BY CandidateFacts
<1>2. PICK s \in CatalogueQuery(shop.rows) : q = NormalizeProduct(s)
  BY CandidateFacts
<1>3. p.id = r.id /\ q.id = s.id
  BY <1>1, <1>2, NormalizedFacts
<1>4. r = s
  BY <1>3, QueryRows
<1> QED BY <1>1, <1>2, <1>4

-----------------------------------------------------------------------------
(* From the request to the slots                                           *)

\* A label resolves to a term of the vocabulary or to none.
LEMMA LookupFacts ==
    ASSUME NEW V, IsFiniteSet(V), NEW l
    PROVE  Lookup(V, l) \in Slugs(V) \cup {Unmapped}
<1> DEFINE named == {t \in V : t.surfaces \cap l # {}}
<1>1. CASE Cardinality(named) = 1
  <2>1. named \in SUBSET V
    OBVIOUS
  <2>2. named # {}
    <3> HIDE DEF named
    <3>1. IsFiniteSet(named)
      BY <2>1, FS_Subset
    <3> QED BY <3>1, <1>1, FS_EmptySet
  <2>3. (CHOOSE t \in named : TRUE) \in V
    BY <2>1, <2>2
  <2>4. Lookup(V, l) = (CHOOSE t \in named : TRUE).slug
    BY <1>1 DEF Lookup
  <2> HIDE DEF named
  <2> QED BY <2>3, <2>4 DEF Slugs
<1>2. CASE Cardinality(named) # 1
  BY <1>2 DEF Lookup
<1> QED BY <1>1, <1>2

LEMMA ResolvedFinite ==
    ASSUME NEW V, IsFiniteSet(V), NEW labels
    PROVE  IsFiniteSet(Resolved(V, labels))
<1> DEFINE f == [t \in V |-> t.slug]
<1>1. IsFiniteSet(Slugs(V))
  <2>1. DOMAIN f = V /\ f = [t \in DOMAIN f |-> f[t]] /\ Slugs(V) = {f[t] : t \in DOMAIN f}
    BY DEF Slugs
  <2> HIDE DEF f
  <2> QED BY <2>1, FiniteImage
<1>2. Resolved(V, labels) \in SUBSET Slugs(V)
  BY LookupFacts DEF Resolved
<1> QED BY <1>1, <1>2, FS_Subset

\* A nonempty finite set of integers has a smallest member, which Min returns.
LEMMA MinFacts ==
    ASSUME NEW K, IsFiniteSet(K), \A x \in K : x \in Int, K # {}
    PROVE  Min(K) \in K /\ \A x \in K : Min(K) <= x
<1> DEFINE q == InOrder(K, <)
           k == Cardinality(K)
<1>1. /\ k \in Nat /\ Len(q) = k /\ Range(q) = K /\ q \in Seq(K)
      /\ \A i, j \in 1 .. k : q[i] < q[j] <=> i < j
  BY IndexOrder
<1>2. k # 0
  BY FS_EmptySet
<1>3. \A e : e \in K <=> \E i \in 1 .. k : e = q[i]
  <2> HIDE DEF q
  <2> QED BY <1>1, SeqFacts
<1>4. 1 \in 1 .. k /\ q[1] \in K
  <2> HIDE DEF q, k
  <2> QED BY <1>1, <1>2, <1>3
<1>5. ASSUME NEW x \in K PROVE q[1] <= x
  <2>1. PICK i \in 1 .. k : x = q[i]
    BY <1>3
  <2>2. ~(q[i] < q[1])
    <3> HIDE DEF q
    <3> QED BY <1>1, <1>4, <2>1
  <2>3. x \in Int /\ q[1] \in Int
    BY <1>4
  <2> HIDE DEF q
  <2> QED BY <2>1, <2>2, <2>3
<1>6. \E x \in K : \A y \in K : x <= y
  <2> HIDE DEF q
  <2> QED BY <1>4, <1>5
<1> QED BY <1>6 DEF Min

\* A sum of one.
LEMMA SumOne == ASSUME NEW f, NEW x, f[x] \in Int PROVE Sum(f, {x}) = f[x]
<1>1. IsFiniteSet({x}) /\ {x} # {}
  BY FS_Singleton
<1>2. Pick({x}) = x
  BY DEF Pick
<1>3. Sum(f, {x}) = f[x] + Sum(f, {x} \ {x})
  BY <1>1, <1>2, SumPick
<1>4. Sum(f, {x} \ {x}) = 0
  <2>1. {x} \ {x} = {}
    OBVIOUS
  <2> QED BY <2>1, SumEmpty
<1> QED BY <1>3, <1>4

\* Finitely many lists of finitely many entries have finitely many entries.
LEMMA SpreadFinite ==
    ASSUME NEW lists, IsFiniteSet(DOMAIN lists), \A i \in DOMAIN lists : IsFiniteSet(DOMAIN lists[i])
    PROVE  IsFiniteSet(DOMAIN Spread(lists))
<1> DEFINE f == [i \in DOMAIN lists |-> {i} \X DOMAIN lists[i]]
           rows == {f[i] : i \in DOMAIN f}
<1>1. DOMAIN Spread(lists) = UNION rows
  BY DEF Spread
<1>2. DOMAIN f = DOMAIN lists /\ f = [i \in DOMAIN f |-> f[i]]
  OBVIOUS
<1>3. \A W \in rows : IsFiniteSet(W)
  <2>1. ASSUME NEW i \in DOMAIN lists PROVE IsFiniteSet({i} \X DOMAIN lists[i])
    BY FS_Singleton, FS_Product
  <2> QED BY <2>1
<1> HIDE DEF f
<1>4. IsFiniteSet(rows)
  BY <1>2, FiniteImage
<1> HIDE DEF rows
<1> QED BY <1>1, <1>3, <1>4, FS_UNION

\* Words that are finitely many, said at whatever places.
Sayable(query) == \A words \in query : IsFiniteSet(DOMAIN words)

\* A turn scores finitely many words.
LEMMA TurnWords ==
    ASSUME request \in Requests, request.kind \in {"room", "search"}, NEW t \in Turns
    PROVE  IsFiniteSet(DOMAIN t.query)
<1> DEFINE history == request.history
           messages == Append(history, request.message)
           n == Len(messages)
           size(k) == SumOf([i \in k .. n |-> messages[i].size + 1]) - 1
           K == {k \in DOMAIN messages : size(k) <= MAX_TEXT_LENGTH}
           lists == [i \in Min(K) .. n |-> messages[i].words]
           r == [prompt |-> messages, query |-> Spread(lists)]
<1>1. /\ \A i \in DOMAIN messages : ValidateQuery(messages[i])
      /\ t.query = Spread(lists)
  <2> DEFINE bad == Len(history) > MAX_HISTORY \/ \E i \in DOMAIN messages : ~ ValidateQuery(messages[i])
  <2>1. Turns = IF bad THEN {} ELSE {r}
    BY DEF Turns, Conversation
  <2>2. ~bad /\ t = r
    <3> HIDE DEF bad, r
    <3> QED BY <2>1
  <2>3. t.query = Spread(lists)
    <3>1. r.query = Spread(lists)
      <4> HIDE DEF lists
      <4> QED OBVIOUS
    <3> HIDE DEF r, lists
    <3> QED BY <2>2, <3>1
  <2> HIDE DEF r, lists
  <2> QED BY <2>2, <2>3
<1>2. IsSeq(history) /\ \A m \in Range(history) \cup {request.message} : IsSeq(m.words)
  BY RequestAssumption DEF IsSeq
<1>3. /\ IsSeq(messages) /\ Range(messages) = Range(history) \cup {request.message}
      /\ n = Len(history) + 1
  <2> HIDE DEF history
  <2> QED BY <1>2, AppendFacts
<1>4. /\ n \in Nat /\ DOMAIN messages = 1 .. n
      /\ \A e : e \in Range(messages) <=> \E i \in 1 .. n : e = messages[i]
  <2>1. messages \in Seq(Range(messages))
    BY <1>3 DEF IsSeq
  <2> HIDE DEF messages
  <2> QED BY <2>1, SeqFacts
<1>5. n # 0
  <2>1. Len(history) \in Nat
    <3>1. history \in Seq(Range(history))
      BY <1>2 DEF IsSeq
    <3> HIDE DEF history
    <3> QED BY <3>1, LenProperties
  <2> HIDE DEF messages, history
  <2> QED BY <1>3, <2>1
<1>6. n \in K
  <2> DEFINE f == [i \in n .. n |-> messages[i].size + 1]
             w == messages[n].size
  <2>1. n \in 1 .. n
    <3> HIDE DEF messages
    <3> QED BY <1>4, <1>5
  <2>2. w \in 1 .. 500
    <3> HIDE DEF messages
    <3> QED BY <1>1, <1>4, <2>1 DEF ValidateQuery, MAX_TEXT_LENGTH
  <2>3. DOMAIN f = {n} /\ f[n] = w + 1
    <3>1. n .. n = {n}
      <4> HIDE DEF messages
      <4> QED BY <1>4
    <3> HIDE DEF messages
    <3> QED BY <3>1
  <2> HIDE DEF f, w
  <2>4. f[n] \in Int /\ f[n] - 1 <= 500
    BY <2>2, <2>3
  <2>5. SumOf(f) = f[n]
    <3>1. IsFiniteSet(DOMAIN f)
      BY <2>3, FS_Singleton
    <3>2. SumOf(f) = Sum(f, {n})
      <4> HIDE DEF messages
      <4> QED BY <2>3, <3>1, SumOfIs
    <3> HIDE DEF messages
    <3> QED BY <3>2, <2>4, SumOne
  <2>6. size(n) <= MAX_TEXT_LENGTH
    BY <2>4, <2>5 DEF f, MAX_TEXT_LENGTH
  <2>7. n \in DOMAIN messages
    BY <2>1, <1>4
  <2> HIDE DEF size
  <2> QED BY <2>6, <2>7
<1>7. K \in SUBSET (1 .. n)
  BY <1>4
<1> HIDE DEF K
<1>8. Min(K) \in 1 .. n
  <2>1. IsFiniteSet(K)
    <3> HIDE DEF messages
    <3> QED BY <1>7, <1>4, PartOfInterval
  <2>2. \A x \in K : x \in Int
    <3> HIDE DEF messages
    <3> QED BY <1>7
  <2>3. Min(K) \in K
    BY <2>1, <2>2, <1>6, MinFacts
  <2> QED BY <2>3, <1>7
<1> DEFINE a == Min(K)
<1> HIDE DEF a
<1>9. DOMAIN lists = a .. n /\ \A i \in a .. n : lists[i] = messages[i].words
  BY DEF a
<1>10. IsFiniteSet(DOMAIN lists)
  <2>1. a \in Int /\ n \in Int
    BY <1>8, <1>4 DEF a
  <2> HIDE DEF messages, lists
  <2> QED BY <2>1, <1>9, FS_Interval
<1>11. ASSUME NEW i \in a .. n PROVE IsFiniteSet(DOMAIN messages[i].words)
  <2>1. i \in 1 .. n
    <3> HIDE DEF messages
    <3> QED BY <1>8, <1>4 DEF a
  <2>2. messages[i] \in Range(messages)
    <3> HIDE DEF messages
    <3> QED BY <2>1, <1>4
  <2> DEFINE m == messages[i]
             said == m.words
  <2> HIDE DEF messages, m
  <2>3. m \in Range(history) \cup {request.message}
    BY <2>2, <1>3 DEF m
  <2>4. IsSeq(said)
    BY <2>3, <1>2
  <2> HIDE DEF said
  <2>5. Len(said) \in Nat /\ DOMAIN said = 1 .. Len(said)
    BY <2>4, LenProperties DEF IsSeq
  <2>6. IsFiniteSet(DOMAIN said)
    BY <2>5, FS_Interval
  <2> QED BY <2>6 DEF m, said
<1> HIDE DEF lists, messages
<1>12. IsFiniteSet(DOMAIN Spread(lists))
  BY <1>9, <1>10, <1>11, SpreadFinite
<1> QED BY <1>1, <1>12

\* Finitely many amounts of money.
Amounts(B) == IsFiniteSet(B) /\ \A b \in B : b \in Int

LEMMA UsableAmounts == ASSUME NEW B, UsableBudget(B) PROVE Amounts(B)
<1>1. B \in SUBSET (1 .. MAX_PRICE)
  BY DEF UsableBudget
<1>2. MAX_PRICE \in Nat
  BY DEF MAX_PRICE
<1>3. \A b \in B : b \in Int
  <2> HIDE DEF MAX_PRICE
  <2> QED BY <1>1, <1>2
<1>4. IsFiniteSet(B)
  <2> HIDE DEF MAX_PRICE
  <2> QED BY <1>1, <1>2, PartOfInterval
<1> QED BY <1>3, <1>4 DEF Amounts

\* What the score of a candidate needs of the preferences.
Tame(soft) ==
    /\ soft = [colours |-> soft.colours, materials |-> {}, styles |-> soft.styles, feels |-> {},
               room |-> soft.room, width |-> {}, height |-> {}, depth |-> {}, price |-> {}]
    /\ IsFiniteSet(soft.styles) /\ IsFiniteSet(soft.room)

SlotOk(slot) == slot.quantity \in Nat /\ Amounts(slot.budget) /\ Tame(slot.soft)

LEMMA MergedAmounts ==
    ASSUME NEW mentions, IsFiniteSet(DOMAIN mentions),
           \A i \in DOMAIN mentions : Amounts(mentions[i].budget)
    PROVE  Amounts(MergedBudget(mentions))
<1> DEFINE f == [i \in DOMAIN mentions |-> CHOOSE b \in mentions[i].budget : TRUE]
<1>1. CASE \A i \in DOMAIN mentions : mentions[i].budget # {}
  <2>1. \A i \in DOMAIN f : f[i] \in Int
    <3>1. ASSUME NEW i \in DOMAIN mentions PROVE f[i] \in Int
      <4>1. mentions[i].budget # {} /\ \A b \in mentions[i].budget : b \in Int
        BY <1>1 DEF Amounts
      <4>2. f[i] = CHOOSE b \in mentions[i].budget : TRUE
        OBVIOUS
      <4> HIDE DEF f
      <4> QED BY <4>1, <4>2
    <3> QED BY <3>1
  <2>2. DOMAIN f = DOMAIN mentions
    OBVIOUS
  <2>3. MergedBudget(mentions) = {SumOf(f)}
    BY <1>1 DEF MergedBudget
  <2> HIDE DEF f
  <2>4. SumOf(f) \in Int
    <3>1. SumOf(f) = Sum(f, DOMAIN f)
      BY <2>2, SumOfIs
    <3> QED BY <3>1, <2>1, <2>2, SumInt
  <2> DEFINE x == SumOf(f)
  <2> HIDE DEF x
  <2>5. IsFiniteSet({x}) /\ \A b \in {x} : b \in Int
    BY <2>4, FS_Singleton DEF x
  <2> QED BY <2>3, <2>5 DEF Amounts, x
<1>2. CASE ~ \A i \in DOMAIN mentions : mentions[i].budget # {}
  BY <1>2, FS_EmptySet DEF MergedBudget, Amounts
<1> QED BY <1>1, <1>2

\* The vocabularies are finite.
LEMMA FiniteVocabularies == IsFiniteSet(STYLES) /\ IsFiniteSet(ROOM_TYPES)
  BY FinitePair DEF STYLES, ROOM_TYPES

LEMMA SlotOfOk ==
    ASSUME NEW draft, IsSeq(draft.items), ValidRoomDraft(draft), NEW slug,
           \A i \in DOMAIN draft.items :
               Resolved(CATEGORIES, draft.items[i].category) = {slug} => UsableBudget(draft.items[i].budget)
    PROVE  SlotOk(SlotOf(slug, draft.items, draft))
<1> DEFINE items == draft.items
           same == Mentions(slug, items)
           f == [i \in same |-> items[i].quantity]
           g == [i \in same |-> items[i]]
           slot == SlotOf(slug, items, draft)
           lists == [i \in same \cup {Len(items) + 1} |->
                        IF i \in same THEN items[i].colours ELSE draft.colours]
           colours == FirstTerms(COLOURS, lists)
<1>1. /\ slot.quantity = SumOf(f) /\ slot.budget = MergedBudget(g)
      /\ slot.soft = [NoSoft EXCEPT !.styles = Resolved(STYLES, draft.styles),
                                    !.room = Resolved(ROOM_TYPES, draft.room), !.colours = colours]
  BY DEF SlotOf
<1>0. \A i \in same : i \in DOMAIN items /\ Resolved(CATEGORIES, items[i].category) = {slug}
  BY DEF Mentions
<1>2. IsFiniteSet(same)
  <2>1. Len(items) \in Nat /\ DOMAIN items = 1 .. Len(items)
    <3>1. items \in Seq(Range(items))
      BY DEF IsSeq
    <3> HIDE DEF items
    <3> QED BY <3>1, LenProperties
  <2>2. same \in SUBSET (1 .. Len(items))
    BY <2>1, <1>0
  <2> HIDE DEF same, items
  <2> QED BY <2>1, <2>2, PartOfInterval
<1>3. slot.quantity \in Nat
  <2>1. DOMAIN f = same
    OBVIOUS
  <2>2. \A i \in same : f[i] \in Int /\ 0 <= f[i]
    <3>1. ASSUME NEW i \in same PROVE f[i] \in Int /\ 0 <= f[i]
      <4>1. items[i].quantity \in 1 .. 10
        BY <1>0 DEF ValidRoomDraft, MAX_QUANTITY
      <4>2. f[i] = items[i].quantity
        OBVIOUS
      <4> HIDE DEF f
      <4> QED BY <4>1, <4>2
    <3> QED BY <3>1
  <2> HIDE DEF f, same, slot
  <2>3. Sum(f, same) \in Int /\ 0 <= Sum(f, same)
    BY <1>2, <2>2, SumZero
  <2>4. SumOf(f) = Sum(f, same)
    BY <1>2, <2>1, SumOfIs
  <2> DEFINE x == SumOf(f)
  <2>5. x \in Nat
    BY <2>3, <2>4
  <2> HIDE DEF x
  <2> QED BY <1>1, <2>5 DEF x
<1>4. Amounts(slot.budget)
  <2>1. DOMAIN g = same /\ \A i \in DOMAIN g : Amounts(g[i].budget)
    <3>1. ASSUME NEW i \in same PROVE Amounts(g[i].budget)
      <4>1. UsableBudget(items[i].budget) /\ g[i] = items[i]
        BY <1>0
      <4> HIDE DEF g
      <4> QED BY <4>1, UsableAmounts
    <3> QED BY <3>1
  <2> HIDE DEF g, slot
  <2> QED BY <1>1, <1>2, <2>1, MergedAmounts
<1>5. Tame(slot.soft)
  <2> DEFINE styles == Resolved(STYLES, draft.styles)
             room == Resolved(ROOM_TYPES, draft.room)
  <2>1. IsFiniteSet(styles) /\ IsFiniteSet(room)
    BY FiniteVocabularies, ResolvedFinite
  <2>2. slot.soft = [NoSoft EXCEPT !.styles = styles, !.room = room, !.colours = colours]
    BY <1>1
  <2> HIDE DEF slot, styles, room, colours
  <2>3. slot.soft = [colours |-> colours, materials |-> {}, styles |-> styles, feels |-> {},
                     room |-> room, width |-> {}, height |-> {}, depth |-> {}, price |-> {}]
    BY <2>2 DEF NoSoft
  <2> QED BY <2>1, <2>3 DEF Tame
<1> HIDE DEF slot
<1> QED BY <1>3, <1>4, <1>5 DEF SlotOk, slot

\* What is planned for: slots in a sequence, amounts of money, finitely many words.
SpecOk(s) ==
    /\ IsSeq(s.slots) /\ \A slot \in Range(s.slots) : SlotOk(slot)
    /\ Amounts(s.budget) /\ Sayable(s.query)

LEMMA MentionDomain ==
    ASSUME NEW items, IsSeq(items)
    PROVE  \E k \in Nat : DOMAIN MentionOrder(items) = 1 .. k
<1> DEFINE slug(i) == Resolved(CATEGORIES, items[i].category)
           first == {i \in DOMAIN items : slug(i) # {} /\ \A j \in 1 .. i - 1 : slug(j) # slug(i)}
           order == InOrder(first, <)
           k == Cardinality(first)
<1>1. Len(items) \in Nat /\ DOMAIN items = 1 .. Len(items)
  <2>1. items \in Seq(Range(items))
    BY DEF IsSeq
  <2> QED BY <2>1, LenProperties
<1>2. first \in SUBSET (1 .. Len(items))
  BY <1>1
<1>3. DOMAIN MentionOrder(items) = DOMAIN order
  BY DEF MentionOrder
<1> HIDE DEF first
<1>4. IsFiniteSet(first) /\ \A x \in first : x \in Int
  <2>1. \A x \in first : x \in Int
    BY <1>1, <1>2
  <2> QED BY <1>1, <1>2, <2>1, PartOfInterval
<1>5. k \in Nat /\ DOMAIN order = 1 .. k
  BY <1>4, IndexOrder
<1> HIDE DEF order, k
<1> QED BY <1>3, <1>5

LEMMA WordsFinite ==
    ASSUME NEW words, IsFiniteSet(DOMAIN words) PROVE Sayable(ScoringQuery(words))
<1> DEFINE kept == {p \in DOMAIN words : words[p] \notin CountWords}
<1>1. DOMAIN Restrict(words, kept) = kept
  BY DEF Restrict
<1>2. IsFiniteSet(kept)
  BY FS_Subset
<1>3. ScoringQuery(words) = IF kept = {} THEN {words} ELSE {Restrict(words, kept)}
  BY DEF ScoringQuery
<1> HIDE DEF kept
<1> QED BY <1>1, <1>2, <1>3 DEF Sayable

LEMMA SpecFacts ==
    ASSUME request \in Requests, request.kind = "room", NEW t \in Turns,
           NEW s \in SpecificationFromRoomDraft(request.draft, t.query)
    PROVE  SpecOk(s)
<1> DEFINE draft == request.draft
           items == draft.items
           order == MentionOrder(items)
           slot(n) == SlotOf(order[n], items, draft)
           slots == [n \in DOMAIN order |-> slot(n)]
<1>1. /\ ValidRoomDraft(draft) /\ UsableBudget(draft.budget)
      /\ \A i \in DOMAIN items :
            Resolved(CATEGORIES, items[i].category) # {} => UsableBudget(items[i].budget)
      /\ s = [slots |-> slots, budget |-> draft.budget, query |-> ScoringQuery(t.query)]
  <2> DEFINE bad == \/ ~ ValidRoomDraft(draft)
                    \/ ~ UsableBudget(draft.budget)
                    \/ \E i \in DOMAIN items : /\ Resolved(CATEGORIES, items[i].category) # {}
                                               /\ ~ UsableBudget(items[i].budget)
                    \/ \E n \in DOMAIN slots : slots[n].quantity > MAX_QUANTITY
             r == [slots |-> slots, budget |-> draft.budget, query |-> ScoringQuery(t.query)]
  <2>1. SpecificationFromRoomDraft(draft, t.query) = IF bad THEN {} ELSE {r}
    BY DEF SpecificationFromRoomDraft
  <2>2. ~bad /\ s = r
    <3> HIDE DEF bad, r
    <3> QED BY <2>1
  <2> HIDE DEF slots
  <2> QED BY <2>2
<1>2. IsSeq(items)
  BY RequestAssumption DEF IsSeq
<1>3. ASSUME NEW slug PROVE SlotOk(SlotOf(slug, items, draft))
  <2>1. \A i \in DOMAIN items :
            Resolved(CATEGORIES, items[i].category) = {slug} => UsableBudget(items[i].budget)
    BY <1>1
  <2>2. IsSeq(draft.items)
    BY <1>2
  <2> HIDE DEF draft
  <2> QED BY <1>1, <2>1, <2>2, SlotOfOk
<1>4. PICK k \in Nat : DOMAIN order = 1 .. k
  BY <1>2, MentionDomain
<1>5. IsSeq(slots) /\ \A x \in Range(slots) : SlotOk(x)
  <2>1. DOMAIN slots = 1 .. k /\ \A n \in 1 .. k : SlotOk(slots[n])
    <3>1. \A n \in 1 .. k : slots[n] = SlotOf(order[n], items, draft)
      <4> HIDE DEF items, draft, order
      <4> QED BY <1>4
    <3>2. DOMAIN slots = 1 .. k
      BY <1>4
    <3> HIDE DEF items, draft, order, slots
    <3> QED BY <1>3, <3>1, <3>2
  <2> DEFINE S == Range(slots)
  <2>2. slots \in [1 .. k -> S]
    <3>1. slots = [n \in 1 .. k |-> slots[n]]
      BY <1>4
    <3> HIDE DEF slots
    <3>2. \A n \in 1 .. k : slots[n] \in Range(slots)
      BY <2>1 DEF Range
    <3> QED BY <2>1, <3>1, <3>2
  <2> HIDE DEF slots, S
  <2>3. /\ slots \in Seq(S) /\ IsSeq(slots) /\ Len(slots) = k
        /\ \A e : e \in Range(slots) <=> \E i \in 1 .. k : e = slots[i]
    BY <2>2, FunIsSeq
  <2> QED BY <2>1, <2>3
<1>6. Amounts(draft.budget)
  BY <1>1, UsableAmounts
<1>7. Sayable(ScoringQuery(t.query))
  BY TurnWords, WordsFinite
<1> DEFINE q == ScoringQuery(t.query)
           b == draft.budget
<1>8. s.slots = slots /\ s.budget = b /\ s.query = q
  <2>1. s = [slots |-> slots, budget |-> b, query |-> q]
    BY <1>1
  <2> HIDE DEF slots, b, q
  <2> QED BY <2>1
<1> HIDE DEF slots, q, b
<1>9. Sayable(q) /\ Amounts(b)
  BY <1>6, <1>7 DEF q, b
<1> QED BY <1>5, <1>8, <1>9 DEF SpecOk

-----------------------------------------------------------------------------
(* The score of a candidate is a number                                    *)

LEMMA RoundedInt == ASSUME NEW a \in Int, NEW b \in Nat, b # 0 PROVE RoundHalfUp(a, b) \in Int
<1>1. 2 * a + b \in Int /\ 2 * b \in Nat /\ 2 * b > 0
  OBVIOUS
<1> DEFINE x == 2 * a + b
           y == 2 * b
<1>2. x \in Int /\ y \in Nat /\ y > 0
  BY <1>1
<1>3. RoundHalfUp(a, b) = x \div y
  BY DEF RoundHalfUp
<1> HIDE DEF x, y
<1>4. x \div y \in Int
  BY <1>2
<1> QED BY <1>3, <1>4

LEMMA StrengthInt ==
    ASSUME NEW p, p.tags = {}, NEW kind, NEW slug PROVE Strength(p, kind, slug) \in Int
<1> DEFINE guesses == {MinOf(t.confidence * 100, InferredCeiling) :
                         t \in {u \in p.tags : u.kind = kind /\ u.slug = slug}}
<1>1. guesses = {}
  OBVIOUS
<1>2. Max(guesses \cup {0}) = 0
  <2>1. guesses \cup {0} = {0}
    BY <1>1
  <2>2. Max({0}) = 0
    BY DEF Max
  <2> HIDE DEF guesses
  <2> QED BY <2>1, <2>2
<1>3. Strength(p, kind, slug) \in {One, Max(guesses \cup {0})}
  BY DEF Strength
<1> HIDE DEF guesses
<1> QED BY <1>2, <1>3 DEF One

LEMMA PreferenceInt ==
    ASSUME NEW p, p.tags = {}, NEW kind, NEW wanted, IsFiniteSet(wanted), wanted # {}
    PROVE  PreferenceValue(p, kind, wanted) \in Int
<1> DEFINE f == [s \in wanted |-> Strength(p, kind, s)]
           x == SumOf(f)
           k == Cardinality(wanted)
<1>1. DOMAIN f = wanted /\ \A s \in wanted : f[s] \in Int
  BY StrengthInt
<1>2. k \in Nat /\ k # 0
  BY FS_CardinalityType, FS_EmptySet
<1>3. PreferenceValue(p, kind, wanted) = RoundHalfUp(x, k)
  BY DEF PreferenceValue
<1> HIDE DEF f
<1>4. x \in Int
  <2>1. x = Sum(f, wanted)
    BY <1>1, SumOfIs
  <2> HIDE DEF x
  <2> QED BY <1>1, <2>1, SumInt
<1> HIDE DEF x, k
<1> QED BY <1>2, <1>3, <1>4, RoundedInt

LEMMA OverlapInt ==
    ASSUME NEW p, NEW words, IsFiniteSet(DOMAIN words) PROVE QueryOverlap(p, words) \in Int
<1> DEFINE tokens == TokenPlaces(words)
           hits == MatchedPlaces(p, words)
           a == Cardinality(hits)
           b == Cardinality(tokens)
<1>1. IsFiniteSet(tokens)
  <2>1. tokens \in SUBSET (DOMAIN words)
    BY DEF TokenPlaces
  <2> HIDE DEF tokens
  <2> QED BY <2>1, FS_Subset
<1>2. IsFiniteSet(hits)
  <2>1. hits \in SUBSET tokens
    BY DEF MatchedPlaces
  <2> HIDE DEF tokens, hits
  <2> QED BY <1>1, <2>1, FS_Subset
<1>3. a \in Nat /\ b \in Nat
  <2> HIDE DEF tokens, hits
  <2> QED BY <1>1, <1>2, FS_CardinalityType
<1>4. QueryOverlap(p, words) = Fraction(a, b)
  BY DEF QueryOverlap
<1> HIDE DEF a, b
<1>5. CASE b = 0
  BY <1>4, <1>5 DEF Fraction
<1>6. CASE b # 0
  <2>1. a * One \in Int
    BY <1>3 DEF One
  <2> DEFINE c == a * One
  <2>2. Fraction(a, b) = RoundHalfUp(c, b)
    BY <1>6 DEF Fraction
  <2>3. c \in Int
    BY <2>1
  <2> HIDE DEF c
  <2> QED BY <1>3, <1>4, <1>6, <2>2, <2>3, RoundedInt
<1> QED BY <1>5, <1>6

Parts == {"colours", "materials", "styles", "feels", "room", "width", "height", "depth",
          "price", "query", "taste"}

LEMMA FiniteParts == IsFiniteSet(Parts)
<1> DEFINE A == {"colours", "materials"} \cup {"styles", "feels"}
           B == {"room", "width"} \cup {"height", "depth"}
           C == {"price", "query"} \cup {"query", "taste"}
<1>1. IsFiniteSet(A) /\ IsFiniteSet(B) /\ IsFiniteSet(C)
  BY FinitePair, FS_Union
<1>2. Parts = A \cup (B \cup C)
  BY DEF Parts
<1> HIDE DEF A, B, C
<1> QED BY <1>1, <1>2, FS_Union

LEMMA PartsInt ==
    ASSUME NEW p, p.tags = {}, NEW soft, Tame(soft), NEW query, Sayable(query)
    PROVE  LET parts == ScoreParts(p, soft, query, NoProfile)
           IN  DOMAIN parts = Parts /\ \A n \in Parts : \A v \in parts[n] : v \in Int
<1> DEFINE parts == ScoreParts(p, soft, query, NoProfile)
           styles == PreferenceValue(p, "style", soft.styles)
           room == PreferenceValue(p, "room_type", soft.room)
<1>1. /\ soft.materials = {} /\ soft.feels = {} /\ soft["width"] = {} /\ soft["height"] = {}
      /\ soft["depth"] = {} /\ soft.price = {}
  BY DEF Tame
<1>2. ~ IsUseful(NoProfile)
  <2>1. NoProfile.purchases = 0
    BY DEF NoProfile
  <2> QED BY <2>1 DEF IsUseful, MIN_PURCHASES
<1>3. /\ DOMAIN parts = Parts
      /\ parts["colours"] = IF soft.colours = {} THEN {}
                            ELSE {IF soft.colours \cap ColourSlugs(InStock(p)) # {} THEN One ELSE 0}
      /\ parts["styles"] = IF soft.styles = {} THEN {} ELSE {styles}
      /\ parts["room"] = IF soft.room = {} THEN {} ELSE {room}
      /\ parts["query"] = {QueryOverlap(p, words) : words \in query}
  BY DEF ScoreParts, Parts
<1>4. /\ parts["materials"] = {} /\ parts["feels"] = {} /\ parts["width"] = {} /\ parts["height"] = {}
      /\ parts["depth"] = {} /\ parts["price"] = {} /\ parts["taste"] = {}
  BY <1>1, <1>2 DEF ScoreParts
<1>5. soft.styles # {} => styles \in Int
  BY PreferenceInt DEF Tame
<1>6. soft.room # {} => room \in Int
  BY PreferenceInt DEF Tame
<1>7. \A words \in query : QueryOverlap(p, words) \in Int
  BY OverlapInt DEF Sayable
<1> HIDE DEF parts, styles, room
<1>8. \A v \in parts["colours"] : v \in Int
  BY <1>3 DEF One
<1>9. \A v \in parts["styles"] : v \in Int
  BY <1>3, <1>5
<1>10. \A v \in parts["room"] : v \in Int
  BY <1>3, <1>6
<1>11. \A v \in parts["query"] : v \in Int
  BY <1>3, <1>7
<1>12. \A n \in Parts : \A v \in parts[n] : v \in Int
  BY <1>4, <1>8, <1>9, <1>10, <1>11 DEF Parts
<1> QED BY <1>3, <1>12 DEF parts

LEMMA CombineInt ==
    ASSUME NEW parts, DOMAIN parts = Parts, \A n \in Parts : \A v \in parts[n] : v \in Int
    PROVE  Combine(parts) \in Int
<1> DEFINE given == {n \in DOMAIN parts : parts[n] # {}}
           w == [n \in given |-> WEIGHTS[n]]
           f == [n \in given |-> WEIGHTS[n] * CHOOSE v \in parts[n] : TRUE]
           x == SumOf(f)
           y == SumOf(w)
<1>1. CASE given = {}
  BY <1>1 DEF Combine
<1>2. CASE given # {}
  <2>1. IsFiniteSet(given)
    <3>1. given \in SUBSET Parts
      OBVIOUS
    <3> HIDE DEF given
    <3> QED BY <3>1, FiniteParts, FS_Subset
  <2>2. \A n \in Parts : WEIGHTS[n] \in Nat /\ WEIGHTS[n] # 0
    BY DEF Parts, WEIGHTS
  <2>3. DOMAIN w = given /\ \A n \in given : w[n] \in Int /\ 0 <= w[n] /\ w[n] # 0
    BY <2>2
  <2>4. \A n \in given : f[n] \in Int
    <3>1. ASSUME NEW n \in given PROVE f[n] \in Int
      <4> DEFINE v == CHOOSE v \in parts[n] : TRUE
      <4>1. v \in Int
        <5>1. parts[n] # {} /\ \A u \in parts[n] : u \in Int
          OBVIOUS
        <5> QED BY <5>1
      <4>2. f[n] = WEIGHTS[n] * v
        OBVIOUS
      <4>3. WEIGHTS[n] \in Int
        BY <2>2
      <4> HIDE DEF f, v
      <4> QED BY <4>1, <4>2, <4>3
    <3> QED BY <3>1
  <2>5. DOMAIN f = given
    OBVIOUS
  <2>6. Combine(parts) = RoundHalfUp(x, y)
    BY <1>2 DEF Combine
  <2> HIDE DEF f, w
  <2>7. x \in Int
    <3>1. x = Sum(f, given)
      BY <2>1, <2>5, SumOfIs
    <3> HIDE DEF x, given
    <3> QED BY <2>1, <2>4, <3>1, SumInt
  <2>8. y \in Nat /\ y # 0
    <3>1. y = Sum(w, given)
      BY <2>1, <2>3, SumOfIs
    <3> HIDE DEF y
    <3>2. y \in Int /\ 0 <= y /\ \A n \in given : w[n] <= y
      <4> HIDE DEF given
      <4> QED BY <2>1, <2>3, <3>1, SumZero
    <3>3. PICK n \in given : TRUE
      BY <1>2
    <3>4. w[n] \in Int /\ 0 <= w[n] /\ w[n] # 0 /\ w[n] <= y
      BY <2>3, <3>2
    <3> QED BY <3>2, <3>4
  <2> HIDE DEF x, y
  <2> QED BY <2>6, <2>7, <2>8, RoundedInt
<1> QED BY <1>1, <1>2

LEMMA ScoreInt ==
    ASSUME NEW p, p.tags = {}, NEW soft, Tame(soft), NEW query, Sayable(query)
    PROVE  Combine(ScoreParts(p, soft, query, NoProfile)) \in Int
<1> DEFINE parts == ScoreParts(p, soft, query, NoProfile)
<1>1. DOMAIN parts = Parts /\ \A n \in Parts : \A v \in parts[n] : v \in Int
  BY PartsInt
<1> HIDE DEF parts
<1>2. Combine(parts) \in Int
  BY <1>1, CombineInt
<1> QED BY <1>2 DEF parts

-----------------------------------------------------------------------------
(* The options of a slot and its shortlist                                 *)

\* Finitely many candidates, told apart by their products, each in a colour
\* that has the whole quantity.
OptionsOk(O, slot) ==
    /\ IsFiniteSet(O)
    /\ \A c \in O : /\ c.product.id \in Int /\ c.product.price \in Int /\ c.score \in Int
                    /\ c.product \in Range(Candidates) /\ c.colour \in ColourFor(c.product, slot)
    /\ \A c, d \in O : c.product.id = d.product.id => c = d

LEMMA OptionsFacts ==
    ASSUME shop \in Shops, NEW slot, SlotOk(slot), NEW query, Sayable(query)
    PROVE  LET o == SlotOptions(Candidates, slot, query)
           IN  OptionsOk(o.options, slot) /\ (o.reason = "none" => o.options # {})
<1> DEFINE o == SlotOptions(Candidates, slot, query)
           C == Range(Candidates)
           inCategory == {p \in C : p.category = slot.category}
           matching   == {p \in inCategory : Matches(p, slot.hard)}
           fit == {p \in matching : ColourFor(p, slot) # {}}
           make(p) == [product |-> p, colour |-> CHOOSE c \in ColourFor(p, slot) : TRUE,
                       score |-> Combine(ScoreParts(p, slot.soft, query, NoProfile))]
           f == [p \in fit |-> make(p)]
           found == {make(p) : p \in fit}
<1>1. /\ o.options = found
      /\ o.reason = CASE found # {} -> "none"
                      [] inCategory = {} -> "none_in_category"
                      [] matching = {} -> "material_unavailable"
                      [] OTHER -> "not_enough_stock"
  BY DEF SlotOptions
<1>2. IsFiniteSet(C) /\ \A p \in C : p.id \in Int /\ p.price \in Int /\ p.tags = {}
  <2>1. ASSUME NEW p \in C PROVE p.id \in Int /\ p.price \in Int /\ p.tags = {}
    <3>1. PICK r \in CatalogueQuery(shop.rows) : p = NormalizeProduct(r)
      BY CandidateFacts
    <3> QED BY <3>1, NormalizedFacts
  <2> QED BY <2>1, CandidateFacts
<1>3. fit \in SUBSET C /\ \A p \in fit : ColourFor(p, slot) # {}
  OBVIOUS
<1>4. o.reason = "none" => o.options # {}
  <2> HIDE DEF found, inCategory, matching, o
  <2> QED BY <1>1
<1> HIDE DEF fit
<1>5. IsFiniteSet(found)
  <2>1. IsFiniteSet(fit)
    <3> HIDE DEF C
    <3> QED BY <1>2, <1>3, FS_Subset
  <2>2. DOMAIN f = fit /\ f = [p \in DOMAIN f |-> f[p]] /\ found = {f[p] : p \in DOMAIN f}
    OBVIOUS
  <2> HIDE DEF f, found
  <2> QED BY <2>1, <2>2, FiniteImage
<1>6. ASSUME NEW p \in fit
      PROVE  /\ make(p).product = p /\ make(p).score \in Int
             /\ make(p).colour \in ColourFor(p, slot)
  <2>1. p.tags = {}
    BY <1>2, <1>3
  <2> DEFINE score == Combine(ScoreParts(p, slot.soft, query, NoProfile))
             colour == CHOOSE c \in ColourFor(p, slot) : TRUE
  <2>2. score \in Int
    BY <2>1, ScoreInt DEF SlotOk
  <2>3. colour \in ColourFor(p, slot)
    BY <1>3
  <2>4. make(p) = [product |-> p, colour |-> colour, score |-> score]
    OBVIOUS
  <2> HIDE DEF make, colour, score
  <2> QED BY <2>2, <2>3, <2>4
<1> HIDE DEF make, C
<1>7. ASSUME NEW c \in found
      PROVE  \E p \in fit : c = make(p) /\ c.product = p /\ c.score \in Int /\ c.colour \in ColourFor(p, slot)
  BY <1>6
<1> HIDE DEF found
<1>8. ASSUME NEW c \in found
      PROVE  /\ c.product.id \in Int /\ c.product.price \in Int /\ c.score \in Int
             /\ c.product \in C /\ c.colour \in ColourFor(c.product, slot)
  BY <1>2, <1>3, <1>7
<1>9. ASSUME NEW c \in found, NEW d \in found, c.product.id = d.product.id PROVE c = d
  <2>1. PICK p \in fit : c = make(p) /\ c.product = p
    BY <1>7
  <2>2. PICK q \in fit : d = make(q) /\ d.product = q
    BY <1>7
  <2>3. p.id = q.id /\ p \in C /\ q \in C
    BY <1>3, <1>9, <2>1, <2>2
  <2>4. p = q
    BY <2>3, CandidateIds DEF C
  <2> QED BY <2>1, <2>2, <2>4
<1>10. OptionsOk(found, slot)
  BY <1>5, <1>8, <1>9 DEF OptionsOk, C
<1> HIDE DEF o
<1> QED BY <1>1, <1>4, <1>10 DEF o

\* One of the cheapest candidates is in the shortlist, which adds none.
LEMMA CheapestListed ==
    ASSUME NEW O, NEW slot, OptionsOk(O, slot), O # {}
    PROVE  /\ Shortlist(O, slot) \subseteq O
           /\ \E m \in Shortlist(O, slot) : \A n \in O : m.product.price <= n.product.price
<1> DEFINE R == {p \in O \X O : CheapestFirst(p[2], p[1])}
<1>1. IsFiniteSet(O) /\ \A c \in O : c.product.id \in Int /\ c.product.price \in Int /\ c.score \in Int
  BY DEF OptionsOk
<1>2. ASSUME NEW x \in O, NEW y \in O PROVE <<x, y>> \in R <=> CheapestFirst(y, x)
  OBVIOUS
<1> HIDE DEF R
<1>3. ASSUME NEW x \in O, NEW y \in O PROVE x = y \/ <<x, y>> \in R \/ <<y, x>> \in R
  <2>1. x.product.id = y.product.id => x = y
    BY DEF OptionsOk
  <2>2. /\ x.product.id \in Int /\ x.product.price \in Int /\ x.score \in Int
        /\ y.product.id \in Int /\ y.product.price \in Int /\ y.score \in Int
    BY <1>1
  <2>3. x.product.id = y.product.id \/ CheapestFirst(x, y) \/ CheapestFirst(y, x)
    BY <2>2 DEF CheapestFirst, BetterScore
  <2> QED BY <1>2, <2>1, <2>3
<1>4. ASSUME NEW x \in O, NEW y \in O, NEW z \in O, <<x, y>> \in R, <<y, z>> \in R
      PROVE  <<x, z>> \in R
  <2>1. CheapestFirst(y, x) /\ CheapestFirst(z, y)
    BY <1>2, <1>4
  <2>2. /\ x.product.id \in Int /\ x.product.price \in Int /\ x.score \in Int
        /\ y.product.id \in Int /\ y.product.price \in Int /\ y.score \in Int
        /\ z.product.id \in Int /\ z.product.price \in Int /\ z.score \in Int
    BY <1>1
  <2>3. CheapestFirst(z, x)
    BY <2>1, <2>2 DEF CheapestFirst, BetterScore
  <2> QED BY <1>2, <2>3
<1>5. PICK m \in O : \A n \in O : n = m \/ <<n, m>> \in R
  BY <1>1, <1>3, <1>4, LastMember
<1>6. \A n \in O : n = m \/ CheapestFirst(m, n)
  BY <1>2, <1>5
<1>7. ASSUME NEW n \in O PROVE m.product.price <= n.product.price /\ ~CheapestFirst(n, m)
  <2>1. /\ m.product.id \in Int /\ m.product.price \in Int /\ m.score \in Int
        /\ n.product.id \in Int /\ n.product.price \in Int /\ n.score \in Int
    BY <1>1
  <2>2. CASE n = m
    BY <2>1, <2>2 DEF CheapestFirst, BetterScore
  <2>3. CASE CheapestFirst(m, n)
    BY <2>1, <2>3 DEF CheapestFirst, BetterScore
  <2> QED BY <1>6, <2>2, <2>3
<1>8. Cardinality({d \in O : CheapestFirst(d, m)}) = 0
  <2>1. {d \in O : CheapestFirst(d, m)} = {}
    BY <1>7
  <2> QED BY <2>1, FS_EmptySet
<1>9. m \in Shortlist(O, slot)
  <2>1. Cardinality({d \in O : CheapestFirst(d, m)}) < CheapestPerSlot
    BY <1>8, PlannerAssumption
  <2> QED BY <2>1 DEF Shortlist
<1>10. Shortlist(O, slot) \subseteq O
  BY DEF Shortlist
<1> QED BY <1>7, <1>9, <1>10

-----------------------------------------------------------------------------
(* Keys of rooms                                                           *)

\* Sequences of as many numbers are ordered by the first that differs.
LEMMA LexTotal ==
    ASSUME NEW k \in Nat, NEW a, NEW b, \A i \in 1 .. k : a[i] \in Int /\ b[i] \in Int,
           DOMAIN a = 1 .. k, DOMAIN b = 1 .. k, NEW n \in 1 .. k, a[n] # b[n]
    PROVE  LexLess(a, b) \/ LexLess(b, a)
<1> DEFINE D == {i \in 1 .. k : a[i] # b[i]}
           m == Min(D)
<1>1. D \in SUBSET (1 .. k) /\ D # {}
  OBVIOUS
<1>2. m \in D /\ \A i \in D : m <= i
  <2>1. IsFiniteSet(D) /\ \A i \in D : i \in Int
    <3>1. \A i \in D : i \in Int
      OBVIOUS
    <3> HIDE DEF D
    <3> QED BY <1>1, <3>1, PartOfInterval
  <2> HIDE DEF D
  <2> QED BY <1>1, <2>1, MinFacts
<1> HIDE DEF m
<1>3. m \in 1 .. k /\ a[m] # b[m] /\ \A j \in 1 .. m - 1 : a[j] = b[j]
  <2>1. m \in 1 .. k /\ a[m] # b[m]
    BY <1>2
  <2>2. ASSUME NEW j \in 1 .. m - 1 PROVE a[j] = b[j]
    <3>1. j \in 1 .. k /\ ~(m <= j)
      BY <2>1
    <3>2. j \notin D
      BY <1>2, <3>1
    <3> QED BY <3>1, <3>2
  <2> QED BY <2>1, <2>2
<1>4. a[m] < b[m] \/ b[m] < a[m]
  BY <1>3
<1>5. CASE a[m] < b[m]
  BY <1>3, <1>5 DEF LexLess
<1>6. CASE b[m] < a[m]
  BY <1>3, <1>6 DEF LexLess
<1> QED BY <1>4, <1>5, <1>6

LEMMA LexTransitive ==
    ASSUME NEW k \in Nat, NEW a, NEW b, NEW c,
           \A i \in 1 .. k : a[i] \in Int /\ b[i] \in Int /\ c[i] \in Int,
           DOMAIN a = 1 .. k, DOMAIN b = 1 .. k, DOMAIN c = 1 .. k,
           LexLess(a, b), LexLess(b, c)
    PROVE  LexLess(a, c)
<1>1. PICK m \in 1 .. k : a[m] < b[m] /\ \A j \in 1 .. m - 1 : a[j] = b[j]
  BY DEF LexLess
<1>2. PICK n \in 1 .. k : b[n] < c[n] /\ \A j \in 1 .. n - 1 : b[j] = c[j]
  BY DEF LexLess
<1>3. CASE m < n
  <2>1. m \in 1 .. n - 1 /\ \A j \in 1 .. m - 1 : j \in 1 .. n - 1
    BY <1>3
  <2>2. a[m] < c[m] /\ \A j \in 1 .. m - 1 : a[j] = c[j]
    BY <1>1, <1>2, <2>1
  <2> QED BY <2>2 DEF LexLess
<1>4. CASE n < m
  <2>1. n \in 1 .. m - 1 /\ \A j \in 1 .. n - 1 : j \in 1 .. m - 1
    BY <1>4
  <2>2. a[n] < c[n] /\ \A j \in 1 .. n - 1 : a[j] = c[j]
    BY <1>1, <1>2, <2>1
  <2> QED BY <2>2 DEF LexLess
<1>5. CASE m = n
  <2>1. a[m] < c[m] /\ \A j \in 1 .. m - 1 : a[j] = c[j]
    BY <1>1, <1>2, <1>5
  <2> QED BY <2>1 DEF LexLess
<1> QED BY <1>3, <1>4, <1>5

\* What is over a budget.
LEMMA OverFacts ==
    ASSUME NEW B, Amounts(B), NEW a \in Int
    PROVE  /\ Over(a, B) \in Int /\ 0 <= Over(a, B)
           /\ Over(a, B) = 0 <=> \A b \in B : a <= b
<1> DEFINE f == [b \in B |-> IF a > b THEN a - b ELSE 0]
<1>1. IsFiniteSet(B) /\ DOMAIN f = B /\ \A b \in B : b \in Int
  BY DEF Amounts
<1>2. \A b \in B : f[b] = IF a > b THEN a - b ELSE 0
  OBVIOUS
<1>3. Over(a, B) = SumOf(f)
  BY DEF Over
<1> HIDE DEF f
<1>4. \A b \in B : f[b] \in Int /\ 0 <= f[b]
  BY <1>1, <1>2
<1> DEFINE x == Sum(f, B)
<1>5. Over(a, B) = x
  BY <1>1, <1>3, SumOfIs
<1>6. x \in Int /\ 0 <= x /\ \A b \in B : f[b] <= x
  BY <1>1, <1>4, SumZero
<1>7. ASSUME \A b \in B : a <= b PROVE x = 0
  <2>1. \A b \in B : f[b] \in Int /\ 0 <= f[b] /\ f[b] <= 0
    BY <1>1, <1>2, <1>7
  <2>2. 0 * Cardinality(B) <= x /\ x <= 0 * Cardinality(B)
    BY <1>1, <2>1, SumBounds
  <2>3. Cardinality(B) \in Nat
    BY <1>1, FS_CardinalityType
  <2> HIDE DEF x
  <2> QED BY <1>6, <2>2, <2>3
<1>8. ASSUME x = 0, NEW b \in B PROVE a <= b
  <2>1. f[b] <= 0 /\ b \in Int
    BY <1>1, <1>6, <1>8
  <2> QED BY <1>2, <2>1
<1> HIDE DEF x
<1> QED BY <1>5, <1>6, <1>7, <1>8

LEMMA OverMonotone ==
    ASSUME NEW B, Amounts(B), NEW a \in Int, NEW c \in Int, a <= c
    PROVE  Over(a, B) <= Over(c, B)
<1> DEFINE f == [b \in B |-> IF a > b THEN a - b ELSE 0]
           g == [b \in B |-> IF c > b THEN c - b ELSE 0]
<1>1. IsFiniteSet(B) /\ DOMAIN f = B /\ DOMAIN g = B /\ \A b \in B : b \in Int
  BY DEF Amounts
<1>2. Over(a, B) = SumOf(f) /\ Over(c, B) = SumOf(g)
  BY DEF Over
<1>3. \A b \in B : f[b] \in Int /\ g[b] \in Int /\ f[b] <= g[b]
  <2>1. ASSUME NEW b \in B PROVE f[b] \in Int /\ g[b] \in Int /\ f[b] <= g[b]
    <3>1. f[b] = (IF a > b THEN a - b ELSE 0) /\ g[b] = (IF c > b THEN c - b ELSE 0)
      OBVIOUS
    <3>2. b \in Int
      BY <1>1
    <3> HIDE DEF f, g
    <3> QED BY <3>1, <3>2
  <2> QED BY <2>1
<1> HIDE DEF f, g
<1>4. SumOf(f) = Sum(f, B) /\ SumOf(g) = Sum(g, B)
  BY <1>1, SumOfIs
<1>5. Sum(f, B) <= Sum(g, B)
  BY <1>1, <1>3, SumMonotone
<1> QED BY <1>2, <1>4, <1>5

-----------------------------------------------------------------------------
(* Rooms: what they cost, and the best of them                             *)

\* Slots, each with candidates to fill it, and a budget.
Fillable(slots, lists, budget) ==
    /\ \E n \in Nat : DOMAIN slots = 1 .. n
    /\ DOMAIN lists = DOMAIN slots /\ Amounts(budget)
    /\ \A i \in DOMAIN slots : SlotOk(slots[i]) /\ OptionsOk(lists[i], slots[i]) /\ lists[i] # {}

Lines(r, slots) == [i \in DOMAIN slots |-> LineTotal(r[i], slots[i])]
LineOver(r, slots) == [i \in DOMAIN slots |-> Over(LineTotal(r[i], slots[i]), slots[i].budget)]
Scores(r) == [i \in DOMAIN r |-> r[i].score]

LEMMA RoomFacts ==
    ASSUME NEW slots, NEW lists, NEW budget, Fillable(slots, lists, budget), NEW r \in Rooms(lists)
    PROVE  /\ DOMAIN r = DOMAIN slots /\ IsFiniteSet(DOMAIN slots)
           /\ \A i \in DOMAIN slots : /\ r[i] \in lists[i] /\ r[i].product.id \in Int
                                      /\ r[i].product.price \in Int /\ r[i].score \in Int
                                      /\ LineTotal(r[i], slots[i]) \in Int
                                      /\ Over(LineTotal(r[i], slots[i]), slots[i].budget) \in Int
                                      /\ 0 <= Over(LineTotal(r[i], slots[i]), slots[i].budget)
           /\ Total(r, slots) = Sum(Lines(r, slots), DOMAIN slots) /\ Total(r, slots) \in Int
           /\ RoomScore(r) = Sum(Scores(r), DOMAIN slots) /\ RoomScore(r) \in Int
<1>1. PICK n \in Nat : DOMAIN slots = 1 .. n
  BY DEF Fillable
<1>2. DOMAIN lists = DOMAIN slots /\ Amounts(budget)
      /\ \A i \in DOMAIN slots : SlotOk(slots[i]) /\ OptionsOk(lists[i], slots[i])
  BY DEF Fillable
<1> DEFINE S == DOMAIN slots
<1>3. IsFiniteSet(S)
  BY <1>1, FS_Interval
<1>4. DOMAIN r = S /\ \A i \in S : r[i] \in lists[i]
  BY <1>2 DEF Rooms
<1>5. ASSUME NEW i \in S
      PROVE  /\ r[i].product.id \in Int /\ r[i].product.price \in Int /\ r[i].score \in Int
             /\ LineTotal(r[i], slots[i]) \in Int
             /\ Over(LineTotal(r[i], slots[i]), slots[i].budget) \in Int
             /\ 0 <= Over(LineTotal(r[i], slots[i]), slots[i].budget)
  <2>1. r[i].product.id \in Int /\ r[i].product.price \in Int /\ r[i].score \in Int
    BY <1>2, <1>4 DEF OptionsOk
  <2>2. slots[i].quantity \in Nat /\ Amounts(slots[i].budget)
    BY <1>2 DEF SlotOk
  <2> DEFINE x == LineTotal(r[i], slots[i])
             a == r[i].product.price
             q == slots[i].quantity
  <2>3. x = a * q /\ a \in Int /\ q \in Nat
    BY <2>1, <2>2 DEF LineTotal
  <2> HIDE DEF x, a, q
  <2>4. x \in Int
    BY <2>3
  <2>5. Over(x, slots[i].budget) \in Int /\ 0 <= Over(x, slots[i].budget)
    BY <2>2, <2>4, OverFacts
  <2> QED BY <2>1, <2>4, <2>5 DEF x
<1> DEFINE L == Lines(r, slots)
           C == Scores(r)
<1>6. DOMAIN L = S /\ \A i \in S : L[i] \in Int
  BY <1>5 DEF Lines
<1>7. DOMAIN C = S /\ \A i \in S : C[i] \in Int
  BY <1>4, <1>5 DEF Scores
<1>8. Total(r, slots) = SumOf(L) /\ RoomScore(r) = SumOf(C)
  BY DEF Total, RoomScore, Lines, Scores
<1> HIDE DEF L, C, S
<1>9. SumOf(L) = Sum(L, S) /\ Sum(L, S) \in Int
  BY <1>3, <1>6, SumOfIs, SumInt
<1>10. SumOf(C) = Sum(C, S) /\ Sum(C, S) \in Int
  BY <1>3, <1>7, SumOfIs, SumInt
<1> QED BY <1>3, <1>4, <1>5, <1>8, <1>9, <1>10 DEF L, C, S

LEMMA OverageFacts ==
    ASSUME NEW slots, NEW lists, NEW budget, Fillable(slots, lists, budget), NEW r \in Rooms(lists)
    PROVE  /\ Overage(r, slots, budget) = Sum(LineOver(r, slots), DOMAIN slots) + Over(Total(r, slots), budget)
           /\ Sum(LineOver(r, slots), DOMAIN slots) \in Int
           /\ Over(Total(r, slots), budget) \in Int
           /\ Overage(r, slots, budget) \in Int /\ 0 <= Overage(r, slots, budget)
           /\ Overage(r, slots, budget) = 0 =>
                 /\ \A b \in budget : Total(r, slots) <= b
                 /\ \A i \in DOMAIN slots : FitsLine(r[i], slots[i])
<1> DEFINE S == DOMAIN slots
           F == LineOver(r, slots)
           t == Total(r, slots)
           o == Overage(r, slots, budget)
           x == Sum(F, S)
           y == Over(t, budget)
<1>1. IsFiniteSet(S) /\ t \in Int
  BY RoomFacts
<1>2. DOMAIN F = S /\ \A i \in S : /\ F[i] = Over(LineTotal(r[i], slots[i]), slots[i].budget)
                                   /\ F[i] \in Int /\ 0 <= F[i]
  BY RoomFacts DEF LineOver
<1>3. o = SumOf(F) + y
  BY DEF Overage, LineOver
<1> HIDE DEF F, S
<1>4. SumOf(F) = x
  BY <1>1, <1>2, SumOfIs
<1>5. x \in Int /\ 0 <= x /\ \A i \in S : F[i] <= x
  BY <1>1, <1>2, SumZero
<1>6. Amounts(budget)
  BY DEF Fillable
<1>7. y \in Int /\ 0 <= y /\ (y = 0 <=> \A b \in budget : t <= b)
  <2> HIDE DEF t
  <2> QED BY <1>1, <1>6, OverFacts
<1> HIDE DEF x, y, t, o
<1>8. o = x + y /\ o \in Int /\ 0 <= o
  BY <1>3, <1>4, <1>5, <1>7
<1>9. ASSUME o = 0 PROVE (\A b \in budget : t <= b) /\ \A i \in S : FitsLine(r[i], slots[i])
  <2>1. x = 0 /\ y = 0
    BY <1>5, <1>7, <1>8, <1>9
  <2>2. ASSUME NEW i \in S PROVE FitsLine(r[i], slots[i])
    <3> DEFINE a == LineTotal(r[i], slots[i])
               B == slots[i].budget
    <3>1. F[i] = Over(a, B) /\ Over(a, B) = 0
      <4>1. F[i] = 0
        BY <1>2, <1>5, <2>1
      <4> QED BY <1>2, <4>1
    <3>2. Amounts(B)
      BY DEF Fillable, SlotOk, S
    <3>3. a \in Int
      BY RoomFacts DEF S
    <3> HIDE DEF a, B
    <3>4. \A b \in B : a <= b
      BY <3>1, <3>2, <3>3, OverFacts
    <3> QED BY <3>4 DEF FitsLine, a, B
  <2> QED BY <1>7, <2>1, <2>2
<1> QED BY <1>5, <1>7, <1>8, <1>9 DEF o, x, y, t, F, S

\* A room that is no dearer in any slot is no dearer, and no further over.
LEMMA CheaperRoom ==
    ASSUME NEW slots, NEW lists, NEW budget, Fillable(slots, lists, budget),
           NEW c \in Rooms(lists), NEW r \in Rooms(lists),
           \A i \in DOMAIN slots : c[i].product.price <= r[i].product.price
    PROVE  /\ Total(c, slots) <= Total(r, slots)
           /\ Overage(c, slots, budget) <= Overage(r, slots, budget)
<1> DEFINE S == DOMAIN slots
           Lc == Lines(c, slots)
           Lr == Lines(r, slots)
           Fc == LineOver(c, slots)
           Fr == LineOver(r, slots)
<1>1. IsFiniteSet(S)
  BY RoomFacts
<1>2. ASSUME NEW i \in S
      PROVE  /\ LineTotal(c[i], slots[i]) \in Int /\ LineTotal(r[i], slots[i]) \in Int
             /\ LineTotal(c[i], slots[i]) <= LineTotal(r[i], slots[i])
  <2> DEFINE a == c[i].product.price
             b == r[i].product.price
             q == slots[i].quantity
             x == LineTotal(c[i], slots[i])
             y == LineTotal(r[i], slots[i])
  <2>1. a \in Int /\ b \in Int /\ a <= b /\ x \in Int /\ y \in Int
    BY RoomFacts
  <2>2. q \in Nat
    BY DEF Fillable, SlotOk
  <2>3. x = a * q /\ y = b * q
    BY DEF LineTotal
  <2> HIDE DEF a, b, q, x, y
  <2>4. a * q <= b * q
    <3>1. (b - a) \in Nat
      BY <2>1
    <3>2. (b - a) * q \in Nat
      BY <2>2, <3>1
    <3>3. b * q = a * q + (b - a) * q
      BY <2>1, <2>2
    <3>4. a * q \in Int /\ b * q \in Int
      BY <2>1, <2>2
    <3> QED BY <3>2, <3>3, <3>4
  <2> QED BY <2>1, <2>3, <2>4 DEF x, y
<1>3. \A i \in S : Lc[i] \in Int /\ Lr[i] \in Int /\ Lc[i] <= Lr[i]
  BY <1>2 DEF Lines
<1>4. \A i \in S : Fc[i] \in Int /\ Fr[i] \in Int /\ Fc[i] <= Fr[i]
  <2>1. ASSUME NEW i \in S PROVE Fc[i] \in Int /\ Fr[i] \in Int /\ Fc[i] <= Fr[i]
    <3> DEFINE x == LineTotal(c[i], slots[i])
               y == LineTotal(r[i], slots[i])
               B == slots[i].budget
    <3>1. Fc[i] = Over(x, B) /\ Fr[i] = Over(y, B)
      BY DEF LineOver
    <3>2. x \in Int /\ y \in Int /\ x <= y
      BY <1>2
    <3>3. Amounts(B)
      BY DEF Fillable, SlotOk
    <3> HIDE DEF x, y, B, Fc, Fr
    <3>4. Over(x, B) \in Int /\ Over(y, B) \in Int /\ Over(x, B) <= Over(y, B)
      BY <3>2, <3>3, OverFacts, OverMonotone
    <3> QED BY <3>1, <3>4
  <2> QED BY <2>1
<1> HIDE DEF S, Lc, Lr, Fc, Fr
<1>5. Sum(Lc, S) <= Sum(Lr, S) /\ Sum(Fc, S) <= Sum(Fr, S)
  BY <1>1, <1>3, <1>4, SumMonotone
<1> DEFINE x == Total(c, slots)
           y == Total(r, slots)
           ox == Over(x, budget)
           oy == Over(y, budget)
<1>6. x \in Int /\ y \in Int /\ x <= y
  BY <1>5, RoomFacts DEF Lc, Lr, S
<1>7. ox \in Int /\ oy \in Int /\ ox <= oy
  <2>1. Amounts(budget)
    BY DEF Fillable
  <2> HIDE DEF x, y
  <2> QED BY <1>6, <2>1, OverFacts, OverMonotone
<1>8. /\ Overage(c, slots, budget) = Sum(Fc, S) + ox
      /\ Overage(r, slots, budget) = Sum(Fr, S) + oy
      /\ Sum(Fc, S) \in Int /\ Sum(Fr, S) \in Int
  BY OverageFacts DEF Fc, Fr, S
<1> HIDE DEF ox, oy
<1>9. Overage(c, slots, budget) <= Overage(r, slots, budget)
  BY <1>5, <1>7, <1>8
<1> QED BY <1>6, <1>9

Key(r, slots, budget) == RoomKey(r, slots, budget) \o Ids(r)

LEMMA KeyFacts ==
    ASSUME NEW slots, NEW lists, NEW budget, Fillable(slots, lists, budget), NEW r \in Rooms(lists),
           NEW n \in Nat, DOMAIN slots = 1 .. n
    PROVE  LET k == Key(r, slots, budget)
           IN  /\ DOMAIN k = 1 .. n + 4 /\ \A i \in 1 .. n + 4 : k[i] \in Int
               /\ \A i \in 1 .. 4 : k[i] = RoomKey(r, slots, budget)[i]
               /\ \A i \in 1 .. n : k[i + 4] = r[i].product.id
<1> DEFINE a == RoomKey(r, slots, budget)
           b == Ids(r)
           k == a \o b
           o == Overage(r, slots, budget)
           t == Total(r, slots)
           s == RoomScore(r)
<1>1. o \in Int /\ t \in Int /\ s \in Int
  BY OverageFacts, RoomFacts
<1>2. a = IF o = 0 THEN <<0, 0 - s, t, 0>> ELSE <<1, o, t, 0 - s>>
  BY DEF RoomKey
<1>3. a \in Seq(Int) /\ Len(a) = 4
  <2> HIDE DEF o, t, s, a
  <2>1. 0 - s \in Int
    BY <1>1
  <2> QED BY <1>1, <1>2, <2>1
<1>4. b \in Seq(Int) /\ Len(b) = n /\ \A i \in 1 .. n : b[i] = r[i].product.id
  <2>1. DOMAIN r = 1 .. n /\ \A i \in 1 .. n : r[i].product.id \in Int
    BY RoomFacts
  <2>2. b \in [1 .. n -> Int] /\ \A i \in 1 .. n : b[i] = r[i].product.id
    BY <2>1 DEF Ids
  <2> HIDE DEF b
  <2>3. b \in Seq(Int) /\ Len(b) = n
    BY <2>2, FunIsSeq
  <2> QED BY <2>2, <2>3
<1> HIDE DEF a, b
<1>5. /\ k \in Seq(Int) /\ Len(k) = 4 + n
      /\ \A i \in 1 .. 4 + n : k[i] = IF i <= 4 THEN a[i] ELSE b[i - 4]
  <2>1. a \in Seq(Int) /\ b \in Seq(Int)
    BY <1>3, <1>4
  <2>2. /\ a \o b \in Seq(Int) /\ Len(a \o b) = Len(a) + Len(b)
        /\ \A i \in 1 .. Len(a) + Len(b) :
              (a \o b)[i] = IF i <= Len(a) THEN a[i] ELSE b[i - Len(a)]
    BY <2>1, ConcatProperties
  <2> HIDE DEF k
  <2> QED BY <1>3, <1>4, <2>2 DEF k
<1> HIDE DEF k
<1>6. DOMAIN k = 1 .. n + 4 /\ \A i \in 1 .. n + 4 : k[i] \in Int
  <2>1. DOMAIN k = 1 .. Len(k) /\ k \in [1 .. Len(k) -> Int]
    BY <1>5, LenProperties
  <2>2. Len(k) = n + 4
    BY <1>5
  <2> QED BY <2>1, <2>2
<1>7. \A i \in 1 .. 4 : k[i] = a[i]
  BY <1>5
<1>8. \A i \in 1 .. n : k[i + 4] = r[i].product.id
  <2>1. ASSUME NEW i \in 1 .. n PROVE k[i + 4] = r[i].product.id
    <3> DEFINE j == i + 4
    <3>1. j \in 1 .. 4 + n /\ ~(j <= 4) /\ j - 4 = i
      OBVIOUS
    <3> HIDE DEF j
    <3>2. k[j] = b[i]
      BY <1>5, <3>1
    <3> QED BY <1>4, <3>2 DEF j
  <2> QED BY <2>1
<1> QED BY <1>6, <1>7, <1>8 DEF k, a, b, Key

LEMMA RoomsFinite ==
    ASSUME NEW slots, NEW lists, NEW budget, Fillable(slots, lists, budget)
    PROVE  IsFiniteSet(Rooms(lists)) /\ Rooms(lists) # {}
<1> DEFINE D == DOMAIN lists
           V == {lists[i] : i \in D}
           U == UNION V
           c == [i \in D |-> CHOOSE e \in lists[i] : TRUE]
<1>1. IsFiniteSet(D)
  <2>1. PICK n \in Nat : DOMAIN slots = 1 .. n
    BY DEF Fillable
  <2>2. IsFiniteSet(1 .. n)
    BY FS_Interval
  <2> QED BY <2>1, <2>2 DEF Fillable
<1>2. \A i \in D : IsFiniteSet(lists[i]) /\ lists[i] # {}
  BY DEF Fillable, OptionsOk
<1>3. IsFiniteSet(U)
  <2>1. IsFiniteSet(V)
    <3> DEFINE f == [i \in D |-> lists[i]]
    <3>1. DOMAIN f = D /\ f = [i \in DOMAIN f |-> f[i]] /\ V = {f[i] : i \in DOMAIN f}
      OBVIOUS
    <3> HIDE DEF f, V, D
    <3> QED BY <1>1, <3>1, FiniteImage
  <2>2. \A v \in V : IsFiniteSet(v)
    BY <1>2
  <2> HIDE DEF V
  <2> QED BY <2>1, <2>2, FS_UNION
<1>4. Rooms(lists) = {r \in [D -> U] : \A i \in D : r[i] \in lists[i]}
  BY DEF Rooms
<1>5. Rooms(lists) \in SUBSET [D -> U]
  BY <1>4
<1>6. IsFiniteSet(Rooms(lists))
  <2> HIDE DEF D, U
  <2>1. IsFiniteSet([D -> U])
    BY <1>1, <1>3, FiniteFunctions
  <2> QED BY <1>5, <2>1, FS_Subset
<1>7. c \in Rooms(lists)
  <2>1. \A i \in D : c[i] \in lists[i]
    <3>1. ASSUME NEW i \in D PROVE c[i] \in lists[i]
      <4>1. lists[i] # {} /\ c[i] = CHOOSE e \in lists[i] : TRUE
        BY <1>2
      <4> QED BY <4>1
    <3> QED BY <3>1
  <2>2. c = [i \in D |-> c[i]]
    OBVIOUS
  <2> HIDE DEF c
  <2>3. c \in [D -> U]
    BY <2>1, <2>2
  <2> QED BY <1>4, <2>1, <2>3
<1> HIDE DEF c
<1> QED BY <1>6, <1>7

\* The choice of the best room is a choice among the rooms.
LEMMA BestRoomFacts ==
    ASSUME NEW slots, NEW lists, NEW budget, Fillable(slots, lists, budget)
    PROVE  LET best == BestRoom(Rooms(lists), slots, budget)
           IN  /\ best \in Rooms(lists)
               /\ \A q \in Rooms(lists) \ {best} : Preferred(best, q, slots, budget)
<1> DEFINE A == Rooms(lists)
           K(r) == Key(r, slots, budget)
           R == {p \in A \X A : LexLess(K(p[2]), K(p[1]))}
           Best(r) == r \in A /\ \A q \in A \ {r} : Preferred(r, q, slots, budget)
<1>1. IsFiniteSet(A) /\ A # {}
  BY RoomsFinite
<1>2. PICK n \in Nat : DOMAIN slots = 1 .. n
  BY DEF Fillable
<1>3. ASSUME NEW r \in A
      PROVE  /\ DOMAIN K(r) = 1 .. n + 4 /\ \A i \in 1 .. n + 4 : K(r)[i] \in Int
             /\ \A i \in 1 .. n : K(r)[i + 4] = r[i].product.id
  BY <1>2, KeyFacts
<1>4. ASSUME NEW x \in A, NEW y \in A PROVE <<x, y>> \in R <=> LexLess(K(y), K(x))
  OBVIOUS
<1>5. ASSUME NEW x \in A, NEW y \in A PROVE LexLess(K(x), K(y)) <=> Preferred(x, y, slots, budget)
  BY DEF Preferred, Key
<1> HIDE DEF R, K
<1>6. ASSUME NEW x \in A, NEW y \in A PROVE x = y \/ <<x, y>> \in R \/ <<y, x>> \in R
  <2>1. CASE \E i \in 1 .. n : x[i].product.id # y[i].product.id
    <3>1. PICK i \in 1 .. n : x[i].product.id # y[i].product.id
      BY <2>1
    <3>2. i + 4 \in 1 .. n + 4 /\ n + 4 \in Nat
      BY <1>2
    <3>3. K(x)[i + 4] # K(y)[i + 4]
      BY <1>3, <3>1
    <3>4. LexLess(K(x), K(y)) \/ LexLess(K(y), K(x))
      BY <1>3, <3>2, <3>3, LexTotal
    <3> QED BY <1>4, <3>4
  <2>2. CASE \A i \in 1 .. n : x[i].product.id = y[i].product.id
    <3>1. DOMAIN x = 1 .. n /\ DOMAIN y = 1 .. n /\ \A i \in 1 .. n : x[i] \in lists[i] /\ y[i] \in lists[i]
      <4>1. ASSUME NEW r \in A PROVE DOMAIN r = 1 .. n /\ \A i \in 1 .. n : r[i] \in lists[i]
        BY <1>2, RoomFacts
      <4> QED BY <4>1
    <3>2. \A i \in 1 .. n : x[i] = y[i]
      <4>1. ASSUME NEW i \in 1 .. n PROVE x[i] = y[i]
        <5>1. OptionsOk(lists[i], slots[i])
          BY <1>2 DEF Fillable
        <5> QED BY <2>2, <3>1, <5>1 DEF OptionsOk
      <4> QED BY <4>1
    <3>3. x = [i \in DOMAIN x |-> x[i]] /\ y = [i \in DOMAIN y |-> y[i]]
      BY DEF Rooms
    <3> QED BY <3>1, <3>2, <3>3
  <2> QED BY <2>1, <2>2
<1>7. ASSUME NEW x \in A, NEW y \in A, NEW z \in A, <<x, y>> \in R, <<y, z>> \in R PROVE <<x, z>> \in R
  <2>1. LexLess(K(y), K(x)) /\ LexLess(K(z), K(y))
    BY <1>4, <1>7
  <2>2. n + 4 \in Nat
    BY <1>2
  <2>3. LexLess(K(z), K(x))
    BY <1>3, <2>1, <2>2, LexTransitive
  <2> QED BY <1>4, <2>3
<1> HIDE DEF A
<1>8. PICK m \in A : \A q \in A : q = m \/ <<q, m>> \in R
  BY <1>1, <1>6, <1>7, LastMember
<1>9. Best(m)
  BY <1>4, <1>5, <1>8
<1>10. BestRoom(A, slots, budget) = CHOOSE r \in A : \A q \in A \ {r} : Preferred(r, q, slots, budget)
  BY DEF BestRoom
<1> DEFINE best == BestRoom(A, slots, budget)
<1>11. best \in A /\ \A q \in A \ {best} : Preferred(best, q, slots, budget)
  BY <1>9, <1>10
<1> HIDE DEF best
<1> QED BY <1>11 DEF best, A

-----------------------------------------------------------------------------
(* The plan                                                                *)

Shortlists(plan) == [i \in DOMAIN plan.slots |-> Shortlist(plan.options[i], plan.slots[i])]

PlanOk(plan) ==
    /\ Fillable(plan.slots, plan.options, plan.budget)
    /\ plan.items = IF plan.slots = <<>> THEN <<>>
                    ELSE BestRoom(Rooms(Shortlists(plan)), plan.slots, plan.budget)
    /\ plan.upgrades = [i \in DOMAIN plan.slots |->
                          Upgrades(plan.items, i, plan.options[i], plan.slots, plan.budget)]

LEMMA PlanFacts ==
    ASSUME shop \in Shops, NEW s, SpecOk(s)
    PROVE  PlanOk(PlanRoom(Candidates, s))
<1> DEFINE found == [x \in Range(s.slots) |-> SlotOptions(Candidates, x, s.query)]
           K == {i \in DOMAIN s.slots : found[s.slots[i]].reason = "none"}
           slots == Taken(s.slots, K)
           options == [i \in DOMAIN slots |-> found[slots[i]].options]
           lists == [i \in DOMAIN slots |-> Shortlist(found[slots[i]].options, slots[i])]
           base == FillSlots(found, s)
           plan == PlanRoom(Candidates, s)
           best == IF slots = <<>> THEN <<>> ELSE BestRoom(Rooms(lists), slots, s.budget)
           up == [i \in DOMAIN base.slots |->
                     Upgrades(base.items, i, base.options[i], base.slots, base.budget)]
<1>1. /\ base.slots = slots /\ base.options = options /\ base.budget = s.budget
      /\ base.items = best
      /\ DOMAIN base = {"slots", "options", "budget", "unfilled", "items", "upgrades"}
  BY DEF FillSlots, Taken, Passing
<1>2. plan = [base EXCEPT !.upgrades = up]
  BY DEF PlanRoom, WithUpgrades
<1>3. /\ plan.slots = slots /\ plan.options = options /\ plan.budget = s.budget
      /\ plan.items = best /\ plan.upgrades = up
  <2> HIDE DEF base, plan, slots, options, best, up
  <2> QED BY <1>1, <1>2
<1>4. /\ Len(s.slots) \in Nat /\ DOMAIN s.slots = 1 .. Len(s.slots)
      /\ \A i \in DOMAIN s.slots : s.slots[i] \in Range(s.slots)
  <2>1. s.slots \in Seq(Range(s.slots))
    BY DEF SpecOk, IsSeq
  <2>2. Len(s.slots) \in Nat /\ DOMAIN s.slots = 1 .. Len(s.slots)
    BY <2>1, LenProperties
  <2> QED BY <2>2 DEF Range
<1>5. K \in SUBSET (1 .. Len(s.slots)) /\ \A i \in K : found[s.slots[i]].reason = "none"
  BY <1>4
<1>6. IsFiniteSet(K) /\ \A i \in K : i \in Int
  <2> HIDE DEF K
  <2>1. \A i \in K : i \in Int
    BY <1>4, <1>5
  <2> QED BY <1>4, <1>5, <2>1, PartOfInterval
<1> HIDE DEF K
<1>7. DOMAIN slots = 1 .. Len(slots) /\ Len(slots) \in Nat
      /\ \A i \in 1 .. Len(slots) : \E n \in K : slots[i] = s.slots[n]
  <2> DEFINE t == Taken(s.slots, K)
  <2>1. DOMAIN t = 1 .. Len(t) /\ Len(t) \in Nat
        /\ \A i \in 1 .. Len(t) : \E n \in K : t[i] = s.slots[n]
    BY <1>6, TakenFacts
  <2> HIDE DEF t
  <2> QED BY <2>1 DEF t
<1>8. \A x \in Range(s.slots) : SlotOk(x) /\ found[x] = SlotOptions(Candidates, x, s.query)
  BY DEF SpecOk
<1> HIDE DEF found, slots
<1>9. ASSUME NEW i \in DOMAIN slots
      PROVE  /\ SlotOk(slots[i]) /\ OptionsOk(options[i], slots[i]) /\ options[i] # {}
  <2>1. PICK n \in K : slots[i] = s.slots[n]
    BY <1>7
  <2> DEFINE x == slots[i]
             o == SlotOptions(Candidates, x, s.query)
  <2>2. x \in Range(s.slots) /\ found[x].reason = "none"
    BY <1>4, <1>5, <2>1
  <2>3. SlotOk(x) /\ found[x] = o
    BY <1>8, <2>2
  <2>4. Sayable(s.query)
    BY DEF SpecOk
  <2> HIDE DEF x
  <2>5. OptionsOk(o.options, x) /\ (o.reason = "none" => o.options # {})
    BY <2>3, <2>4, OptionsFacts
  <2>6. options[i] = found[x].options
    BY DEF x
  <2> HIDE DEF o, options
  <2> QED BY <2>2, <2>3, <2>5, <2>6 DEF x
<1>10. DOMAIN options = DOMAIN slots /\ lists = [i \in DOMAIN slots |-> Shortlist(options[i], slots[i])]
  OBVIOUS
<1> HIDE DEF options, lists
<1>11. Fillable(slots, options, s.budget)
  BY <1>7, <1>9, <1>10 DEF Fillable, SpecOk
<1>12. lists = Shortlists(plan)
  BY <1>3, <1>10 DEF Shortlists
<1>13. up = [i \in DOMAIN slots |-> Upgrades(best, i, options[i], slots, s.budget)]
  BY <1>1
<1> HIDE DEF up, base, plan
<1> QED BY <1>3, <1>11, <1>12, <1>13 DEF PlanOk, plan

\* The shortlists can fill the slots too, with candidates of theirs.
LEMMA ShortlistsFill ==
    ASSUME NEW plan, PlanOk(plan)
    PROVE  /\ Fillable(plan.slots, Shortlists(plan), plan.budget)
           /\ \A r \in Rooms(Shortlists(plan)) : r \in Rooms(plan.options)
           /\ \E c \in Rooms(Shortlists(plan)) : \A r \in Rooms(plan.options) :
                 \A i \in DOMAIN plan.slots : c[i].product.price <= r[i].product.price
<1> DEFINE slots == plan.slots
           options == plan.options
           L == Shortlists(plan)
           S == DOMAIN slots
           Least(i, m) == m \in L[i] /\ \A n \in options[i] : m.product.price <= n.product.price
           c == [i \in S |-> CHOOSE m \in L[i] : Least(i, m)]
<1>1. /\ Fillable(slots, options, plan.budget) /\ DOMAIN options = S /\ DOMAIN L = S
      /\ \A i \in S : L[i] = Shortlist(options[i], slots[i])
      /\ \A i \in S : OptionsOk(options[i], slots[i]) /\ options[i] # {} /\ SlotOk(slots[i])
  BY DEF PlanOk, Shortlists, Fillable
<1> HIDE DEF slots, options, L
<1>2. ASSUME NEW i \in S
      PROVE  /\ L[i] \subseteq options[i] /\ \E m \in L[i] : Least(i, m)
             /\ OptionsOk(L[i], slots[i]) /\ L[i] # {}
  <2>1. OptionsOk(options[i], slots[i]) /\ options[i] # {}
    BY <1>1
  <2> DEFINE O == options[i]
             x == slots[i]
             N == Shortlist(O, x)
  <2>2. N = L[i] /\ OptionsOk(O, x) /\ O # {}
    BY <1>1, <2>1
  <2> HIDE DEF O, x
  <2>3. N \subseteq O /\ \E m \in N : \A n \in O : m.product.price <= n.product.price
    BY <2>2, CheapestListed
  <2> HIDE DEF N
  <2>4. OptionsOk(N, x)
    <3>1. IsFiniteSet(N)
      BY <2>2, <2>3, FS_Subset DEF OptionsOk
    <3> QED BY <2>2, <2>3, <3>1 DEF OptionsOk
  <2> QED BY <2>2, <2>3, <2>4 DEF O, x
<1>3. Fillable(slots, L, plan.budget)
  BY <1>1, <1>2 DEF Fillable
<1>4. ASSUME NEW r \in Rooms(L) PROVE r \in Rooms(options)
  <2>1. r \in [S -> UNION {L[i] : i \in S}] /\ \A i \in S : r[i] \in L[i]
    BY <1>1 DEF Rooms
  <2>2. \A i \in S : r[i] \in options[i]
    BY <1>2, <2>1
  <2>3. r \in [S -> UNION {options[i] : i \in S}]
    BY <2>1, <2>2
  <2> QED BY <1>1, <2>2, <2>3 DEF Rooms
<1>5. ASSUME NEW i \in S PROVE Least(i, c[i])
  <2>1. c[i] = CHOOSE m \in L[i] : Least(i, m)
    OBVIOUS
  <2>2. \E m \in L[i] : Least(i, m)
    BY <1>2
  <2> HIDE DEF c, Least
  <2> QED BY <2>1, <2>2
<1>6. DOMAIN c = S /\ c = [i \in S |-> c[i]]
  OBVIOUS
<1> HIDE DEF c
<1>7. c \in Rooms(L)
  <2>1. \A i \in S : c[i] \in L[i]
    BY <1>5
  <2>2. c \in [S -> UNION {L[i] : i \in S}]
    BY <1>6, <2>1
  <2> QED BY <1>1, <2>1, <2>2 DEF Rooms
<1>8. ASSUME NEW r \in Rooms(options), NEW i \in S PROVE c[i].product.price <= r[i].product.price
  <2>1. r[i] \in options[i]
    BY <1>1 DEF Rooms
  <2> QED BY <1>5, <2>1
<1> QED BY <1>3, <1>4, <1>7, <1>8 DEF slots, options, L

\* The room that is planned is one of the candidates' rooms; it is within
\* every budget when one of them is, and otherwise none of them is cheaper.
LEMMA BestPlan ==
    ASSUME NEW plan, PlanOk(plan), plan.slots # <<>>
    PROVE  /\ plan.items \in Rooms(plan.options)
           /\ (\E r \in Rooms(plan.options) : Fits(r, plan)) => Fits(plan.items, plan)
           /\ ~ Fits(plan.items, plan) =>
                 \A r \in Rooms(plan.options) : PlanTotal(plan) <= Total(r, plan.slots)
<1> DEFINE slots == plan.slots
           options == plan.options
           budget == plan.budget
           L == Shortlists(plan)
           b == plan.items
           over(r) == Overage(r, slots, budget)
           cost(r) == Total(r, slots)
           key(r) == RoomKey(r, slots, budget)
<1>1. Fillable(slots, options, budget) /\ Fillable(slots, L, budget)
  BY ShortlistsFill DEF PlanOk
<1>2. PICK n \in Nat : DOMAIN slots = 1 .. n
  BY <1>1 DEF Fillable
<1>3. PICK c \in Rooms(L) : \A r \in Rooms(options) :
          \A i \in DOMAIN slots : c[i].product.price <= r[i].product.price
  BY ShortlistsFill
<1>4. b \in Rooms(L) /\ \A q \in Rooms(L) \ {b} : Preferred(b, q, slots, budget)
  <2>1. b = BestRoom(Rooms(L), slots, budget)
    BY DEF PlanOk
  <2> HIDE DEF b, L, slots, budget
  <2> QED BY <1>1, <2>1, BestRoomFacts
<1>5. b \in Rooms(options) /\ c \in Rooms(options)
  BY <1>3, <1>4, ShortlistsFill
<1>6. ASSUME NEW r \in Rooms(options)
      PROVE  /\ over(r) \in Int /\ 0 <= over(r) /\ cost(r) \in Int
             /\ over(c) <= over(r) /\ cost(c) <= cost(r)
  <2> HIDE DEF slots, options, budget, L, b
  <2>1. over(r) \in Int /\ 0 <= over(r) /\ cost(r) \in Int
    BY <1>1, OverageFacts, RoomFacts
  <2>2. over(c) <= over(r) /\ cost(c) <= cost(r)
    BY <1>1, <1>3, <1>5, CheaperRoom
  <2> QED BY <2>1, <2>2
<1>7. ASSUME NEW r \in Rooms(options)
      PROVE  /\ over(r) = 0 => key(r)[1] = 0
             /\ over(r) # 0 => key(r)[1] = 1 /\ key(r)[2] = over(r) /\ key(r)[3] = cost(r)
  BY DEF RoomKey
<1>8. \/ b = c
      \/ \E i \in 1 .. n + 4 : /\ Key(b, slots, budget)[i] < Key(c, slots, budget)[i]
                               /\ \A j \in 1 .. i - 1 : Key(b, slots, budget)[j] = Key(c, slots, budget)[j]
  <2>1. ASSUME b # c PROVE LexLess(Key(b, slots, budget), Key(c, slots, budget))
    BY <1>3, <1>4, <2>1 DEF Preferred, Key
  <2>2. DOMAIN Key(b, slots, budget) = 1 .. n + 4
    <3> HIDE DEF slots, options, budget, L, b
    <3> QED BY <1>1, <1>2, <1>5, KeyFacts
  <2> QED BY <2>1, <2>2 DEF LexLess
<1>9. ASSUME NEW r \in Rooms(options), NEW i \in 1 .. 4 PROVE Key(r, slots, budget)[i] = key(r)[i]
  <2> HIDE DEF slots, options, budget
  <2> QED BY <1>1, <1>2, KeyFacts
<1>10. Fits(b, plan) <=> over(b) = 0
  BY DEF Fits
<1>11. PlanTotal(plan) = cost(b)
  BY DEF PlanTotal
<1>12. \A r \in Rooms(options) : (Fits(r, plan) <=> over(r) = 0)
  BY DEF Fits
<1> DEFINE kb == Key(b, slots, budget)
           kc == Key(c, slots, budget)
           ob == over(b)
           oc == over(c)
           tb == cost(b)
           tc == cost(c)
<1>13. /\ ob \in Int /\ oc \in Int /\ tb \in Int /\ tc \in Int /\ 0 <= ob /\ 0 <= oc
       /\ oc <= ob /\ tc <= tb
  BY <1>5, <1>6
<1>14. /\ ob = 0 => kb[1] = 0
       /\ ob # 0 => kb[1] = 1 /\ kb[2] = ob /\ kb[3] = tb
       /\ oc = 0 => kc[1] = 0
       /\ oc # 0 => kc[1] = 1 /\ kc[2] = oc /\ kc[3] = tc
  <2>1. \A i \in 1 .. 4 : kb[i] = key(b)[i] /\ kc[i] = key(c)[i]
    BY <1>5, <1>9
  <2> HIDE DEF key, over, cost, kb, kc
  <2>2. kb[1] = key(b)[1] /\ kb[2] = key(b)[2] /\ kb[3] = key(b)[3]
        /\ kc[1] = key(c)[1] /\ kc[2] = key(c)[2] /\ kc[3] = key(c)[3]
    BY <2>1
  <2> QED BY <1>5, <1>7, <2>2
<1>15. b = c \/ \E i \in 1 .. n + 4 : kb[i] < kc[i] /\ \A j \in 1 .. i - 1 : kb[j] = kc[j]
  BY <1>8
<1>16. b = c => ob = oc /\ tb = tc
  OBVIOUS
<1> HIDE DEF kb, kc, ob, oc, tb, tc
<1>17. /\ oc = 0 => ob = 0
       /\ ob # 0 => tb <= tc
  <2>1. CASE b = c
    BY <1>13, <1>16, <2>1
  <2>2. CASE b # c
    <3>1. PICK i \in 1 .. n + 4 : kb[i] < kc[i] /\ \A j \in 1 .. i - 1 : kb[j] = kc[j]
      BY <1>15, <2>2
    <3>2. i \in Int /\ 1 <= i
      BY <1>2
    <3>3. CASE i = 1
      BY <1>13, <1>14, <3>1, <3>3
    <3>4. CASE i = 2
      <4>1. kb[1] = kc[1] /\ kb[2] < kc[2]
        BY <3>1, <3>4
      <4> QED BY <1>13, <1>14, <4>1
    <3>5. CASE i = 3
      <4>1. kb[1] = kc[1] /\ kb[2] = kc[2] /\ kb[3] < kc[3]
        BY <3>1, <3>5
      <4> QED BY <1>13, <1>14, <4>1
    <3>6. CASE i >= 4
      <4>1. 1 \in 1 .. i - 1 /\ 2 \in 1 .. i - 1 /\ 3 \in 1 .. i - 1
        BY <3>2, <3>6
      <4>2. kb[1] = kc[1] /\ kb[2] = kc[2] /\ kb[3] = kc[3]
        BY <3>1, <4>1
      <4> QED BY <1>13, <1>14, <4>2
    <3> QED BY <3>2, <3>3, <3>4, <3>5, <3>6
  <2> QED BY <2>1, <2>2
<1>18. ASSUME NEW r \in Rooms(options), over(r) = 0 PROVE ob = 0
  <2>1. oc <= over(r)
    BY <1>6 DEF oc
  <2> HIDE DEF over
  <2> QED BY <1>13, <1>17, <1>18, <2>1
<1>19. ASSUME ob # 0, NEW r \in Rooms(options) PROVE tb <= cost(r)
  <2>1. tc <= cost(r) /\ cost(r) \in Int
    BY <1>6 DEF tc
  <2> HIDE DEF cost
  <2> QED BY <1>13, <1>17, <1>19, <2>1
<1> HIDE DEF over, cost
<1>20. (\E r \in Rooms(options) : Fits(r, plan)) => Fits(b, plan)
  BY <1>10, <1>12, <1>18 DEF ob
<1>21. ~ Fits(b, plan) => \A r \in Rooms(options) : PlanTotal(plan) <= cost(r)
  BY <1>10, <1>11, <1>19 DEF ob, tb
<1> QED BY <1>5, <1>20, <1>21 DEF cost

-----------------------------------------------------------------------------
(* The upgrades                                                            *)

Better(O) == {p \in O \X O : BetterScore(p[1], p[2])}

\* Candidates in the order of their scores.
LEMMA ScoreOrder ==
    ASSUME NEW O, IsFiniteSet(O),
           \A c \in O : c.product.id \in Int /\ c.product.price \in Int /\ c.score \in Int,
           \A c, d \in O : c.product.id = d.product.id => c = d
    PROVE  LET q == InOrder(O, BetterScore)
           IN  /\ Cardinality(O) \in Nat /\ DOMAIN q = 1 .. Cardinality(O)
               /\ IsSeq(q) /\ Len(q) = Cardinality(O)
               /\ \A n \in 1 .. Cardinality(O) : q[n] \in O
<1> DEFINE R == Better(O)
           k == Cardinality(O)
           q == InOrder(O, BetterScore)
           at(n) == CHOOSE x \in O : Cardinality({y \in O : BetterScore(y, x)}) = n - 1
<1>1. k \in Nat
  BY FS_CardinalityType
<1>3. ASSUME NEW x \in O, NEW y \in O PROVE <<x, y>> \in R <=> BetterScore(x, y)
  BY DEF Better
<1>4. OrderedBy(R, O)
  <2>0. ASSUME NEW x \in O PROVE x.product.id \in Int /\ x.product.price \in Int /\ x.score \in Int
    OBVIOUS
  <2>1. ASSUME NEW x \in O PROVE <<x, x>> \notin R
    BY <1>3, <2>0 DEF BetterScore
  <2>2. ASSUME NEW x \in O, NEW y \in O PROVE x = y \/ <<x, y>> \in R \/ <<y, x>> \in R
    <3>1. x.product.id = y.product.id => x = y
      OBVIOUS
    <3> QED BY <1>3, <2>0, <3>1 DEF BetterScore
  <2>3. ASSUME NEW x \in O, NEW y \in O, NEW z \in O, <<x, y>> \in R, <<y, z>> \in R
        PROVE  <<x, z>> \in R
    BY <1>3, <2>0, <2>3 DEF BetterScore
  <2> HIDE DEF R
  <2> QED BY <2>1, <2>2, <2>3 DEF OrderedBy
<1>5. ASSUME NEW x \in O PROVE RankIn(R, O, x) = Cardinality({y \in O : BetterScore(y, x)})
  <2>1. {y \in O : <<y, x>> \in R} = {y \in O : BetterScore(y, x)}
    BY <1>3
  <2> QED BY <2>1 DEF RankIn
<1>6. q = [n \in 1 .. k |-> at(n)]
  BY DEF InOrder
<1>7. ASSUME NEW n \in 1 .. k PROVE q[n] \in O /\ RankIn(R, O, q[n]) = n - 1
  <2>1. n - 1 \in 0 .. k - 1
    <3> HIDE DEF k
    <3> QED BY <1>1
  <2>2. \E x \in O : RankIn(R, O, x) = n - 1
    <3>1. \A j \in 0 .. k - 1 : \E x \in O : RankIn(R, O, x) = j
      <4> HIDE DEF R
      <4> QED BY <1>1, <1>4, Ranks
    <3> HIDE DEF R, k
    <3> QED BY <2>1, <3>1
  <2>3. \E x \in O : Cardinality({y \in O : BetterScore(y, x)}) = n - 1
    <3> HIDE DEF R
    <3> QED BY <2>2, <1>5
  <2>4. q[n] = CHOOSE x \in O : Cardinality({y \in O : BetterScore(y, x)}) = n - 1
    <3>1. q[n] = at(n)
      <4> HIDE DEF q, at, k
      <4> QED BY <1>6
    <3> QED BY <3>1
  <2> HIDE DEF q, R
  <2>5. q[n] \in O /\ Cardinality({y \in O : BetterScore(y, q[n])}) = n - 1
    BY <2>3, <2>4
  <2> QED BY <2>5, <1>5
<1>8. q = [n \in 1 .. k |-> q[n]]
  <2> HIDE DEF q, at
  <2> QED BY <1>6
<1>11. DOMAIN q = 1 .. k
  <2> HIDE DEF k, at
  <2> QED BY <1>6
<1> HIDE DEF q, R
<1>9. /\ q \in Seq(O) /\ IsSeq(q) /\ Len(q) = k /\ Range(q) = O
      /\ \A i, j \in 1 .. k : <<q[i], q[j]>> \in R <=> i < j
  BY <1>1, <1>4, <1>7, <1>8, ByRank
<1> QED BY <1>1, <1>7, <1>9, <1>11 DEF q

\* What is offered as an upgrade was worth it.
LEMMA UpgradeFacts ==
    ASSUME NEW room, NEW i, NEW O, NEW slots, NEW budget, OptionsOk(O, slots[i]),
           NEW n \in DOMAIN Upgrades(room, i, O, slots, budget)
    PROVE  LET up == Upgrades(room, i, O, slots, budget)[n]
               c == up.candidate
               extra == LineTotal(c, slots[i]) - LineTotal(room[i], slots[i])
               total == Total(room, slots) - LineTotal(room[i], slots[i]) + LineTotal(c, slots[i])
           IN  /\ c \in O /\ c.score > room[i].score
               /\ LineTotal(c, slots[i]) > LineTotal(room[i], slots[i])
               /\ LittleMore(LineTotal(c, slots[i]), slots[i].budget) /\ LittleMore(total, budget)
               /\ up.extra = extra /\ up.room_total = total
<1> DEFINE slot == slots[i]
           current == room[i]
           line(c) == LineTotal(c, slot)
           newTotal(c) == Total(room, slots) - line(current) + line(c)
           worth == {c \in O : /\ c.product.id # current.product.id
                               /\ c.score > current.score
                               /\ line(c) > line(current)
                               /\ LittleMore(line(c), slot.budget)
                               /\ LittleMore(newTotal(c), budget)}
           q == InOrder(worth, BetterScore)
           k == Cardinality(worth)
           ups == Upgrades(room, i, O, slots, budget)
           up(m) == [candidate |-> q[m], extra |-> line(q[m]) - line(current), room_total |-> newTotal(q[m])]
           some == [m \in 1 .. MinOf(Len(q), UpgradesPerItem) |-> up(m)]
<1>1. ups = IF slot.budget = {} /\ budget = {} THEN <<>> ELSE some
  BY DEF Upgrades
<1>2. worth \in SUBSET O
  OBVIOUS
<1>3. ASSUME NEW c \in worth
      PROVE  /\ c \in O /\ c.score > current.score /\ line(c) > line(current)
             /\ LittleMore(line(c), slot.budget) /\ LittleMore(newTotal(c), budget)
  OBVIOUS
<1> HIDE DEF worth
<1>4. k \in Nat /\ Len(q) = k /\ \A m \in 1 .. k : q[m] \in worth
  <2>1. IsFiniteSet(worth)
    BY <1>2, FS_Subset DEF OptionsOk
  <2>2. /\ \A c \in worth : c.product.id \in Int /\ c.product.price \in Int /\ c.score \in Int
        /\ \A c, d \in worth : c.product.id = d.product.id => c = d
    BY <1>2 DEF OptionsOk
  <2> QED BY <2>1, <2>2, ScoreOrder
<1> HIDE DEF q, k, up
<1>5. n \in 1 .. MinOf(Len(q), UpgradesPerItem) /\ ups[n] = up(n)
  <2>1. ups = some
    <3>1. DOMAIN ups # {}
      OBVIOUS
    <3>2. DOMAIN <<>> = {}
      OBVIOUS
    <3> HIDE DEF ups, some
    <3> QED BY <1>1, <3>1, <3>2
  <2>2. n \in DOMAIN some
    <3>1. n \in DOMAIN ups
      OBVIOUS
    <3> HIDE DEF ups, some
    <3> QED BY <2>1, <3>1
  <2>3. DOMAIN some = 1 .. MinOf(Len(q), UpgradesPerItem)
    OBVIOUS
  <2>4. some[n] = up(n)
    BY <2>2
  <2> HIDE DEF ups, some
  <2> QED BY <2>1, <2>2, <2>3, <2>4
<1>6. n \in 1 .. k
  BY <1>4, <1>5 DEF MinOf, UpgradesPerItem
<1>7. q[n] \in worth
  BY <1>4, <1>6
<1>8. /\ up(n).candidate = q[n] /\ up(n).extra = line(q[n]) - line(current)
      /\ up(n).room_total = newTotal(q[n])
  BY DEF up
<1> HIDE DEF line, newTotal, ups, slot, current
<1>9. /\ q[n] \in O /\ q[n].score > current.score /\ line(q[n]) > line(current)
      /\ LittleMore(line(q[n]), slot.budget) /\ LittleMore(newTotal(q[n]), budget)
  BY <1>3, <1>7
<1>10. /\ ups[n].candidate = q[n] /\ ups[n].extra = line(q[n]) - line(current)
       /\ ups[n].room_total = newTotal(q[n])
  BY <1>5, <1>8
<1> QED BY <1>9, <1>10 DEF line, newTotal, ups, slot, current

\* The room with one line exchanged.
LEMMA SwappedRoom ==
    ASSUME NEW slots, NEW lists, NEW budget, Fillable(slots, lists, budget), NEW r \in Rooms(lists),
           NEW i \in DOMAIN slots, NEW c \in lists[i]
    PROVE  LET room == [r EXCEPT ![i] = c]
           IN  /\ room[i] = c
               /\ Total(room, slots) =
                     Total(r, slots) - LineTotal(r[i], slots[i]) + LineTotal(c, slots[i])
               /\ RoomScore(room) = RoomScore(r) - r[i].score + c.score
               /\ Total(r, slots) \in Int /\ RoomScore(r) \in Int
               /\ LineTotal(r[i], slots[i]) \in Int /\ LineTotal(c, slots[i]) \in Int
               /\ r[i].score \in Int /\ c.score \in Int
<1> DEFINE S == DOMAIN slots
           room == [r EXCEPT ![i] = c]
           f == Lines(r, slots)
           g == Lines(room, slots)
           a == Scores(r)
           b == Scores(room)
<1>1. DOMAIN lists = S /\ DOMAIN r = S
  BY RoomFacts DEF Fillable
<1>2. /\ r = [j \in S |-> r[j]] /\ r \in [S -> UNION {lists[j] : j \in S}]
      /\ \A j \in S : r[j] \in lists[j]
  BY <1>1 DEF Rooms
<1>3. DOMAIN room = S /\ room[i] = c /\ \A j \in S : j # i => room[j] = r[j]
  BY <1>1
<1>4. room \in Rooms(lists)
  <2>1. \A j \in S : room[j] \in lists[j]
    BY <1>2, <1>3
  <2>2. room = [j \in S |-> room[j]]
    BY <1>1
  <2> HIDE DEF room
  <2>3. room \in [S -> UNION {lists[j] : j \in S}]
    BY <2>1, <2>2
  <2> QED BY <1>1, <2>1, <2>3 DEF Rooms
<1> HIDE DEF room
<1>5. /\ \A j \in S : f[j] \in Int /\ g[j] \in Int
      /\ \A j \in S \ {i} : f[j] = g[j]
      /\ f[i] = LineTotal(r[i], slots[i]) /\ g[i] = LineTotal(c, slots[i])
  <2>1. \A j \in S : f[j] = LineTotal(r[j], slots[j]) /\ g[j] = LineTotal(room[j], slots[j])
    BY DEF Lines
  <2>2. \A j \in S : LineTotal(r[j], slots[j]) \in Int /\ LineTotal(room[j], slots[j]) \in Int
    BY <1>4, RoomFacts
  <2> HIDE DEF f, g
  <2> QED BY <1>3, <2>1, <2>2
<1>6. /\ \A j \in S : a[j] \in Int /\ b[j] \in Int
      /\ \A j \in S \ {i} : a[j] = b[j]
      /\ a[i] = r[i].score /\ b[i] = c.score
  <2>1. \A j \in S : a[j] = r[j].score /\ b[j] = room[j].score
    BY <1>1, <1>3 DEF Scores
  <2>2. \A j \in S : r[j].score \in Int /\ room[j].score \in Int
    BY <1>4, RoomFacts
  <2> HIDE DEF a, b
  <2> QED BY <1>3, <2>1, <2>2
<1>7. /\ IsFiniteSet(S) /\ Total(r, slots) = Sum(f, S) /\ Total(room, slots) = Sum(g, S)
      /\ RoomScore(r) = Sum(a, S) /\ RoomScore(room) = Sum(b, S)
  BY <1>4, RoomFacts
<1> HIDE DEF S, f, g, a, b
<1>8. Sum(g, S) = (Sum(f, S) - f[i]) + g[i] /\ Sum(f, S) \in Int
  BY <1>5, <1>7, SumChange DEF S
<1>9. Sum(b, S) = (Sum(a, S) - a[i]) + b[i] /\ Sum(a, S) \in Int
  BY <1>6, <1>7, SumChange DEF S
<1>10. f[i] \in Int /\ g[i] \in Int /\ a[i] \in Int /\ b[i] \in Int
  BY <1>5, <1>6 DEF S
<1> QED BY <1>3, <1>5, <1>6, <1>7, <1>8, <1>9, <1>10 DEF room

LEMMA PlanUpgrades ==
    ASSUME NEW plan, PlanOk(plan), NEW i \in DOMAIN plan.upgrades, NEW n \in DOMAIN plan.upgrades[i]
    PROVE  LET up == plan.upgrades[i][n]
               room == [plan.items EXCEPT ![i] = up.candidate]
               total == Total(room, plan.slots)
           IN  /\ i \in DOMAIN plan.slots
               /\ total = up.room_total /\ total = PlanTotal(plan) + up.extra /\ up.extra > 0
               /\ \A b \in plan.budget : 100 * total <= 115 * b
               /\ \A b \in plan.slots[i].budget : 100 * LineTotal(room[i], plan.slots[i]) <= 115 * b
               /\ RoomScore(room) > RoomScore(plan.items)
<1> DEFINE slots == plan.slots
           items == plan.items
           options == plan.options
           up == plan.upgrades[i][n]
           c == up.candidate
           room == [items EXCEPT ![i] = c]
           total == Total(room, slots)
           lineC == LineTotal(c, slots[i])
           lineNow == LineTotal(items[i], slots[i])
           now == Total(items, slots)
           scoreNow == RoomScore(items)
           score == RoomScore(room)
<1>1. i \in DOMAIN slots /\ plan.upgrades[i] = Upgrades(items, i, options[i], slots, plan.budget)
  BY DEF PlanOk
<1>2. Fillable(slots, options, plan.budget) /\ OptionsOk(options[i], slots[i])
  BY <1>1 DEF PlanOk, Fillable
<1>3. items \in Rooms(options)
  <2>1. slots # <<>>
    <3>1. DOMAIN <<>> = {}
      OBVIOUS
    <3> HIDE DEF slots
    <3> QED BY <1>1, <3>1
  <2> QED BY <2>1, BestPlan
<1>4. /\ c \in options[i] /\ c.score > items[i].score /\ lineC > lineNow
      /\ LittleMore(lineC, slots[i].budget) /\ LittleMore(now - lineNow + lineC, plan.budget)
      /\ up.extra = lineC - lineNow /\ up.room_total = now - lineNow + lineC
  <2> HIDE DEF slots, items, options
  <2>1. n \in DOMAIN Upgrades(items, i, options[i], slots, plan.budget)
    BY <1>1
  <2> QED BY <1>1, <1>2, <2>1, UpgradeFacts
<1> HIDE DEF up
<1>5. /\ room[i] = c /\ total = now - lineNow + lineC
      /\ score = scoreNow - items[i].score + c.score
      /\ now \in Int /\ scoreNow \in Int /\ lineNow \in Int /\ lineC \in Int
      /\ items[i].score \in Int /\ c.score \in Int
  <2> HIDE DEF slots, items, options, c
  <2> QED BY <1>1, <1>2, <1>3, <1>4, SwappedRoom
<1>6. PlanTotal(plan) = now
  BY DEF PlanTotal
<1> HIDE DEF room, total, now, scoreNow, score, lineC, lineNow, items, slots, c
<1>7. total = up.room_total /\ total = now + up.extra /\ up.extra > 0 /\ score > scoreNow
  BY <1>4, <1>5
<1>8. /\ \A b \in plan.budget : 100 * total <= 115 * b
      /\ \A b \in slots[i].budget : 100 * lineC <= 115 * b
  BY <1>4, <1>5 DEF LittleMore
<1>9. LineTotal(room[i], slots[i]) = lineC
  BY <1>5 DEF lineC
<1> QED BY <1>1, <1>6, <1>7, <1>8, <1>9 DEF room, total, scoreNow, score, items, slots, c, up

\* Every product of a plan is for sale, in a colour that has the quantity.
LEMMA PlanBuyable ==
    ASSUME shop \in Shops, NEW plan, PlanOk(plan), NEW i \in DOMAIN plan.slots
    PROVE  \E r \in shop.rows :
              /\ r.id = plan.items[i].product.id /\ IsRecommendationEligible(r)
              /\ \E c \in r.colours : /\ Lookup(COLOURS, c.label) = plan.items[i].colour.slug
                                       /\ c.stock >= plan.slots[i].quantity
<1> DEFINE slots == plan.slots
           options == plan.options
           pick == plan.items[i]
           p == pick.product
           k == pick.colour
<1>1. Fillable(slots, options, plan.budget) /\ OptionsOk(options[i], slots[i])
  BY DEF PlanOk, Fillable
<1>2. plan.items \in Rooms(options)
  <2>1. slots # <<>>
    <3>1. DOMAIN <<>> = {} /\ i \in DOMAIN slots
      OBVIOUS
    <3> HIDE DEF slots
    <3> QED BY <3>1
  <2> QED BY <2>1, BestPlan
<1>3. pick \in options[i]
  <2> HIDE DEF options
  <2> QED BY <1>1, <1>2, RoomFacts
<1>4. p \in Range(Candidates) /\ k \in ColourFor(p, slots[i])
  BY <1>1, <1>3 DEF OptionsOk
<1> HIDE DEF p, k, slots
<1>5. k \in p.colours /\ k.stock >= slots[i].quantity
  BY <1>4 DEF ColourFor
<1>6. PICK r \in CatalogueQuery(shop.rows) : p = NormalizeProduct(r)
  BY <1>4, CandidateFacts
<1>7. p.id = r.id /\ \E d \in r.colours : k.slug = Lookup(COLOURS, d.label) /\ k.stock = d.stock
  BY <1>5, <1>6, NormalizedFacts
<1>8. PICK d \in r.colours : k.slug = Lookup(COLOURS, d.label) /\ k.stock = d.stock
  BY <1>7
<1>9. PICK q \in shop.rows : IsRecommendationEligible(q) /\ r.id = q.id /\ r.colours \subseteq q.colours
  BY QueryRows
<1>10. d \in q.colours /\ d.stock >= slots[i].quantity /\ q.id = p.id
  BY <1>5, <1>7, <1>8, <1>9
<1> QED BY <1>8, <1>9, <1>10 DEF p, k, slots

-----------------------------------------------------------------------------
(* The answers                                                             *)

\* A plan that was answered is a plan of the caller's candidates, for a
\* specification that the model's draft gave.
Planned ==
    /\ shop \in Shops /\ request \in Requests
    /\ Answered("room") =>
          \E t \in Turns : \E s \in SpecificationFromRoomDraft(request.draft, t.query) :
              answer = RoomReply(PlanRoom(Candidates, s), s)

LEMMA PlannedInit == Init => Planned
<1> SUFFICES ASSUME Init PROVE Planned
  OBVIOUS
<1>1. shop \in Shops /\ request \in Requests /\ answer.status # "ok"
  BY DEF Init, Unanswered
<1> QED BY <1>1 DEF Planned, Answered

LEMMA PlannedStep == Planned /\ [Next]_vars => Planned'
<1> SUFFICES ASSUME Planned, [Next]_vars PROVE Planned'
  OBVIOUS
<1>1. CASE UNCHANGED vars
  BY <1>1 DEF Planned, vars, Answered, Turns, Candidates, CandidateRows, Products
<1>2. ASSUME NEW kind, NEW replies, Reply(kind, replies), kind # "room" PROVE Planned'
  <2>1. shop' = shop /\ request' = request /\ request.kind # "room"
    BY <1>2 DEF Reply
  <2> QED BY <2>1 DEF Planned, Answered
<1>3. CASE Plan
  <2> DEFINE specs == UNION {SpecificationFromRoomDraft(request.draft, t.query) : t \in Turns}
             replies == IF Turns = {} THEN {Failed("invalid_query")}
                        ELSE IF specs = {} THEN {Failed("search_upstream_error")}
                        ELSE {RoomReply(PlanRoom(Candidates, s), s) : s \in specs}
  <2>1. shop' = shop /\ request' = request /\ answer' \in replies
    BY <1>3 DEF Plan, Reply
  <2>2. Turns' = Turns /\ Candidates' = Candidates
    BY <2>1 DEF Turns, Candidates, CandidateRows, Products
  <2>3. ASSUME answer'.status = "ok" PROVE \E s \in specs : answer' = RoomReply(PlanRoom(Candidates, s), s)
    <3>1. Failed("invalid_query").status # "ok" /\ Failed("search_upstream_error").status # "ok"
      BY DEF Failed
    <3>2. answer' \in {RoomReply(PlanRoom(Candidates, s), s) : s \in specs}
      <4> HIDE DEF specs
      <4> QED BY <2>1, <2>3, <3>1
    <3> HIDE DEF specs
    <3> QED BY <3>2
  <2>4. ASSUME answer'.status = "ok"
        PROVE  \E t \in Turns : \E s \in SpecificationFromRoomDraft(request.draft, t.query) :
                  answer' = RoomReply(PlanRoom(Candidates, s), s)
    <3>1. PICK s \in specs : answer' = RoomReply(PlanRoom(Candidates, s), s)
      BY <2>3, <2>4
    <3>2. PICK t \in Turns : s \in SpecificationFromRoomDraft(request.draft, t.query)
      OBVIOUS
    <3> QED BY <3>1, <3>2
  <2> QED BY <2>1, <2>2, <2>4 DEF Planned, Answered
<1>4. CASE Search
  BY <1>2, <1>4 DEF Search
<1>5. CASE CompareProducts
  BY <1>2, <1>5 DEF CompareProducts
<1>6. CASE Similar
  BY <1>2, <1>6 DEF Similar
<1>7. CASE ListPage
  BY <1>2, <1>7 DEF ListPage
<1>8. CASE View
  BY <1>2, <1>8 DEF View
<1>9. CASE ListPublicReviews
  BY <1>2, <1>9 DEF ListPublicReviews
<1>10. CASE ClassifyService
  BY <1>2, <1>10 DEF ClassifyService
<1>11. CASE ReadBrief
  BY <1>2, <1>11 DEF ReadBrief
<1> QED BY <1>1, <1>3, <1>4, <1>5, <1>6, <1>7, <1>8, <1>9, <1>10, <1>11 DEF Next

LEMMA AlwaysPlanned == Spec => []Planned
<1> QED BY PlannedInit, PlannedStep, PTL DEF Spec

LEMMA AnswerFacts ==
    ASSUME Planned, Answered("room")
    PROVE  /\ PlanOk(answer.plan)
           /\ \E s : answer.response = BuildRoomPlanResponse(answer.plan, s)
<1>1. PICK t \in Turns : \E s \in SpecificationFromRoomDraft(request.draft, t.query) :
              answer = RoomReply(PlanRoom(Candidates, s), s)
  BY DEF Planned
<1>2. PICK s \in SpecificationFromRoomDraft(request.draft, t.query) :
              answer = RoomReply(PlanRoom(Candidates, s), s)
  BY <1>1
<1>3. SpecOk(s)
  BY SpecFacts DEF Planned, Answered
<1> DEFINE plan == PlanRoom(Candidates, s)
<1>4. PlanOk(plan)
  BY <1>3, PlanFacts DEF Planned
<1> HIDE DEF plan
<1>5. answer.plan = plan /\ answer.response = BuildRoomPlanResponse(plan, s)
  BY <1>2 DEF RoomReply, plan
<1> QED BY <1>4, <1>5

(* When some choice of one candidate for each slot meets every budget, the  *)
(* room that is answered meets every budget (rooms/planner.py): the         *)
(* shortlists keep a cheapest candidate of each slot, and no room beats     *)
(* theirs unless it is within budget too.                                   *)
THEOREM AffordableRoomIsFound == Spec => []AffordableRoomFound
<1>1. Planned => AffordableRoomFound
  <2> SUFFICES ASSUME Planned, Answered("room"), answer.plan.slots # <<>>,
                      NEW r \in Rooms(answer.plan.options), Fits(r, answer.plan)
               PROVE  answer.response.within_budget /\ answer.response.every_line_within_budget
    BY DEF AffordableRoomFound
  <2> DEFINE plan == answer.plan
  <2>1. PlanOk(plan)
    BY AnswerFacts
  <2>2. PICK s : answer.response = BuildRoomPlanResponse(plan, s)
    BY AnswerFacts
  <2>3. plan.items \in Rooms(plan.options) /\ Fits(plan.items, plan)
    <3>1. plan.slots # <<>> /\ r \in Rooms(plan.options) /\ Fits(r, plan)
      OBVIOUS
    <3> HIDE DEF plan
    <3> QED BY <2>1, <3>1, BestPlan
  <2> HIDE DEF plan
  <2>4. Fillable(plan.slots, plan.options, plan.budget)
    BY <2>1 DEF PlanOk
  <2>5. /\ \A b \in plan.budget : Total(plan.items, plan.slots) <= b
        /\ \A i \in DOMAIN plan.slots : FitsLine(plan.items[i], plan.slots[i])
    BY <2>3, <2>4, OverageFacts DEF Fits
  <2>6. WithinBudget(plan) /\ EveryLineWithinBudget(plan)
    BY <2>5 DEF WithinBudget, EveryLineWithinBudget, PlanTotal
  <2>7. /\ answer.response.within_budget = WithinBudget(plan)
        /\ answer.response.every_line_within_budget = EveryLineWithinBudget(plan)
    BY <2>2 DEF BuildRoomPlanResponse
  <2> QED BY <2>6, <2>7
<1> QED BY <1>1, AlwaysPlanned, PTL

(* A room that is over some budget is as cheap as any room of the           *)
(* candidates: "If nothing fits, the cheapest room is returned"             *)
(* (docs/phase-8-room-planning.md), although the planner ranks by how far   *)
(* over each budget a room is (rooms/planner.py).                           *)
THEOREM ClosestIsCheapest == Spec => []ClosestRoomIsCheapest
<1>1. Planned => ClosestRoomIsCheapest
  <2> SUFFICES ASSUME Planned, Answered("room"), answer.plan.slots # <<>>,
                      ~ Fits(answer.plan.items, answer.plan), NEW r \in Rooms(answer.plan.options)
               PROVE  PlanTotal(answer.plan) <= Total(r, answer.plan.slots)
    BY DEF ClosestRoomIsCheapest
  <2>1. PlanOk(answer.plan)
    BY AnswerFacts
  <2> QED BY <2>1, BestPlan
<1> QED BY <1>1, AlwaysPlanned, PTL

(* Exchanging one line for its upgrade costs what the upgrade says, stays   *)
(* within 115 percent of every budget and raises the score of the room.     *)
THEOREM UpgradesKeepPromises == Spec => []UpgradesKeepTheirPromise
<1>1. Planned => UpgradesKeepTheirPromise
  <2> SUFFICES ASSUME Planned, Answered("room") PROVE UpgradesKeepTheirPromise
    BY DEF UpgradesKeepTheirPromise
  <2> DEFINE plan == answer.plan
  <2>1. PlanOk(plan)
    BY AnswerFacts
  <2>2. ASSUME NEW i \in DOMAIN plan.upgrades, NEW n \in DOMAIN plan.upgrades[i]
        PROVE  LET up == plan.upgrades[i][n]
                   room == [plan.items EXCEPT ![i] = up.candidate]
                   total == Total(room, plan.slots)
               IN  /\ total = up.room_total /\ total = PlanTotal(plan) + up.extra /\ up.extra > 0
                   /\ \A b \in plan.budget : 100 * total <= 115 * b
                   /\ \A b \in plan.slots[i].budget : 100 * LineTotal(room[i], plan.slots[i]) <= 115 * b
                   /\ RoomScore(room) > RoomScore(plan.items)
    <3> HIDE DEF plan
    <3> QED BY <2>1, PlanUpgrades
  <2> HIDE DEF plan
  <2>3. \A i \in DOMAIN plan.upgrades : \A n \in DOMAIN plan.upgrades[i] :
            LET up == plan.upgrades[i][n]
                room == [plan.items EXCEPT ![i] = up.candidate]
                total == Total(room, plan.slots)
            IN  /\ total = up.room_total /\ total = PlanTotal(plan) + up.extra /\ up.extra > 0
                /\ \A b \in plan.budget : 100 * total <= 115 * b
                /\ \A b \in plan.slots[i].budget : 100 * LineTotal(room[i], plan.slots[i]) <= 115 * b
                /\ RoomScore(room) > RoomScore(plan.items)
    BY <2>2
  <2> QED BY <2>3 DEF UpgradesKeepTheirPromise, plan
<1> QED BY <1>1, AlwaysPlanned, PTL

(* Every line of a plan can be bought: its product is a row of the database *)
(* that is for sale, and one colour of it has the whole quantity.           *)
THEOREM PlansAreBuyable == Spec => []PlanIsBuyable
<1>1. Planned => PlanIsBuyable
  <2> SUFFICES ASSUME Planned, Answered("room"), NEW i \in DOMAIN answer.response.image_request
               PROVE  LET line == answer.response.image_request[i]
                      IN  \E r \in shop.rows :
                             /\ r.id = line.product /\ IsRecommendationEligible(r)
                             /\ \E c \in r.colours : /\ Lookup(COLOURS, c.label) = line.colour
                                                      /\ c.stock >= line.quantity
    BY DEF PlanIsBuyable
  <2> DEFINE plan == answer.plan
             line == answer.response.image_request[i]
  <2>1. PlanOk(plan) /\ shop \in Shops
    BY AnswerFacts DEF Planned
  <2>2. PICK s : answer.response = BuildRoomPlanResponse(plan, s)
    BY AnswerFacts
  <2> HIDE DEF plan
  <2>3. answer.response.image_request =
            [j \in DOMAIN plan.slots |->
                [product |-> plan.items[j].product.id, quantity |-> plan.slots[j].quantity,
                 colour |-> plan.items[j].colour.slug]]
    BY <2>2 DEF BuildRoomPlanResponse
  <2>4. i \in DOMAIN plan.slots
    BY <2>3
  <2>5. /\ line.product = plan.items[i].product.id /\ line.quantity = plan.slots[i].quantity
        /\ line.colour = plan.items[i].colour.slug
    BY <2>3, <2>4
  <2> HIDE DEF line
  <2>6. \E r \in shop.rows :
            /\ r.id = line.product /\ IsRecommendationEligible(r)
            /\ \E c \in r.colours : Lookup(COLOURS, c.label) = line.colour /\ c.stock >= line.quantity
    BY <2>1, <2>4, <2>5, PlanBuyable
  <2> QED BY <2>6 DEF line
<1> QED BY <1>1, AlwaysPlanned, PTL
==================================================================================
