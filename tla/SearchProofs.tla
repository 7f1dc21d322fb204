------------------------------- MODULE SearchProofs -------------------------------
(***************************************************************************)
(* What a search, a page and a room's draft promise, for every catalogue,  *)
(* tag table, purchase history, request and draft of the model.            *)
(***************************************************************************)
EXTENDS AnswersProofs

-----------------------------------------------------------------------------
(* The rows a search reads, and the products it makes of them              *)

Cut(q) == [q EXCEPT !.colours = {c \in q.colours : c.stock > 0}, !.enrichment = Confirmed(q)]

\* The query leaves of an eligible row its colours in stock and what the
\* seller confirmed, and the row stays eligible.
LEMMA CutFacts ==
    ASSUME NEW s \in Shops, NEW q \in s.rows, IsRecommendationEligible(q)
    PROVE  /\ Cut(q).id = q.id /\ Cut(q).price = q.price /\ Cut(q).discount = q.discount
           /\ \A d \in Dimensions : Cut(q)[d] = q[d]
           /\ Cut(q).colours = {c \in q.colours : c.stock > 0}
           /\ EffectivePrice(Cut(q)) = EffectivePrice(q)
           /\ IsRecommendationEligible(Cut(q))
<1>1. RowColumns \subseteq DOMAIN q
  BY ShopAssumption
<1> DEFINE r == Cut(q)
<1>2. /\ r.id = q.id /\ r.price = q.price /\ r.discount = q.discount
      /\ r.width = q.width /\ r.height = q.height /\ r.depth = q.depth
      /\ r.lifecycle_state = q.lifecycle_state /\ r.approval_state = q.approval_state
      /\ r.category_active = q.category_active
  BY DEF Cut
<1>3. r.colours = {c \in q.colours : c.stock > 0}
  BY <1>1 DEF Cut, RowColumns
<1> HIDE DEF r
<1>4. \A d \in Dimensions : r[d] = q[d]
  BY <1>2 DEF Dimensions
<1>5. EffectivePrice(r) = EffectivePrice(q)
  BY <1>2 DEF EffectivePrice
<1>6. IsRecommendationEligible(r)
  BY <1>2, <1>3 DEF IsRecommendationEligible
<1> QED BY <1>2, <1>3, <1>4, <1>5, <1>6 DEF r

LEMMA QueryRow ==
    ASSUME NEW s \in Shops, NEW r \in CatalogueQuery(s.rows)
    PROVE  \E q \in s.rows : IsRecommendationEligible(q) /\ r = Cut(q)
  BY DEF CatalogueQuery, Cut

\* What a table of tags adds to a product: finitely many, each with a confidence.
TagsOk(T) == IsFiniteSet(T) /\ \A t \in T : t.confidence \in 1 .. 100

\* A normalised row with tags.
Tagged(r, T) == [NormalizeProduct(r) EXCEPT !.tags = T]

LEMMA TaggedFacts ==
    ASSUME NEW r, NEW T
    PROVE  LET p == Tagged(r, T)
           IN  /\ p.id = r.id /\ p.price = EffectivePrice(r)
               /\ p.width = r.width /\ p.height = r.height /\ p.depth = r.depth
               /\ p.colours = {[slug |-> Lookup(COLOURS, c.label), stock |-> c.stock] : c \in r.colours}
               /\ p.tags = T
               /\ p.category = Lookup(CATEGORIES, r.category)
               /\ DOMAIN p = DOMAIN NormalizeProduct(r)
               /\ [p EXCEPT !.tags = {}] = NormalizeProduct(r)
<1> DEFINE n == NormalizeProduct(r)
           category == Lookup(CATEGORIES, r.category)
           colours == {[slug |-> Lookup(COLOURS, c.label), stock |-> c.stock] : c \in r.colours}
           materials == {Lookup(MATERIALS, m) : m \in r.materials} \ {Unmapped}
           attributes == {[kind |-> a.kind, label |-> a.label] : a \in Confirmed(r)}
           price == EffectivePrice(r)
           words == SearchTerms(r)
           p == Tagged(r, T)
<1>1. n = [id |-> r.id, category |-> category, category_id |-> r.category, colours |-> colours,
           materials |-> materials, attributes |-> attributes, price |-> price, width |-> r.width,
           height |-> r.height, depth |-> r.depth, words |-> words, tags |-> {}]
  BY DEF NormalizeProduct
<1>2. p = [n EXCEPT !.tags = T]
  BY DEF Tagged
<1> HIDE DEF n, p, category, colours, materials, attributes, price, words
<1>3. /\ p.id = r.id /\ p.price = price /\ p.width = r.width /\ p.height = r.height /\ p.depth = r.depth
      /\ p.colours = colours /\ p.tags = T /\ p.category = category /\ DOMAIN p = DOMAIN n
  BY <1>1, <1>2
<1>4. [p EXCEPT !.tags = {}] = n
  <2>1. n = [x \in DOMAIN n |-> n[x]] /\ n.tags = {}
    BY <1>1
  <2> QED BY <1>2, <2>1
<1> QED BY <1>3, <1>4 DEF n, p, category, colours, price

LEMMA NormalizedIsTagged ==
    ASSUME NEW r
    PROVE  /\ NormalizeProduct(r) = Tagged(r, {})
           /\ \A T : WithTags(NormalizeProduct(r), T) =
                        Tagged(r, {t \in T : \A u \in T :
                                     u.kind = t.kind /\ u.slug = t.slug => u.confidence <= t.confidence})
<1> DEFINE n == NormalizeProduct(r)
<1>1. n = [n EXCEPT !.tags = {}]
  <2>1. n.tags = {} /\ n = [x \in DOMAIN n |-> n[x]]
    BY DEF NormalizeProduct
  <2> HIDE DEF n
  <2> QED BY <2>1
<1> QED BY <1>1 DEF Tagged, WithTags

-----------------------------------------------------------------------------
(* Parts of a sequence                                                     *)

\* The members at some places, in their order: an index map says which.
LEMMA TakenOf ==
    ASSUME NEW s, IsSeq(s), NEW K, K \subseteq DOMAIN s
    PROVE  LET t == Taken(s, K)
           IN  /\ IsFiniteSet(K) /\ IsSeq(t) /\ Len(t) = Cardinality(K) /\ Len(t) \in Nat
               /\ DOMAIN t = 1 .. Len(t)
               /\ \E h \in [1 .. Len(t) -> K] :
                     /\ \A i \in 1 .. Len(t) : t[i] = s[h[i]]
                     /\ \A n \in K : \E i \in 1 .. Len(t) : h[i] = n
                     /\ \A i, j \in 1 .. Len(t) : h[i] < h[j] <=> i < j
<1> DEFINE kept == InOrder(K, <)
           k == Cardinality(K)
           t == Taken(s, K)
<1>1. Len(s) \in Nat /\ K \in SUBSET (1 .. Len(s))
  <2>1. Len(s) \in Nat /\ DOMAIN s = 1 .. Len(s)
    BY LenProperties DEF IsSeq
  <2> QED BY <2>1
<1>2. IsFiniteSet(K) /\ \A x \in K : x \in Int
  <2>1. \A x \in K : x \in Int
    BY <1>1
  <2> QED BY <1>1, <2>1, PartOfInterval
<1>3. /\ k \in Nat /\ DOMAIN kept = 1 .. k /\ kept \in Seq(K) /\ Len(kept) = k /\ Range(kept) = K
      /\ \A i, j \in 1 .. k : kept[i] < kept[j] <=> i < j
  BY <1>2, IndexOrder
<1>4. t = [n \in 1 .. k |-> s[kept[n]]]
  BY <1>3 DEF Taken
<1>5. /\ IsSeq(t) /\ DOMAIN t = 1 .. Len(t) /\ Len(t) \in Nat
  BY <1>2, TakenFacts
<1> HIDE DEF kept, k, t
<1>6. Len(t) = k
  <2>1. 1 .. Len(t) = 1 .. k
    BY <1>4, <1>5
  <2> QED BY <1>3, <1>5, <2>1, SameInterval
<1>7. kept \in [1 .. k -> K] /\ \A e : e \in K <=> \E i \in 1 .. k : e = kept[i]
  BY <1>3, SeqFacts, LenProperties
<1>8. \A i \in 1 .. k : t[i] = s[kept[i]]
  BY <1>4
<1>9. \A n \in K : \E i \in 1 .. k : kept[i] = n
  BY <1>7
<1> QED BY <1>2, <1>3, <1>5, <1>6, <1>7, <1>8, <1>9 DEF t, k

\* When all are taken, it is the sequence itself.
LEMMA TakenAll ==
    ASSUME NEW s, IsSeq(s)
    PROVE  Taken(s, DOMAIN s) = s
<1> DEFINE n == Len(s)
           kept == InOrder(DOMAIN s, <)
<1>1. n \in Nat /\ DOMAIN s = 1 .. n /\ s = [i \in 1 .. n |-> s[i]]
  BY LenProperties DEF IsSeq
<1>2. Cardinality(DOMAIN s) = n
  <2>1. 1 \in Int /\ n \in Int
    BY <1>1
  <2> HIDE DEF n
  <2>2. Cardinality(1 .. n) = IF 1 > n THEN 0 ELSE n - 1 + 1
    BY <2>1, FS_Interval
  <2> QED BY <1>1, <2>2
<1>3. ASSUME NEW i \in 1 .. n, NEW x \in 1 .. n PROVE Cardinality({y \in 1 .. n : y < x}) = x - 1
  <2> HIDE DEF n
  <2> DEFINE B == {y \in 1 .. n : y < x}
             c == x - 1
  <2>1. B = 1 .. c
    BY <1>1
  <2>2. 1 \in Int /\ c \in Int /\ c >= 0
    BY <1>1
  <2> HIDE DEF B, c
  <2>3. Cardinality(1 .. c) = IF 1 > c THEN 0 ELSE c - 1 + 1
    BY <2>2, FS_Interval
  <2>4. Cardinality(B) = c
    BY <2>1, <2>2, <2>3
  <2> QED BY <2>4 DEF B, c
<1>4. kept = [i \in 1 .. n |-> CHOOSE x \in 1 .. n : Cardinality({y \in 1 .. n : y < x}) = i - 1]
  BY <1>1, <1>2 DEF InOrder
<1>5. \A i \in 1 .. n : kept[i] = i
  <2> TAKE i \in 1 .. n
  <2>1. kept[i] = CHOOSE x \in 1 .. n : Cardinality({y \in 1 .. n : y < x}) = i - 1
    BY <1>4
  <2>2. \A x \in 1 .. n : Cardinality({y \in 1 .. n : y < x}) = i - 1 <=> x = i
    <3> TAKE x \in 1 .. n
    <3>1. Cardinality({y \in 1 .. n : y < x}) = x - 1
      BY <1>3
    <3> HIDE DEF n
    <3> QED BY <3>1, <1>1
  <2> HIDE DEF kept, n
  <2> QED BY <2>1, <2>2
<1>6. DOMAIN kept = 1 .. n
  BY <1>4
<1> HIDE DEF kept, n
<1>7. Taken(s, DOMAIN s) = [i \in 1 .. n |-> s[kept[i]]]
  BY <1>6 DEF Taken, kept
<1>8. [i \in 1 .. n |-> s[kept[i]]] = [i \in 1 .. n |-> s[i]]
  BY <1>5
<1> QED BY <1>1, <1>7, <1>8

\* The beginning of a sequence, as long as it can be.
LEMMA FirstFew ==
    ASSUME NEW s, IsSeq(s), NEW n \in Nat
    PROVE  LET t == SubSeq(s, 1, MinOf(Len(s), n))
           IN  /\ IsSeq(t) /\ Len(t) = MinOf(Len(s), n) /\ Len(t) \in Nat /\ Len(s) \in Nat
               /\ Len(t) <= Len(s) /\ Len(t) <= n
               /\ DOMAIN t = 1 .. Len(t) /\ \A i \in 1 .. Len(t) : t[i] = s[i]
<1> DEFINE S == Range(s)
           m == MinOf(Len(s), n)
           t == SubSeq(s, 1, m)
<1>1. s \in Seq(S) /\ Len(s) \in Nat
  BY LenProperties DEF IsSeq
<1>2. m \in Nat /\ m <= Len(s) /\ m <= n
  BY <1>1 DEF MinOf
<1> HIDE DEF m
<1>3. \A i \in 1 .. m : s[i] \in S
  BY <1>1, <1>2, LenProperties
<1>4. t \in Seq(S) /\ Len(t) = (IF 1 <= m THEN m - 1 + 1 ELSE 0) /\ \A i \in 1 .. m - 1 + 1 : t[i] = s[1 + i - 1]
  <2>1. 1 \in Int /\ m \in Int
    BY <1>2
  <2> HIDE DEF S
  <2> QED BY <2>1, <1>1, <1>3, SubSeqProperties
<1>5. Len(t) = m
  BY <1>2, <1>4
<1>6. \A i \in 1 .. m : t[i] = s[i]
  BY <1>2, <1>4
<1>7. IsSeq(t) /\ DOMAIN t = 1 .. Len(t)
  BY <1>4, SeqFacts
<1> HIDE DEF t
<1> QED BY <1>1, <1>2, <1>5, <1>6, <1>7 DEF t, m

-----------------------------------------------------------------------------
(* Sorted sequences                                                        *)

\* What a set of pairs must be to sort by it: it need not separate all.
Sorts(R, S) ==
    /\ \A x \in S : <<x, x>> \notin R
    /\ \A x, y, z \in S : <<x, z>> \in R => <<x, y>> \in R \/ <<y, z>> \in R
    /\ \A x, y, z \in S : <<x, y>> \in R /\ <<y, z>> \in R => <<x, z>> \in R

\* The places of a sequence, as a stable sort orders them.
First(s, R) == {p \in (DOMAIN s) \X (DOMAIN s) :
                   \/ <<s[p[1]], s[p[2]]>> \in R
                   \/ <<s[p[2]], s[p[1]]>> \notin R /\ p[1] < p[2]}
Places(s, R) == [n \in 1 .. Cardinality(DOMAIN s) |->
                    CHOOSE x \in DOMAIN s : RankIn(First(s, R), DOMAIN s, x) = n - 1]
Arranged(s, R) == [n \in 1 .. Cardinality(DOMAIN s) |-> s[Places(s, R)[n]]]

LEMMA PlacesOrdered ==
    ASSUME NEW s, IsSeq(s), NEW R, Sorts(R, Range(s))
    PROVE  OrderedBy(First(s, R), DOMAIN s)
<1> DEFINE D == DOMAIN s
           F == First(s, R)
<1>1. Len(s) \in Nat /\ D = 1 .. Len(s) /\ \A i \in D : i \in Int /\ s[i] \in Range(s)
  <2>1. Len(s) \in Nat /\ D = 1 .. Len(s) /\ \A e : e \in Range(s) <=> \E i \in 1 .. Len(s) : e = s[i]
    BY SeqFacts DEF IsSeq
  <2> QED BY <2>1
<1>2. ASSUME NEW i \in D, NEW j \in D
      PROVE  <<i, j>> \in F <=> (\/ <<s[i], s[j]>> \in R
                                 \/ <<s[j], s[i]>> \notin R /\ i < j)
  BY DEF First
<1> HIDE DEF F
<1>3. ASSUME NEW i \in D PROVE <<i, i>> \notin F
  <2>1. s[i] \in Range(s) /\ ~(i < i)
    BY <1>1
  <2>2. <<s[i], s[i]>> \notin R
    BY <2>1 DEF Sorts
  <2> QED BY <1>2, <2>1, <2>2
<1>4. ASSUME NEW i \in D, NEW j \in D PROVE i = j \/ <<i, j>> \in F \/ <<j, i>> \in F
  <2>1. i \in Int /\ j \in Int
    BY <1>1
  <2>2. i = j \/ i < j \/ j < i
    BY <2>1
  <2> QED BY <1>2, <2>2
<1>5. ASSUME NEW i \in D, NEW j \in D, NEW k \in D, <<i, j>> \in F, <<j, k>> \in F
      PROVE  <<i, k>> \in F
  <2> DEFINE x == s[i]
             y == s[j]
             z == s[k]
  <2>1. /\ x \in Range(s) /\ y \in Range(s) /\ z \in Range(s)
        /\ <<x, y>> \in R \/ (<<y, x>> \notin R /\ i < j)
        /\ <<y, z>> \in R \/ (<<z, y>> \notin R /\ j < k)
    BY <1>1, <1>2, <1>5
  <2>2. <<i, k>> \in F <=> (<<x, z>> \in R \/ (<<z, x>> \notin R /\ i < k))
    BY <1>2
  <2>3. i < j /\ j < k => i < k
    BY <1>1
  <2> HIDE DEF x, y, z
  <2>4. <<z, x>> \in R => <<z, y>> \in R \/ <<y, x>> \in R
    BY <2>1 DEF Sorts
  <2>5. <<x, y>> \in R /\ <<y, z>> \in R => <<x, z>> \in R
    BY <2>1 DEF Sorts
  <2>6. <<x, y>> \in R => <<x, z>> \in R \/ <<z, y>> \in R
    BY <2>1 DEF Sorts
  <2>7. <<y, z>> \in R => <<y, x>> \in R \/ <<x, z>> \in R
    BY <2>1 DEF Sorts
  <2> QED BY <2>1, <2>2, <2>3, <2>4, <2>5, <2>6, <2>7
<1> HIDE DEF D
<1> QED BY <1>3, <1>4, <1>5 DEF OrderedBy, F, D

\* A sorted sequence has the members it had, and none comes before one it
\* should come after.
LEMMA ArrangedFacts ==
    ASSUME NEW s, IsSeq(s), NEW R, Sorts(R, Range(s))
    PROVE  LET t == Arranged(s, R)
               h == Places(s, R)
           IN  /\ IsSeq(t) /\ Len(t) = Len(s) /\ Len(t) \in Nat /\ DOMAIN t = 1 .. Len(t)
               /\ \A i \in 1 .. Len(t) : h[i] \in DOMAIN s /\ t[i] = s[h[i]]
               /\ \A n \in DOMAIN s : \E i \in 1 .. Len(t) : h[i] = n
               /\ \A i, j \in 1 .. Len(t) : h[i] = h[j] => i = j
               /\ \A i, j \in 1 .. Len(t) : i < j => <<t[j], t[i]>> \notin R
               /\ \A i, j \in 1 .. Len(t) : <<t[i], t[j]>> \in R => i < j
<1> DEFINE D == DOMAIN s
           F == First(s, R)
           h == Places(s, R)
           t == Arranged(s, R)
           n == Cardinality(D)
<1>1. Len(s) \in Nat /\ D = 1 .. Len(s) /\ \A i \in D : i \in Int /\ s[i] \in Range(s)
  <2>1. Len(s) \in Nat /\ D = 1 .. Len(s) /\ \A e : e \in Range(s) <=> \E i \in 1 .. Len(s) : e = s[i]
    BY SeqFacts DEF IsSeq
  <2> QED BY <2>1
<1>2. IsFiniteSet(D) /\ n = Len(s)
  <2>1. 1 \in Int /\ Len(s) \in Int
    BY <1>1
  <2>2. IsFiniteSet(1 .. Len(s)) /\ Cardinality(1 .. Len(s)) = IF 1 > Len(s) THEN 0 ELSE Len(s) - 1 + 1
    BY <2>1, FS_Interval
  <2> QED BY <1>1, <2>2
<1>3. OrderedBy(F, D)
  BY PlacesOrdered
<1>4. h = [i \in 1 .. n |-> CHOOSE x \in D : RankIn(F, D, x) = i - 1]
  BY DEF Places
<1>5. t = [i \in 1 .. n |-> s[h[i]]]
  BY DEF Arranged
<1> HIDE DEF F, D, h, t, n
<1>6. ASSUME NEW i \in 1 .. n PROVE h[i] \in D /\ RankIn(F, D, h[i]) = i - 1
  <2>1. i - 1 \in 0 .. n - 1
    BY <1>1, <1>2
  <2>2. \E x \in D : RankIn(F, D, x) = i - 1
    BY <2>1, <1>2, <1>3, Ranks DEF n
  <2>3. h[i] = CHOOSE x \in D : RankIn(F, D, x) = i - 1
    BY <1>4
  <2> QED BY <2>2, <2>3
<1>7. h = [i \in 1 .. n |-> h[i]]
  BY <1>4
<1>8. /\ h \in Seq(D) /\ Len(h) = n /\ Range(h) = D
      /\ \A i, j \in 1 .. n : <<h[i], h[j]>> \in F <=> i < j
  BY <1>2, <1>3, <1>6, <1>7, ByRank DEF n
<1>9. \A x \in D : \E i \in 1 .. n : h[i] = x
  BY <1>8, SeqFacts
<1>10. \A i \in 1 .. n : t[i] = s[h[i]] /\ t[i] \in Range(s)
  BY <1>1, <1>5, <1>6
<1>11. IsSeq(t) /\ Len(t) = n
  <2>1. t \in [1 .. n -> Range(s)]
    BY <1>5, <1>10
  <2> QED BY <2>1, <1>1, <1>2, FunIsSeq
<1>12. ASSUME NEW i \in 1 .. n, NEW j \in 1 .. n
       PROVE  /\ i < j => <<t[j], t[i]>> \notin R
              /\ <<t[i], t[j]>> \in R => i < j
              /\ h[i] = h[j] => i = j
  <2>1. h[i] \in D /\ h[j] \in D /\ t[i] = s[h[i]] /\ t[j] = s[h[j]]
    BY <1>6, <1>10
  <2>2. <<h[i], h[j]>> \in F <=> i < j
    BY <1>8
  <2>3. <<h[i], h[j]>> \in F <=> (\/ <<t[i], t[j]>> \in R
                                  \/ <<t[j], t[i]>> \notin R /\ h[i] < h[j])
    BY <2>1 DEF First, F, D
  <2>4. ~(<<t[i], t[j]>> \in R /\ <<t[j], t[i]>> \in R)
    BY <1>10 DEF Sorts
  <2>5. h[i] = h[j] => i = j
    <3>1. RankIn(F, D, h[i]) = i - 1 /\ RankIn(F, D, h[j]) = j - 1
      BY <1>6
    <3>2. i - 1 = j - 1 => i = j
      BY <1>1, <1>2
    <3> QED BY <3>1, <3>2
  <2> QED BY <2>2, <2>3, <2>4, <2>5
<1>13. DOMAIN t = 1 .. n
  BY <1>5
<1> QED BY <1>1, <1>2, <1>6, <1>9, <1>10, <1>11, <1>12, <1>13 DEF D, t, h

-----------------------------------------------------------------------------
(* The products of a search                                                *)

\* The tags of one upstream answer are finitely many and have a confidence each.
LEMMA ParsedTags ==
    ASSUME NEW rows, IsSeq(rows), NEW id \in DOMAIN ParseTagRows(rows)
    PROVE  TagsOk(ParseTagRows(rows)[id])
<1> DEFINE K == {i \in DOMAIN rows : ValidTag(rows[i])}
           kept == Passing(rows, ValidTag)
           Q == {q \in Range(kept) : q.product = id}
           tag(r) == [kind |-> r.kind, slug |-> r.slug, confidence |-> r.confidence]
           T == {tag(r) : r \in Q}
           f == [r \in Q |-> tag(r)]
<1>1. kept = Taken(rows, K)
  BY DEF Passing, Taken
<1>2. ParseTagRows(rows)[id] = T
  BY DEF ParseTagRows
<1>3. /\ IsSeq(kept) /\ Len(kept) \in Nat
      /\ \E h \in [1 .. Len(kept) -> K] : \A i \in 1 .. Len(kept) : kept[i] = rows[h[i]]
  <2>1. K \in SUBSET (DOMAIN rows)
    OBVIOUS
  <2> HIDE DEF K, kept
  <2> QED BY <1>1, <2>1, TakenOf
<1>4. \A r \in Range(kept) : ValidTag(r)
  <2> TAKE r \in Range(kept)
  <2>1. PICK h \in [1 .. Len(kept) -> K] : \A i \in 1 .. Len(kept) : kept[i] = rows[h[i]]
    BY <1>3
  <2>2. PICK i \in 1 .. Len(kept) : r = kept[i]
    <3> HIDE DEF kept
    <3> QED BY <1>3, SeqFacts DEF IsSeq
  <2>3. h[i] \in K
    BY <2>1
  <2> HIDE DEF kept
  <2> QED BY <2>1, <2>2, <2>3
<1>5. IsFiniteSet(Q)
  <2>1. IsFiniteSet(Range(kept)) /\ Q \in SUBSET Range(kept)
    <3> HIDE DEF kept
    <3> QED BY <1>3, FiniteRange
  <2> HIDE DEF Q
  <2> QED BY <2>1, FS_Subset
<1> HIDE DEF kept
<1>6. ASSUME NEW t \in T PROVE t.confidence \in 1 .. 100
  <2>1. PICK r \in Q : t = tag(r)
    OBVIOUS
  <2>2. ValidTag(r) /\ t.confidence = r.confidence
    BY <1>4, <2>1
  <2> QED BY <2>2 DEF ValidTag
<1>7. IsFiniteSet(T)
  <2>1. DOMAIN f = Q /\ f = [r \in DOMAIN f |-> f[r]] /\ T = {f[r] : r \in DOMAIN f}
    OBVIOUS
  <2> HIDE DEF f, T, Q
  <2> QED BY <1>5, <2>1, FiniteImage
<1> HIDE DEF T
<1> QED BY <1>2, <1>6, <1>7 DEF TagsOk

\* Inferred tags are added to the candidates and change nothing else.
LEMMA AttachedFacts ==
    ASSUME shop \in Shops, NEW soft
    PROVE  LET t == AttachInferredTags(Candidates, soft, shop.tags, MAX_TAGS)
               n == Len(CandidateRows)
           IN  /\ n \in Nat /\ DOMAIN t = 1 .. n /\ t = [i \in 1 .. n |-> t[i]]
               /\ \A i \in 1 .. n : \E T : TagsOk(T) /\ t[i] = Tagged(CandidateRows[i], T)
<1> DEFINE c == Candidates
           n == Len(CandidateRows)
           asked(r) == r.product \in {p.id : p \in Range(c)}
           K == {i \in DOMAIN shop.tags : asked(shop.tags[i])}
           read == Passing(shop.tags, asked)
           cut == SubSeq(read, 1, IF Len(read) < MAX_TAGS THEN Len(read) ELSE MAX_TAGS)
           tags == ParseTagRows(cut)
           t == AttachInferredTags(c, soft, shop.tags, MAX_TAGS)
           new(i) == IF c[i].id \in DOMAIN tags THEN WithTags(c[i], tags[c[i].id]) ELSE c[i]
<1>1. /\ n \in Nat /\ DOMAIN c = 1 .. n
      /\ \A i \in 1 .. n : c[i] = NormalizeProduct(CandidateRows[i])
  BY CandidateRowFacts
<1>2. t = c \/ t = [i \in 1 .. n |-> new(i)]
  BY <1>1 DEF AttachInferredTags
<1>3. IsSeq(cut)
  <2>1. K \in SUBSET (DOMAIN shop.tags) /\ read = Taken(shop.tags, K)
    BY DEF Passing, Taken
  <2>2. IsSeq(shop.tags)
    BY ShopAssumption DEF IsSeq
  <2>3. cut = SubSeq(read, 1, MinOf(Len(read), MAX_TAGS))
    BY DEF MinOf
  <2> HIDE DEF K, read, cut
  <2>4. IsSeq(read)
    BY <2>1, <2>2, TakenOf
  <2> QED BY <2>3, <2>4, FirstFew, LimitAssumption
<1> HIDE DEF cut
<1>4. \A id \in DOMAIN tags : TagsOk(tags[id])
  BY <1>3, ParsedTags
<1> HIDE DEF tags, c
<1>5. ASSUME NEW i \in 1 .. n
      PROVE  /\ c[i] = Tagged(CandidateRows[i], {}) /\ TagsOk({})
             /\ \E T : TagsOk(T) /\ new(i) = Tagged(CandidateRows[i], T)
  <2>1. TagsOk({}) /\ c[i] = Tagged(CandidateRows[i], {})
    BY <1>1, NormalizedIsTagged, FS_EmptySet DEF TagsOk
  <2>2. CASE c[i].id \in DOMAIN tags
    <3> DEFINE U == tags[c[i].id]
               T == {x \in U : \A u \in U : u.kind = x.kind /\ u.slug = x.slug => u.confidence <= x.confidence}
    <3>1. TagsOk(U)
      BY <1>4, <2>2
    <3>2. new(i) = WithTags(c[i], U)
      BY <2>2
    <3> HIDE DEF U
    <3>3. WithTags(c[i], U) = Tagged(CandidateRows[i], T)
      BY <1>1, NormalizedIsTagged
    <3>4. T \in SUBSET U
      OBVIOUS
    <3> HIDE DEF T
    <3>5. TagsOk(T)
      BY <3>1, <3>4, FS_Subset DEF TagsOk
    <3> HIDE DEF new
    <3> QED BY <2>1, <3>2, <3>3, <3>5
  <2>3. CASE c[i].id \notin DOMAIN tags
    <3>1. new(i) = c[i]
      BY <2>3
    <3> HIDE DEF new
    <3> QED BY <2>1, <3>1
  <2> QED BY <2>2, <2>3
<1> HIDE DEF new, t
<1>6. /\ DOMAIN t = 1 .. n /\ t = [i \in 1 .. n |-> t[i]]
      /\ \A i \in 1 .. n : t[i] = c[i] \/ t[i] = new(i)
  <2>1. c = [i \in 1 .. n |-> c[i]]
    BY <1>1 DEF c, Candidates
  <2> QED BY <1>2, <2>1
<1>7. \A i \in 1 .. n : \E T : TagsOk(T) /\ t[i] = Tagged(CandidateRows[i], T)
  BY <1>5, <1>6
<1> QED BY <1>1, <1>6, <1>7 DEF t, c

-----------------------------------------------------------------------------
(* Numbers between 0 and 10000                                             *)

Marks == 0 .. One

LEMMA MarkRange == \A x : x \in Marks <=> x \in Int /\ 0 <= x /\ x <= One
<1>1. One \in Int
  BY DEF One
<1> HIDE DEF One
<1> QED BY <1>1 DEF Marks

LEMMA QuotientBelow ==
    ASSUME NEW x \in Nat, NEW y \in Nat, y > 0, NEW k \in Nat, x < k * y
    PROVE  x \div y \in 0 .. k - 1
<1> DEFINE q == x \div y
<1>1. q \in Nat /\ x = q * y + (x % y) /\ x % y \in 0 .. y - 1
  OBVIOUS
<1> HIDE DEF q
<1>2. q * y < k * y
  <2> DEFINE a == q * y
             b == k * y
             r == x % y
  <2>1. a \in Int /\ b \in Int /\ r \in 0 .. y - 1 /\ x = a + r /\ x < b
    BY <1>1
  <2> HIDE DEF a, b, r
  <2>2. a < b
    BY <2>1
  <2> QED BY <2>2 DEF a, b
<1>3. q < k
  <2> SUFFICES ASSUME k <= q PROVE FALSE
    BY <1>1
  <2> DEFINE d == q - k
  <2>1. d \in Nat /\ q = k + d
    BY <1>1
  <2> HIDE DEF d
  <2>2. q * y = k * y + d * y
    BY <2>1
  <2>3. d * y >= 0 /\ d * y \in Int /\ k * y \in Int
    BY <2>1
  <2> QED BY <1>2, <2>2, <2>3
<1> QED BY <1>1, <1>3 DEF q

\* A quotient of at most ten thousand stays there when it is rounded.
LEMMA RoundedMark ==
    ASSUME NEW a \in Nat, NEW b \in Nat, b # 0, a <= One * b
    PROVE  RoundHalfUp(a, b) \in Marks
<1> DEFINE x == 2 * a + b
           y == 2 * b
<1>1. x \in Nat /\ y \in Nat /\ y > 0 /\ x < 10001 * y
  BY DEF One
<1>2. RoundHalfUp(a, b) = x \div y
  BY DEF RoundHalfUp
<1> HIDE DEF x, y
<1>3. x \div y \in 0 .. 10001 - 1
  BY <1>1, QuotientBelow
<1> QED BY <1>2, <1>3 DEF Marks, One

LEMMA FractionMark ==
    ASSUME NEW a \in Nat, NEW b \in Nat, a <= b
    PROVE  Fraction(a, b) \in Marks
<1>1. CASE b = 0
  BY <1>1 DEF Fraction, Marks, One
<1>2. CASE b # 0
  <2> DEFINE c == a * One
  <2>1. c \in Nat /\ c <= One * b
    BY DEF One
  <2>2. Fraction(a, b) = RoundHalfUp(c, b)
    BY <1>2 DEF Fraction
  <2> HIDE DEF c
  <2> QED BY <1>2, <2>1, <2>2, RoundedMark
<1> QED BY <1>1, <1>2

LEMMA ClosenessMark ==
    ASSUME NEW actual \in Int, NEW target \in Nat, target # 0
    PROVE  Closeness(actual, target) \in Marks
<1> DEFINE m == MinOf(target, Distance(actual, target))
           c == (target - m) * One
<1>1. m \in 0 .. target
  BY DEF MinOf, Distance
<1>2. Closeness(actual, target) = RoundHalfUp(c, target)
  BY DEF Closeness
<1> HIDE DEF m
<1>3. c \in Nat /\ c <= One * target
  BY <1>1 DEF One
<1> HIDE DEF c
<1> QED BY <1>2, <1>3, RoundedMark

\* A mean of marks is a mark.
LEMMA MeanMark ==
    ASSUME NEW f, IsFiniteSet(DOMAIN f), DOMAIN f # {}, \A x \in DOMAIN f : f[x] \in Marks
    PROVE  RoundHalfUp(SumOf(f), Cardinality(DOMAIN f)) \in Marks
<1> DEFINE S == DOMAIN f
           x == SumOf(f)
           k == Cardinality(S)
<1>1. x = Sum(f, S)
  BY SumOfIs
<1>2. k \in Nat /\ k # 0
  BY FS_CardinalityType, FS_EmptySet
<1>3. \A s \in S : f[s] \in Int /\ 0 <= f[s] /\ f[s] <= One
  BY MarkRange
<1>4. 0 \in Int /\ One \in Int
  BY DEF One
<1>5. x \in Int /\ 0 * k <= x /\ x <= One * k
  <2> HIDE DEF S, x, k
  <2>1. /\ Sum(f, S) \in Int /\ 0 * Cardinality(S) <= Sum(f, S) /\ Sum(f, S) <= One * Cardinality(S)
    <3> USE DEF S
    <3> HIDE DEF One
    <3> QED BY <1>3, <1>4, SumBounds
  <2> QED BY <1>1, <2>1 DEF k
<1> HIDE DEF x, k
<1>6. x \in Nat
  BY <1>2, <1>5
<1> QED BY <1>2, <1>5, <1>6, RoundedMark DEF x, k

LEMMA StrengthMark ==
    ASSUME NEW p, TagsOk(p.tags), NEW kind, NEW slug
    PROVE  Strength(p, kind, slug) \in Marks
<1> DEFINE U == {u \in p.tags : u.kind = kind /\ u.slug = slug}
           f == [t \in U |-> MinOf(t.confidence * 100, InferredCeiling)]
           G == {MinOf(t.confidence * 100, InferredCeiling) : t \in U} \cup {0}
<1>1. IsFiniteSet(G) /\ 0 \in G
  <2>1. IsFiniteSet(U)
    <3>1. U \in SUBSET p.tags
      OBVIOUS
    <3> HIDE DEF U
    <3> QED BY <3>1, FS_Subset DEF TagsOk
  <2>2. DOMAIN f = U /\ f = [t \in DOMAIN f |-> f[t]] /\ G = {f[t] : t \in DOMAIN f} \cup {0}
    OBVIOUS
  <2> HIDE DEF U, f, G
  <2>3. IsFiniteSet({f[t] : t \in DOMAIN f})
    BY <2>1, <2>2, FiniteImage
  <2>4. IsFiniteSet({0}) /\ 0 \in {0}
    BY FS_Singleton
  <2> QED BY <2>2, <2>3, <2>4, FS_Union
<1>2. \A g \in G : g \in Int /\ 0 <= g /\ g <= One
  <2> TAKE g \in G
  <2>1. CASE g = 0
    BY <2>1 DEF One
  <2>2. CASE g # 0
    <3>1. PICK t \in U : g = MinOf(t.confidence * 100, InferredCeiling)
      BY <2>2
    <3>2. t.confidence \in 1 .. 100
      BY DEF TagsOk
    <3> DEFINE c == t.confidence
    <3> HIDE DEF c
    <3> QED BY <3>1, <3>2 DEF c, MinOf, InferredCeiling, One
  <2> QED BY <2>1, <2>2
<1>3. Strength(p, kind, slug) = One \/ Strength(p, kind, slug) = Max(G)
  BY DEF Strength
<1> HIDE DEF G
<1>4. Max(G) \in G
  <2>1. \E m \in G : \A n \in G : n <= m
    BY <1>1, <1>2, LargestMember
  <2>2. \E m \in G : \A n \in G : m >= n
    BY <1>2, <2>1
  <2> QED BY <2>2 DEF Max
<1>5. One \in Int /\ 0 <= One
  BY DEF One
<1> QED BY <1>2, <1>3, <1>4, <1>5, MarkRange

-----------------------------------------------------------------------------
(* Every part of a score, and the score, is a mark                         *)

\* What the score needs of a product, of the preferences and of a profile.
Scorable(p) == /\ TagsOk(p.tags) /\ p.id \in Int /\ p.price \in Int
               /\ \A d \in Dimensions : \A v \in p[d] : v \in Int
SoftOk(soft) == /\ IsFiniteSet(soft.styles) /\ IsFiniteSet(soft.feels) /\ IsFiniteSet(soft.room)
                /\ IsFiniteSet(soft.materials)
                /\ \A t \in soft.price : t \in Nat /\ t # 0
                /\ \A d \in Dimensions : \A t \in soft[d] : t \in Nat /\ t # 0
ProfileOk(profile) == \A t \in profile.price : t \in Nat

LEMMA PreferenceMark ==
    ASSUME NEW p, TagsOk(p.tags), NEW kind, NEW wanted, IsFiniteSet(wanted), wanted # {}
    PROVE  PreferenceValue(p, kind, wanted) \in Marks
<1> DEFINE f == [s \in wanted |-> Strength(p, kind, s)]
<1>1. DOMAIN f = wanted /\ \A s \in wanted : f[s] \in Marks
  <2>1. \A s \in wanted : Strength(p, kind, s) \in Marks
    BY StrengthMark
  <2> HIDE DEF Marks
  <2> QED BY <2>1
<1>2. PreferenceValue(p, kind, wanted) = RoundHalfUp(SumOf(f), Cardinality(wanted))
  BY DEF PreferenceValue
<1> HIDE DEF f
<1> QED BY <1>1, <1>2, MeanMark

LEMMA PartOf ==
    ASSUME NEW T, IsFiniteSet(T), NEW S, S \subseteq T
    PROVE  Cardinality(S) \in Nat /\ Cardinality(T) \in Nat /\ Cardinality(S) <= Cardinality(T)
  BY FS_Subset, FS_CardinalityType

LEMMA OverlapMark ==
    ASSUME NEW p, NEW words, IsFiniteSet(DOMAIN words) PROVE QueryOverlap(p, words) \in Marks
<1> DEFINE tokens == TokenPlaces(words)
           hits == MatchedPlaces(p, words)
<1>1. tokens \subseteq DOMAIN words /\ hits \subseteq tokens
  BY DEF TokenPlaces, MatchedPlaces
<1>2. QueryOverlap(p, words) = Fraction(Cardinality(hits), Cardinality(tokens))
  BY DEF QueryOverlap
<1> HIDE DEF tokens, hits
<1>3. IsFiniteSet(tokens)
  BY <1>1, FS_Subset
<1>4. /\ Cardinality(hits) \in Nat /\ Cardinality(tokens) \in Nat
      /\ Cardinality(hits) <= Cardinality(tokens)
  BY <1>1, <1>3, PartOf
<1> QED BY <1>2, <1>4, FractionMark

LEMMA MaterialMark ==
    ASSUME NEW wanted, IsFiniteSet(wanted), NEW S
    PROVE  Fraction(Cardinality(wanted \cap S), Cardinality(wanted)) \in Marks
<1> DEFINE hits == wanted \cap S
<1>1. hits \subseteq wanted
  OBVIOUS
<1> HIDE DEF hits
<1>2. /\ Cardinality(hits) \in Nat /\ Cardinality(wanted) \in Nat
      /\ Cardinality(hits) <= Cardinality(wanted)
  BY <1>1, PartOf
<1> QED BY <1>2, FractionMark DEF hits

LEMMA TasteMark ==
    ASSUME NEW p, Scorable(p), NEW profile, ProfileOk(profile)
    PROVE  \A v \in TasteValue(p, profile) : v \in Marks
<1> DEFINE signals == TasteSignals(p, profile)
           given == {n \in DOMAIN signals : signals[n] # {}}
           f == [n \in given |-> CHOOSE v \in signals[n] : TRUE]
           x == RoundHalfUp(SumOf(f), Cardinality(given))
           names == {"colours"} \cup {"materials", "price"}
<1>1. TasteValue(p, profile) = IF given = {} THEN {} ELSE {x}
  BY DEF TasteValue
<1>2. DOMAIN signals = names
  BY DEF TasteSignals
<1>3. 0 \in Marks /\ One \in Marks
  BY DEF Marks, One
<1>4. \A v \in signals["colours"] : v \in Marks
  <2>1. \A v \in signals["colours"] : v = 0 \/ v = One
    BY DEF TasteSignals
  <2> HIDE DEF signals
  <2> QED BY <1>3, <2>1
<1>5. \A v \in signals["materials"] : v \in Marks
  <2>1. \A v \in signals["materials"] : v = 0 \/ v = One
    BY DEF TasteSignals
  <2> HIDE DEF signals
  <2> QED BY <1>3, <2>1
<1>6. \A v \in signals["price"] : v \in Marks
  <2>1. signals["price"] = {Closeness(p.price, t) : t \in profile.price \ {0}}
    BY DEF TasteSignals
  <2> HIDE DEF signals
  <2>2. p.price \in Int /\ \A t \in profile.price \ {0} : t \in Nat /\ t # 0
    BY DEF Scorable, ProfileOk
  <2>3. \A t \in profile.price \ {0} : Closeness(p.price, t) \in Marks
    BY <2>2, ClosenessMark
  <2> QED BY <2>1, <2>3
<1> HIDE DEF signals
<1>7. \A n \in given : f[n] \in Marks
  <2> SUFFICES ASSUME NEW n \in given PROVE f[n] \in Marks
    OBVIOUS
  <2>1. signals[n] # {} /\ \A v \in signals[n] : v \in Marks
    BY <1>2, <1>4, <1>5, <1>6
  <2>2. f[n] = CHOOSE v \in signals[n] : TRUE
    OBVIOUS
  <2> HIDE DEF f, given
  <2> QED BY <2>1, <2>2
<1>8. IsFiniteSet(given)
  <2>1. IsFiniteSet(names)
    BY FinitePair, FS_Singleton, FS_Union
  <2>2. given \subseteq names
    BY <1>2
  <2> HIDE DEF given, names
  <2> QED BY <2>1, <2>2, FS_Subset
<1>9. DOMAIN f = given
  OBVIOUS
<1> HIDE DEF f, given
<1>10. given # {} => x \in Marks
  BY <1>7, <1>8, <1>9, MeanMark
<1> HIDE DEF x
<1> QED BY <1>1, <1>10

LEMMA PartsMark ==
    ASSUME NEW p, Scorable(p), NEW soft, SoftOk(soft), NEW query, Sayable(query),
           NEW profile, ProfileOk(profile)
    PROVE  LET parts == ScoreParts(p, soft, query, profile)
           IN  DOMAIN parts = Parts /\ \A n \in Parts : \A v \in parts[n] : v \in Marks
<1> DEFINE parts == ScoreParts(p, soft, query, profile)
           material == Fraction(Cardinality(soft.materials \cap p.materials), Cardinality(soft.materials))
           styles == PreferenceValue(p, "style", soft.styles)
           feels == PreferenceValue(p, "feel", soft.feels)
           room == PreferenceValue(p, "room_type", soft.room)
           taste == TasteValue(p, profile)
           close(d) == IF soft[d] = {} THEN {} ELSE {Closeness(v, t) : v \in p[d], t \in soft[d]}
<1>1. /\ DOMAIN parts = Parts
      /\ parts["colours"] = IF soft.colours = {} THEN {}
                            ELSE {IF soft.colours \cap ColourSlugs(InStock(p)) # {} THEN One ELSE 0}
      /\ parts["materials"] = IF soft.materials = {} THEN {} ELSE {material}
      /\ parts["styles"] = IF soft.styles = {} THEN {} ELSE {styles}
      /\ parts["feels"] = IF soft.feels = {} THEN {} ELSE {feels}
      /\ parts["room"] = IF soft.room = {} THEN {} ELSE {room}
      /\ parts["query"] = {QueryOverlap(p, words) : words \in query}
      /\ parts["price"] = {Closeness(p.price, t) : t \in soft.price}
      /\ parts["taste"] = IF IsUseful(profile) THEN taste ELSE {}
      /\ parts["width"] = close("width") /\ parts["height"] = close("height")
      /\ parts["depth"] = close("depth")
  BY DEF ScoreParts, Parts
<1> HIDE DEF parts
<1>2. material \in Marks
  BY MaterialMark DEF SoftOk
<1>3. soft.styles # {} => styles \in Marks
  BY PreferenceMark DEF SoftOk, Scorable
<1>4. soft.feels # {} => feels \in Marks
  BY PreferenceMark DEF SoftOk, Scorable
<1>5. soft.room # {} => room \in Marks
  BY PreferenceMark DEF SoftOk, Scorable
<1>6. \A words \in query : QueryOverlap(p, words) \in Marks
  BY OverlapMark DEF Sayable
<1>7. \A v \in taste : v \in Marks
  BY TasteMark
<1>8. \A t \in soft.price : Closeness(p.price, t) \in Marks
  BY ClosenessMark DEF SoftOk, Scorable
<1>9. ASSUME NEW d \in Dimensions PROVE \A v \in close(d) : v \in Marks
  <2>1. \A v \in p[d], t \in soft[d] : Closeness(v, t) \in Marks
    BY ClosenessMark DEF SoftOk, Scorable
  <2> QED BY <2>1
<1>10. 0 \in Marks /\ One \in Marks
  BY DEF Marks, One
<1>11. "width" \in Dimensions /\ "height" \in Dimensions /\ "depth" \in Dimensions
  BY DEF Dimensions
<1> HIDE DEF material, styles, feels, room, taste, close
<1>12. \A v \in parts["width"] : v \in Marks
  BY <1>1, <1>9, <1>11
<1>13. \A v \in parts["height"] : v \in Marks
  BY <1>1, <1>9, <1>11
<1>14. \A v \in parts["depth"] : v \in Marks
  BY <1>1, <1>9, <1>11
<1>15. \A v \in parts["colours"] : v \in Marks
  BY <1>1, <1>10
<1>16. \A v \in parts["materials"] : v \in Marks
  BY <1>1, <1>2
<1>17. \A v \in parts["styles"] : v \in Marks
  BY <1>1, <1>3
<1>18. \A v \in parts["feels"] : v \in Marks
  BY <1>1, <1>4
<1>19. \A v \in parts["room"] : v \in Marks
  BY <1>1, <1>5
<1>20. \A v \in parts["query"] : v \in Marks
  BY <1>1, <1>6
<1>21. \A v \in parts["price"] : v \in Marks
  BY <1>1, <1>8
<1>22. \A v \in parts["taste"] : v \in Marks
  BY <1>1, <1>7
<1>23. \A n \in Parts : \A v \in parts[n] : v \in Marks
  <2> TAKE n \in Parts
  <2>1. n \in {"colours", "materials", "styles", "feels", "room", "width", "height", "depth",
               "price", "query", "taste"}
    BY DEF Parts
  <2> QED BY <2>1, <1>12, <1>13, <1>14, <1>15, <1>16, <1>17, <1>18, <1>19, <1>20, <1>21, <1>22
<1> QED BY <1>1, <1>23 DEF parts

LEMMA CombineMark ==
    ASSUME NEW parts, DOMAIN parts = Parts, \A n \in Parts : \A v \in parts[n] : v \in Marks
    PROVE  Combine(parts) \in Marks
<1> DEFINE given == {n \in DOMAIN parts : parts[n] # {}}
           w == [n \in given |-> WEIGHTS[n]]
           f == [n \in given |-> WEIGHTS[n] * CHOOSE v \in parts[n] : TRUE]
           x == SumOf(f)
           y == SumOf(w)
<1>1. CASE given = {}
  BY <1>1 DEF Combine, Marks, One
<1>2. CASE given # {}
  <2>1. IsFiniteSet(given)
    <3>1. given \in SUBSET Parts
      OBVIOUS
    <3> HIDE DEF given
    <3> QED BY <3>1, FiniteParts, FS_Subset
  <2>2. \A n \in Parts : WEIGHTS[n] \in Nat /\ WEIGHTS[n] # 0
    BY DEF Parts, WEIGHTS
  <2>3. DOMAIN w = given /\ \A n \in given : w[n] \in Int /\ 0 <= w[n] /\ w[n] # 0
    BY <2>2
  <2>4. ASSUME NEW n \in given PROVE f[n] \in Int /\ 0 <= f[n] /\ f[n] <= One * w[n]
    <3> DEFINE v == CHOOSE v \in parts[n] : TRUE
               m == WEIGHTS[n]
    <3>1. v \in Marks
      <4>1. parts[n] # {} /\ \A u \in parts[n] : u \in Marks
        OBVIOUS
      <4> HIDE DEF Marks
      <4> QED BY <4>1
    <3>2. f[n] = m * v /\ w[n] = m /\ m \in Nat
      BY <2>2
    <3>3. One \in Nat /\ v \in Int /\ 0 <= v /\ v <= One
      BY <3>1, MarkRange DEF One
    <3> HIDE DEF f, w, v, m
    <3>4. 0 <= m * v /\ m * v <= One * m
      <4> DEFINE d == One - v
      <4>1. d \in Nat /\ v \in Nat /\ One = v + d
        BY <3>3
      <4> HIDE DEF d
      <4>2. m * d \in Nat /\ m * v \in Nat /\ (v + d) * m = m * v + m * d
        BY <3>2, <4>1
      <4>3. One * m = m * v + m * d
        BY <4>1, <4>2
      <4> QED BY <4>2, <4>3
    <3> QED BY <3>2, <3>3, <3>4
  <2>5. DOMAIN f = given
    OBVIOUS
  <2>6. Combine(parts) = RoundHalfUp(x, y)
    BY <1>2 DEF Combine
  <2> HIDE DEF f, w
  <2>7. x = Sum(f, given) /\ y = Sum(w, given)
    BY <2>1, <2>3, <2>5, SumOfIs
  <2> HIDE DEF x, y, given
  <2>8. x \in Int /\ 0 <= x
    BY <2>1, <2>4, <2>7, SumZero
  <2>9. y \in Int /\ 0 <= y /\ \A n \in given : w[n] <= y
    BY <2>1, <2>3, <2>7, SumZero
  <2>10. y # 0
    BY <1>2, <2>3, <2>9
  <2>11. x <= One * y
    <3>1. One \in Int /\ \A n \in given : f[n] \in Int /\ w[n] \in Int /\ f[n] <= One * w[n]
      BY <2>3, <2>4 DEF One
    <3> HIDE DEF One
    <3> QED BY <2>1, <2>7, <3>1, SumAtMost
  <2> QED BY <2>6, <2>8, <2>9, <2>10, <2>11, RoundedMark
<1> QED BY <1>1, <1>2

\* Every product of a search has a score between 0 and 10000.
LEMMA ScoreMark ==
    ASSUME NEW p, Scorable(p), NEW soft, SoftOk(soft), NEW query, Sayable(query),
           NEW profile, ProfileOk(profile)
    PROVE  Combine(ScoreParts(p, soft, query, profile)) \in Marks
<1> DEFINE parts == ScoreParts(p, soft, query, profile)
<1>1. DOMAIN parts = Parts /\ \A n \in Parts : \A v \in parts[n] : v \in Marks
  BY PartsMark
<1> HIDE DEF parts
<1>2. Combine(parts) \in Marks
  BY <1>1, CombineMark
<1> QED BY <1>2 DEF parts

-----------------------------------------------------------------------------
(* The products that match, best first                                     *)

Scored(p, spec, profile) ==
    LET parts == ScoreParts(p, spec.soft, spec.query, profile)
    IN  [product |-> p, parts |-> parts, score |-> Combine(parts)]
Matching(products, hard) == {i \in DOMAIN products : Matches(products[i], hard)}
ScoredMatches(products, spec, profile) ==
    LET t == Taken(products, Matching(products, spec.hard))
    IN  [i \in DOMAIN t |-> Scored(t[i], spec, profile)]
Outranking(S) == {p \in S \X S : RanksBefore(p[1], p[2])}
Ranked(products, spec, profile) ==
    LET s == ScoredMatches(products, spec, profile) IN Arranged(s, Outranking(Range(s)))

\* What a rank needs of what is ranked.
Rankable(x) == x.score \in Int /\ x.product.price \in Int /\ x.product.id \in Int

LEMMA BetterSorts == ASSUME NEW S, \A x \in S : Rankable(x) PROVE Sorts(Outranking(S), S)
<1>1. ASSUME NEW x \in S, NEW y \in S PROVE <<x, y>> \in Outranking(S) <=> RanksBefore(x, y)
  BY DEF Outranking
<1>2. ASSUME NEW x \in S PROVE ~ RanksBefore(x, x)
  <2>1. Rankable(x)
    OBVIOUS
  <2> QED BY <2>1 DEF Rankable, RanksBefore
<1>3. ASSUME NEW x \in S, NEW y \in S, NEW z \in S
      PROVE  /\ RanksBefore(x, z) => RanksBefore(x, y) \/ RanksBefore(y, z)
             /\ RanksBefore(x, y) /\ RanksBefore(y, z) => RanksBefore(x, z)
  <2> DEFINE a1 == x.score
             a2 == x.product.price
             a3 == x.product.id
             b1 == y.score
             b2 == y.product.price
             b3 == y.product.id
             c1 == z.score
             c2 == z.product.price
             c3 == z.product.id
  <2>1. /\ a1 \in Int /\ a2 \in Int /\ a3 \in Int /\ b1 \in Int /\ b2 \in Int /\ b3 \in Int
        /\ c1 \in Int /\ c2 \in Int /\ c3 \in Int
    BY DEF Rankable
  <2>2. /\ RanksBefore(x, y) <=> (a1 > b1 \/ (a1 = b1 /\ a2 < b2) \/ (a1 = b1 /\ a2 = b2 /\ a3 < b3))
        /\ RanksBefore(y, z) <=> (b1 > c1 \/ (b1 = c1 /\ b2 < c2) \/ (b1 = c1 /\ b2 = c2 /\ b3 < c3))
        /\ RanksBefore(x, z) <=> (a1 > c1 \/ (a1 = c1 /\ a2 < c2) \/ (a1 = c1 /\ a2 = c2 /\ a3 < c3))
    BY DEF RanksBefore
  <2> HIDE DEF a1, a2, a3, b1, b2, b3, c1, c2, c3
  <2> QED BY <2>1, <2>2
<1> HIDE DEF Outranking
<1> QED BY <1>1, <1>2, <1>3 DEF Sorts

\* A sequence sorted by rank.
LEMMA SortedByRank ==
    ASSUME NEW s, IsSeq(s)
    PROVE  Sorted(s, RanksBefore) = Arranged(s, Outranking(Range(s)))
<1> DEFINE D == DOMAIN s
           R == Outranking(Range(s))
           F == First(s, R)
           n == Cardinality(D)
           before(i, j) == \/ RanksBefore(s[i], s[j])
                           \/ ~ RanksBefore(s[j], s[i]) /\ i < j
           at(k) == CHOOSE x \in D : Cardinality({y \in D : before(y, x)}) = k - 1
           order == [k \in 1 .. n |-> at(k)]
<1>1. Sorted(s, RanksBefore) = [k \in DOMAIN order |-> s[order[k]]]
  BY DEF Sorted, InOrder
<1>2. ASSUME NEW x \in D, NEW y \in D PROVE <<y, x>> \in F <=> before(y, x)
  <2>1. s[x] \in Range(s) /\ s[y] \in Range(s)
    BY DEF Range
  <2>2. /\ <<s[y], s[x]>> \in R <=> RanksBefore(s[y], s[x])
        /\ <<s[x], s[y]>> \in R <=> RanksBefore(s[x], s[y])
    BY <2>1 DEF Outranking
  <2> HIDE DEF R
  <2>3. <<y, x>> \in F <=> (<<s[y], s[x]>> \in R \/ (<<s[x], s[y]>> \notin R /\ y < x))
    BY DEF First
  <2> QED BY <2>2, <2>3
<1> HIDE DEF before, F
<1>3. ASSUME NEW x \in D PROVE RankIn(F, D, x) = Cardinality({y \in D : before(y, x)})
  <2>1. {y \in D : <<y, x>> \in F} = {y \in D : before(y, x)}
    BY <1>2
  <2> QED BY <2>1 DEF RankIn
<1>4. ASSUME NEW k PROVE at(k) = CHOOSE x \in D : RankIn(F, D, x) = k - 1
  <2> HIDE DEF D
  <2> QED BY <1>3
<1>5. Places(s, R) = order
  <2>1. Places(s, R) = [k \in 1 .. n |-> CHOOSE x \in D : RankIn(F, D, x) = k - 1]
    BY DEF Places, F
  <2> HIDE DEF at, D, n, R
  <2> QED BY <1>4, <2>1
<1>6. DOMAIN order = 1 .. n
  OBVIOUS
<1>7. Arranged(s, R) = [k \in 1 .. n |-> s[Places(s, R)[k]]]
  BY DEF Arranged
<1> HIDE DEF order, n, R
<1> QED BY <1>1, <1>5, <1>6, <1>7 DEF R

\* What a search executes: the preferences, the words and the profile score,
\* and the page has a size.
Executable(products, spec, profile) ==
    /\ IsSeq(products) /\ \A i \in DOMAIN products : Scorable(products[i])
    /\ SoftOk(spec.soft) /\ Sayable(spec.query) /\ spec.limit \in Nat
    /\ ProfileOk(profile)

LEMMA ScoredFacts ==
    ASSUME NEW p, NEW spec, NEW profile
    PROVE  LET x == Scored(p, spec, profile)
           IN  /\ x.product = p /\ x.parts = ScoreParts(p, spec.soft, spec.query, profile)
               /\ x.score = Combine(ScoreParts(p, spec.soft, spec.query, profile))
               /\ DOMAIN x = {"product", "parts", "score"}
<1> DEFINE parts == ScoreParts(p, spec.soft, spec.query, profile)
           score == Combine(parts)
           x == Scored(p, spec, profile)
<1>1. x = [product |-> p, parts |-> parts, score |-> score]
  BY DEF Scored
<1> HIDE DEF parts, score, x
<1>2. /\ x.product = p /\ x.parts = parts /\ x.score = score
      /\ DOMAIN x = {"product", "parts", "score"}
  BY <1>1
<1> QED BY <1>2 DEF x, parts, score

LEMMA ScoredMatchFacts ==
    ASSUME NEW products, NEW spec, NEW profile, Executable(products, spec, profile)
    PROVE  LET s == ScoredMatches(products, spec, profile)
               K == Matching(products, spec.hard)
           IN  /\ IsSeq(s) /\ Len(s) \in Nat /\ DOMAIN s = 1 .. Len(s) /\ Len(s) = Cardinality(K)
               /\ \A x \in Range(s) : Rankable(x) /\ x.score \in Marks
               /\ \E h \in [1 .. Len(s) -> K] :
                     /\ \A i \in 1 .. Len(s) : s[i] = Scored(products[h[i]], spec, profile)
                     /\ \A k \in K : \E i \in 1 .. Len(s) : h[i] = k
                     /\ \A i, j \in 1 .. Len(s) : h[i] < h[j] <=> i < j
<1> DEFINE K == Matching(products, spec.hard)
           t == Taken(products, K)
           s == ScoredMatches(products, spec, profile)
           n == Len(t)
           score(p) == Scored(p, spec, profile)
<1>1. K \subseteq DOMAIN products /\ IsSeq(products)
  BY DEF Matching, Executable
<1>2. /\ IsFiniteSet(K) /\ IsSeq(t) /\ n = Cardinality(K) /\ n \in Nat
      /\ DOMAIN t = 1 .. n
      /\ \E h \in [1 .. n -> K] :
            /\ \A i \in 1 .. n : t[i] = products[h[i]]
            /\ \A k \in K : \E i \in 1 .. n : h[i] = k
            /\ \A i, j \in 1 .. n : h[i] < h[j] <=> i < j
  <2> HIDE DEF K
  <2> QED BY <1>1, TakenOf
<1>3. s = [i \in DOMAIN t |-> score(t[i])]
  BY DEF ScoredMatches
<1> HIDE DEF t, s, K, n
<1>4. PICK h \in [1 .. n -> K] :
            /\ \A i \in 1 .. n : t[i] = products[h[i]]
            /\ \A k \in K : \E i \in 1 .. n : h[i] = k
            /\ \A i, j \in 1 .. n : h[i] < h[j] <=> i < j
  BY <1>2
<1>5. DOMAIN s = 1 .. n /\ \A i \in 1 .. n : s[i] = score(products[h[i]]) /\ h[i] \in DOMAIN products
  <2>1. \A i \in 1 .. n : s[i] = score(t[i])
    <3> HIDE DEF score
    <3> QED BY <1>2, <1>3
  <2>2. DOMAIN s = 1 .. n
    BY <1>2, <1>3
  <2> HIDE DEF score
  <2> QED BY <2>1, <2>2, <1>1, <1>4
<1>6. IsSeq(s) /\ Len(s) = n
  <2> DEFINE S == Range(s)
  <2>1. s \in [1 .. n -> S]
    <3>1. s = [i \in 1 .. n |-> s[i]]
      <4> HIDE DEF score
      <4> QED BY <1>2, <1>3
    <3>2. \A i \in 1 .. n : s[i] \in S
      BY <1>5 DEF Range
    <3> HIDE DEF S
    <3> QED BY <3>1, <3>2
  <2> HIDE DEF S
  <2> QED BY <2>1, <1>2, FunIsSeq
<1>7. ASSUME NEW x \in Range(s) PROVE Rankable(x) /\ x.score \in Marks
  <2>1. PICK i \in 1 .. n : x = s[i]
    BY <1>5, <1>7 DEF Range
  <2> DEFINE p == products[h[i]]
  <2>2. Scorable(p) /\ x = Scored(p, spec, profile)
    BY <1>5, <2>1 DEF Executable
  <2> HIDE DEF p
  <2>3. x.product = p /\ x.score = Combine(ScoreParts(p, spec.soft, spec.query, profile))
    BY <2>2, ScoredFacts
  <2>4. x.score \in Marks
    <3>1. Combine(ScoreParts(p, spec.soft, spec.query, profile)) \in Marks
      BY <2>2, ScoreMark DEF Executable
    <3> QED BY <2>3, <3>1
  <2>5. x.score \in Int
    BY <2>4, MarkRange
  <2> QED BY <2>2, <2>3, <2>4, <2>5 DEF Rankable, Scorable
<1> HIDE DEF score
<1>8. \E g \in [1 .. n -> K] :
         /\ \A i \in 1 .. n : s[i] = score(products[g[i]])
         /\ \A k \in K : \E i \in 1 .. n : g[i] = k
         /\ \A i, j \in 1 .. n : g[i] < g[j] <=> i < j
  BY <1>4, <1>5
<1>9. \E g \in [1 .. Len(s) -> K] :
         /\ \A i \in 1 .. Len(s) : s[i] = Scored(products[g[i]], spec, profile)
         /\ \A k \in K : \E i \in 1 .. Len(s) : g[i] = k
         /\ \A i, j \in 1 .. Len(s) : g[i] < g[j] <=> i < j
  BY <1>6, <1>8 DEF score
<1>10. /\ IsSeq(s) /\ Len(s) \in Nat /\ DOMAIN s = 1 .. Len(s) /\ Len(s) = Cardinality(K)
  BY <1>2, <1>5, <1>6
<1> QED BY <1>7, <1>9, <1>10 DEF s, K

\* The ranked products are those that match, each once, and none comes before
\* a better one.
LEMMA RankedFacts ==
    ASSUME NEW products, NEW spec, NEW profile, Executable(products, spec, profile)
    PROVE  LET r == Ranked(products, spec, profile)
               K == Matching(products, spec.hard)
           IN  /\ IsSeq(r) /\ Len(r) \in Nat /\ DOMAIN r = 1 .. Len(r) /\ Len(r) = Cardinality(K)
               /\ \A i \in 1 .. Len(r) : /\ Rankable(r[i]) /\ r[i].score \in Marks
                                         /\ r[i] \in Range(ScoredMatches(products, spec, profile))
               /\ \A i \in 1 .. Len(r) : \E k \in K : r[i] = Scored(products[k], spec, profile)
               /\ \A k \in K : \E i \in 1 .. Len(r) : r[i] = Scored(products[k], spec, profile)
               /\ \A i, j \in 1 .. Len(r) : i < j => ~ RanksBefore(r[j], r[i])
               /\ \A i, j \in 1 .. Len(r) : RanksBefore(r[i], r[j]) => i < j
<1> DEFINE K == Matching(products, spec.hard)
           s == ScoredMatches(products, spec, profile)
           R == Outranking(Range(s))
           r == Ranked(products, spec, profile)
           score(k) == Scored(products[k], spec, profile)
<1>1. /\ IsSeq(s) /\ Len(s) \in Nat /\ DOMAIN s = 1 .. Len(s) /\ Len(s) = Cardinality(K)
      /\ \A x \in Range(s) : Rankable(x) /\ x.score \in Marks
      /\ \E h \in [1 .. Len(s) -> K] :
            /\ \A i \in 1 .. Len(s) : s[i] = score(h[i])
            /\ \A k \in K : \E i \in 1 .. Len(s) : h[i] = k
  <2>1. \E h \in [1 .. Len(s) -> K] :
            /\ \A i \in 1 .. Len(s) : s[i] = score(h[i])
            /\ \A k \in K : \E i \in 1 .. Len(s) : h[i] = k
            /\ \A i, j \in 1 .. Len(s) : h[i] < h[j] <=> i < j
    BY ScoredMatchFacts
  <2>2. \E h \in [1 .. Len(s) -> K] :
            /\ \A i \in 1 .. Len(s) : s[i] = score(h[i])
            /\ \A k \in K : \E i \in 1 .. Len(s) : h[i] = k
    <3> HIDE DEF s, K, score
    <3> QED BY <2>1
  <2> QED BY <2>2, ScoredMatchFacts
<1>2. r = Arranged(s, R)
  BY DEF Ranked
<1> HIDE DEF s, K, r, score
<1>3. Sorts(R, Range(s))
  BY <1>1, BetterSorts
<1> DEFINE g == Places(s, R)
<1>4. /\ IsSeq(r) /\ Len(r) = Len(s) /\ DOMAIN r = 1 .. Len(r)
      /\ \A i \in 1 .. Len(r) : g[i] \in DOMAIN s /\ r[i] = s[g[i]]
      /\ \A n \in DOMAIN s : \E i \in 1 .. Len(r) : g[i] = n
      /\ \A i, j \in 1 .. Len(r) : i < j => <<r[j], r[i]>> \notin R
      /\ \A i, j \in 1 .. Len(r) : <<r[i], r[j]>> \in R => i < j
  <2> HIDE DEF R
  <2> DEFINE a == Arranged(s, R)
  <2>1. /\ IsSeq(a) /\ Len(a) = Len(s) /\ DOMAIN a = 1 .. Len(a)
        /\ \A i \in 1 .. Len(a) : g[i] \in DOMAIN s /\ a[i] = s[g[i]]
        /\ \A n \in DOMAIN s : \E i \in 1 .. Len(a) : g[i] = n
        /\ \A i, j \in 1 .. Len(a) : i < j => <<a[j], a[i]>> \notin R
        /\ \A i, j \in 1 .. Len(a) : <<a[i], a[j]>> \in R => i < j
    BY <1>1, <1>3, ArrangedFacts
  <2>2. r = a
    BY <1>2
  <2> HIDE DEF a, g
  <2> QED BY <2>1, <2>2
<1> HIDE DEF g
<1>5. \A i \in 1 .. Len(r) : r[i] \in Range(s)
  BY <1>4 DEF Range
<1>6. PICK h \in [1 .. Len(s) -> K] :
            /\ \A i \in 1 .. Len(s) : s[i] = score(h[i])
            /\ \A k \in K : \E i \in 1 .. Len(s) : h[i] = k
  BY <1>1
<1>7. \A i \in 1 .. Len(r) : \E k \in K : r[i] = score(k)
  <2> TAKE i \in 1 .. Len(r)
  <2>1. g[i] \in 1 .. Len(s) /\ r[i] = s[g[i]]
    BY <1>1, <1>4
  <2>2. h[g[i]] \in K /\ s[g[i]] = score(h[g[i]])
    BY <1>6, <2>1
  <2> QED BY <2>1, <2>2
<1>8. \A k \in K : \E i \in 1 .. Len(r) : r[i] = score(k)
  <2> TAKE k \in K
  <2>1. PICK m \in 1 .. Len(s) : h[m] = k
    BY <1>6
  <2>2. PICK i \in 1 .. Len(r) : g[i] = m
    BY <1>1, <1>4, <2>1
  <2> QED BY <1>4, <1>6, <2>1, <2>2
<1>9. ASSUME NEW i \in 1 .. Len(r), NEW j \in 1 .. Len(r)
      PROVE  /\ i < j => ~ RanksBefore(r[j], r[i])
             /\ RanksBefore(r[i], r[j]) => i < j
  <2>1. /\ <<r[j], r[i]>> \in R <=> RanksBefore(r[j], r[i])
        /\ <<r[i], r[j]>> \in R <=> RanksBefore(r[i], r[j])
    BY <1>5 DEF Outranking
  <2> QED BY <1>4, <2>1
<1> QED BY <1>1, <1>4, <1>5, <1>7, <1>8, <1>9 DEF s, K, r, score

LEMMA SearchRecord ==
    ASSUME NEW products, NEW spec, NEW profile, Executable(products, spec, profile)
    PROVE  LET r == Ranked(products, spec, profile)
               rejected(n) == Cardinality({i \in DOMAIN products : n \in Missed(products[i], spec.hard)})
           IN  SearchProducts(products, spec, profile) =
                  [items |-> SubSeq(r, 1, MinOf(Len(r), spec.limit)),
                   has_more |-> Len(r) > spec.limit, match_count |-> Len(r),
                   candidate_count |-> Len(products),
                   rejections |-> [n \in {m \in CheckNames : rejected(m) > 0} |-> rejected(n)]]
<1> DEFINE r == Ranked(products, spec, profile)
           found == SearchProducts(products, spec, profile)
           matches(p) == Matches(p, spec.hard)
           scored(p) == LET parts == ScoreParts(p, spec.soft, spec.query, profile)
                        IN  [product |-> p, parts |-> parts, score |-> Combine(parts)]
           t == Passing(products, matches)
           s == [i \in DOMAIN t |-> scored(t[i])]
           rejected(n) == Cardinality({i \in DOMAIN products : n \in Missed(products[i], spec.hard)})
           rejections == [n \in {m \in CheckNames : rejected(m) > 0} |-> rejected(n)]
<1>1. t = Taken(products, Matching(products, spec.hard))
  BY DEF Passing, Taken, Matching
<1>2. s = ScoredMatches(products, spec, profile)
  <2>1. ScoredMatches(products, spec, profile) = [i \in DOMAIN t |-> Scored(t[i], spec, profile)]
    BY <1>1 DEF ScoredMatches
  <2>2. \A p : Scored(p, spec, profile) = scored(p)
    BY DEF Scored
  <2> HIDE DEF t, scored
  <2> QED BY <2>1, <2>2
<1>3. found = [items |-> SubSeq(Sorted(s, RanksBefore), 1, MinOf(Len(Sorted(s, RanksBefore)), spec.limit)),
               has_more |-> Len(Sorted(s, RanksBefore)) > spec.limit,
               match_count |-> Len(Sorted(s, RanksBefore)),
               candidate_count |-> Len(products), rejections |-> rejections]
  BY DEF SearchProducts
<1> HIDE DEF s, t, found, rejections
<1>4. Sorted(s, RanksBefore) = r
  <2>1. IsSeq(ScoredMatches(products, spec, profile))
    BY ScoredMatchFacts
  <2>2. Sorted(s, RanksBefore) = Arranged(s, Outranking(Range(s)))
    BY <1>2, <2>1, SortedByRank
  <2> QED BY <1>2, <2>2 DEF Ranked
<1>5. found = [items |-> SubSeq(r, 1, MinOf(Len(r), spec.limit)),
               has_more |-> Len(r) > spec.limit, match_count |-> Len(r),
               candidate_count |-> Len(products), rejections |-> rejections]
  BY <1>3, <1>4
<1> HIDE DEF r
<1> QED BY <1>5 DEF r, found, rejections

Rejections(products, hard) ==
    LET rejected(n) == Cardinality({i \in DOMAIN products : n \in Missed(products[i], hard)})
    IN  [n \in {m \in CheckNames : rejected(m) > 0} |-> rejected(n)]

LEMMA SearchIs ==
    ASSUME NEW products, NEW spec, NEW profile, Executable(products, spec, profile),
           NEW r, r = Ranked(products, spec, profile),
           NEW found, found = SearchProducts(products, spec, profile)
    PROVE  /\ found.items = SubSeq(r, 1, MinOf(Len(r), spec.limit))
           /\ found.match_count = Len(r)
           /\ found.rejections = Rejections(products, spec.hard)
<1> DEFINE rejected(n) == Cardinality({i \in DOMAIN products : n \in Missed(products[i], spec.hard)})
           rejections == [n \in {m \in CheckNames : rejected(m) > 0} |-> rejected(n)]
           items == SubSeq(r, 1, MinOf(Len(r), spec.limit))
           more == Len(r) > spec.limit
<1>1. found = [items |-> items, has_more |-> more, match_count |-> Len(r),
               candidate_count |-> Len(products), rejections |-> rejections]
  BY SearchRecord
<1>2. rejections = Rejections(products, spec.hard)
  BY DEF Rejections
<1> HIDE DEF items, rejections, more
<1>3. found.items = items /\ found.match_count = Len(r) /\ found.rejections = rejections
  BY <1>1
<1> QED BY <1>2, <1>3 DEF items

-----------------------------------------------------------------------------
(* What a request is executed with                                         *)

LEMMA ThreeAreFinite == ASSUME NEW a, NEW b, NEW c PROVE IsFiniteSet({a, b, c})
<1>1. {a, b, c} = {a, b} \cup {c}
  OBVIOUS
<1>2. IsFiniteSet({a, b}) /\ IsFiniteSet({c})
  BY FinitePair, FS_Singleton
<1>3. IsFiniteSet({a, b} \cup {c})
  BY <1>2, FS_Union
<1> QED BY <1>1, <1>3

LEMMA VocabulariesFinite ==
    /\ IsFiniteSet(Slugs(STYLES)) /\ IsFiniteSet(Slugs(FEELS)) /\ IsFiniteSet(Slugs(ROOM_TYPES))
    /\ IsFiniteSet(Slugs(MATERIALS))
<1>1. ASSUME NEW V, IsFiniteSet(V) PROVE IsFiniteSet(Slugs(V))
  <2> DEFINE f == [t \in V |-> t.slug]
  <2>1. DOMAIN f = V /\ f = [t \in DOMAIN f |-> f[t]] /\ Slugs(V) = {f[t] : t \in DOMAIN f}
    BY DEF Slugs
  <2> HIDE DEF f
  <2> QED BY <1>1, <2>1, FiniteImage
<1>2. IsFiniteSet(STYLES) /\ IsFiniteSet(FEELS) /\ IsFiniteSet(ROOM_TYPES) /\ IsFiniteSet(MATERIALS)
  <2>1. IsFiniteSet(MATERIALS)
    BY ThreeAreFinite DEF MATERIALS
  <2> QED BY <2>1, FinitePair DEF STYLES, FEELS, ROOM_TYPES
<1> QED BY <1>1, <1>2

LEMMA ValidSoftOk == ASSUME NEW soft, ValidSoft(soft) PROVE SoftOk(soft)
<1>1. /\ soft.styles \subseteq Slugs(STYLES) /\ soft.feels \subseteq Slugs(FEELS)
      /\ soft.room \subseteq Slugs(ROOM_TYPES) /\ soft.materials \subseteq Slugs(MATERIALS)
  BY DEF ValidSoft, ValidSlugs
<1>2. /\ IsFiniteSet(soft.styles) /\ IsFiniteSet(soft.feels) /\ IsFiniteSet(soft.room)
      /\ IsFiniteSet(soft.materials)
  BY <1>1, VocabulariesFinite, FS_Subset
<1>3. MAX_PRICE \in Nat /\ MAX_DIMENSION_CM \in Nat
  BY DEF MAX_PRICE, MAX_DIMENSION_CM
<1>4. soft.price \subseteq 1 .. MAX_PRICE /\ \A d \in Dimensions : soft[d] \subseteq 1 .. MAX_DIMENSION_CM
  BY DEF ValidSoft
<1> HIDE DEF MAX_PRICE, MAX_DIMENSION_CM
<1>5. \A t \in soft.price : t \in Nat /\ t # 0
  BY <1>3, <1>4
<1>6. \A d \in Dimensions : \A t \in soft[d] : t \in Nat /\ t # 0
  BY <1>3, <1>4
<1> QED BY <1>2, <1>5, <1>6 DEF SoftOk

\* A specification that a draft gave passes on its limits as they were.
Limits == {"price", "width", "height", "depth", "in_stock_only"}
SoftLimits == {"near_width", "near_height", "near_depth", "near_price"}
LEMMA SpecificationFacts ==
    ASSUME NEW draft, Limits \cup SoftLimits \subseteq DOMAIN draft,
           NEW query, NEW limit,
           NEW spec \in SpecificationFromDraft(draft, query, limit).specification
    PROVE  /\ \A n \in Limits : spec.hard[n] = draft[n]
           /\ DOMAIN spec.hard = DOMAIN NoHard
           /\ spec.query = query
           /\ ValidHard(spec.hard) /\ ValidSoft(spec.soft) /\ spec.limit \in Nat /\ spec.limit # 0
           /\ SoftOk(spec.soft)
<1> DEFINE kept == UsablePreferences(draft)
           build == BuildSpecification(kept, query, limit)
           s == build.specification
<1>1. \A n \in Limits : kept[n] = draft[n]
  BY DEF UsablePreferences, Limits
<1>2. ValidSpecification(s) /\ spec = s
  <2>1. SpecificationFromDraft(draft, query, limit) =
            [build EXCEPT !.specification =
                IF ValidRequirementDraft(draft) /\ ValidSpecification(s) THEN {s} ELSE {}]
    BY DEF SpecificationFromDraft
  <2>2. "specification" \in DOMAIN build
    BY DEF BuildSpecification
  <2> HIDE DEF build, s
  <2>3. spec \in (IF ValidRequirementDraft(draft) /\ ValidSpecification(s) THEN {s} ELSE {})
    BY <2>1, <2>2
  <2> QED BY <2>3
<1> HIDE DEF kept
<1> DEFINE c == Resolved(CATEGORIES, kept.category)
           o == Resolved(COLOURS, kept.colours)
           m == Resolved(MATERIALS, kept.materials)
           h == [category |-> c, colours |-> o, materials |-> m, price |-> kept.price,
                 width |-> kept.width, height |-> kept.height, depth |-> kept.depth,
                 in_stock_only |-> kept.in_stock_only]
<1>3. s.hard = h /\ s.query = query
  BY DEF BuildSpecification
<1> HIDE DEF c, o, m, s
<1>4. (\A n \in Limits : h[n] = kept[n]) /\ DOMAIN h = DOMAIN NoHard
  BY DEF NoHard, Limits
<1> HIDE DEF h
<1>5. ValidHard(spec.hard) /\ ValidSoft(spec.soft) /\ spec.limit \in Nat /\ spec.limit # 0
  BY <1>2 DEF ValidSpecification, MAX_RESULTS
<1>6. SoftOk(spec.soft)
  BY <1>5, ValidSoftOk
<1> QED BY <1>1, <1>2, <1>3, <1>4, <1>5, <1>6

-----------------------------------------------------------------------------
(* The median price of a profile is not negative                           *)

Less(S) == {p \in S \X S : p[1] < p[2]}

LEMMA SortedByLess ==
    ASSUME NEW s, IsSeq(s)
    PROVE  Sorted(s, <) = Arranged(s, Less(Range(s)))
<1> DEFINE D == DOMAIN s
           R == Less(Range(s))
           F == First(s, R)
           n == Cardinality(D)
           before(i, j) == \/ s[i] < s[j]
                           \/ ~ (s[j] < s[i]) /\ i < j
           at(k) == CHOOSE x \in D : Cardinality({y \in D : before(y, x)}) = k - 1
           order == [k \in 1 .. n |-> at(k)]
<1>1. Sorted(s, <) = [k \in DOMAIN order |-> s[order[k]]]
  BY DEF Sorted, InOrder
<1>2. ASSUME NEW x \in D, NEW y \in D PROVE <<y, x>> \in F <=> before(y, x)
  <2>1. s[x] \in Range(s) /\ s[y] \in Range(s)
    BY DEF Range
  <2>2. /\ <<s[y], s[x]>> \in R <=> s[y] < s[x]
        /\ <<s[x], s[y]>> \in R <=> s[x] < s[y]
    BY <2>1 DEF Less
  <2> HIDE DEF R
  <2>3. <<y, x>> \in F <=> (<<s[y], s[x]>> \in R \/ (<<s[x], s[y]>> \notin R /\ y < x))
    BY DEF First
  <2> QED BY <2>2, <2>3
<1> HIDE DEF before, F
<1>3. ASSUME NEW x \in D PROVE RankIn(F, D, x) = Cardinality({y \in D : before(y, x)})
  <2>1. {y \in D : <<y, x>> \in F} = {y \in D : before(y, x)}
    BY <1>2
  <2> QED BY <2>1 DEF RankIn
<1>4. ASSUME NEW k PROVE at(k) = CHOOSE x \in D : RankIn(F, D, x) = k - 1
  <2> HIDE DEF D
  <2> QED BY <1>3
<1>5. Places(s, R) = order
  <2>1. Places(s, R) = [k \in 1 .. n |-> CHOOSE x \in D : RankIn(F, D, x) = k - 1]
    BY DEF Places, F
  <2> HIDE DEF at, D, n, R
  <2> QED BY <1>4, <2>1
<1>6. DOMAIN order = 1 .. n
  OBVIOUS
<1>7. Arranged(s, R) = [k \in 1 .. n |-> s[Places(s, R)[k]]]
  BY DEF Arranged
<1> HIDE DEF order, n, R
<1> QED BY <1>1, <1>5, <1>6, <1>7 DEF R

LEMMA MedianNat ==
    ASSUME NEW s, IsSeq(s), \A x \in Range(s) : x \in Nat
    PROVE  \A m \in Median(s) : m \in Nat
<1> DEFINE R == Less(Range(s))
           a == Sorted(s, <)
           middle == Len(a) \div 2
<1>1. Sorts(R, Range(s))
  <2>1. ASSUME NEW x \in Range(s), NEW y \in Range(s) PROVE <<x, y>> \in R <=> x < y
    BY DEF Less
  <2> HIDE DEF R
  <2>2. \A x \in Range(s) : <<x, x>> \notin R
    BY <2>1
  <2>3. \A x, y, z \in Range(s) : <<x, z>> \in R => <<x, y>> \in R \/ <<y, z>> \in R
    BY <2>1
  <2>4. \A x, y, z \in Range(s) : <<x, y>> \in R /\ <<y, z>> \in R => <<x, z>> \in R
    BY <2>1
  <2> QED BY <2>2, <2>3, <2>4 DEF Sorts
<1>2. a = Arranged(s, R)
  BY SortedByLess
<1>3. /\ IsSeq(a) /\ Len(a) \in Nat /\ DOMAIN a = 1 .. Len(a)
      /\ \A i \in 1 .. Len(a) : a[i] \in Nat
  <2> DEFINE b == Arranged(s, R)
             h == Places(s, R)
  <2>1. /\ IsSeq(b) /\ Len(b) \in Nat /\ DOMAIN b = 1 .. Len(b)
        /\ \A i \in 1 .. Len(b) : h[i] \in DOMAIN s /\ b[i] = s[h[i]]
    <3> HIDE DEF R
    <3> QED BY <1>1, ArrangedFacts
  <2> HIDE DEF b, h, a
  <2>2. \A i \in 1 .. Len(b) : b[i] \in Range(s)
    BY <2>1 DEF Range
  <2>3. a = b
    BY <1>2 DEF b
  <2> QED BY <2>1, <2>2, <2>3
<1>4. Median(s) = IF a = <<>> THEN {}
                  ELSE IF Len(a) % 2 = 1 THEN {a[middle + 1]}
                  ELSE {(a[middle] + a[middle + 1]) \div 2}
  BY DEF Median
<1> DEFINE n == Len(a)
<1> HIDE DEF a, R
<1>5. a # <<>> => n # 0
  BY <1>3, EmptySeq DEF IsSeq
<1>6. n % 2 = 1 => middle + 1 \in 1 .. n
  BY <1>3
<1>7. n # 0 /\ n % 2 # 1 => middle \in 1 .. n /\ middle + 1 \in 1 .. n
  BY <1>3
<1> HIDE DEF middle
<1>8. n # 0 /\ n % 2 # 1 => (a[middle] + a[middle + 1]) \div 2 \in Nat
  <2> SUFFICES ASSUME n # 0, n % 2 # 1 PROVE (a[middle] + a[middle + 1]) \div 2 \in Nat
    OBVIOUS
  <2> DEFINE x == a[middle]
             y == a[middle + 1]
  <2>1. x \in Nat /\ y \in Nat
    BY <1>3, <1>7
  <2> HIDE DEF x, y
  <2>2. (x + y) \div 2 \in Nat
    BY <2>1
  <2> QED BY <2>2 DEF x, y
<1>9. n % 2 = 1 => a[middle + 1] \in Nat
  BY <1>3, <1>6
<1> HIDE DEF n
<1> QED BY <1>4, <1>5, <1>8, <1>9 DEF n

LEMMA ProfilesOk ==
    ASSUME shop \in Shops, NEW taste \in TasteProfiles
    PROVE  ProfileOk(taste)
<1> DEFINE paid == shop.paid
           K == {i \in DOMAIN paid : paid[i] > 0}
           usable == Taken(paid, K)
           bought == ListByIds(shop.rows, Range(shop.bought))
           products == [i \in DOMAIN bought |-> NormalizeProduct(bought[i])]
<1>2. paid \in Seq(Int)
  BY ShopAssumption
<1>3. IsSeq(paid) /\ Len(paid) \in Nat /\ DOMAIN paid = 1 .. Len(paid) /\ \A i \in DOMAIN paid : paid[i] \in Int
  <2> HIDE DEF paid
  <2> QED BY <1>2, SeqFacts, LenProperties
<1>4. IsSeq(usable) /\ \A x \in Range(usable) : x \in Nat
  <2>1. K \subseteq DOMAIN paid /\ \A k \in K : paid[k] \in Nat
    <3>1. \A k \in K : paid[k] \in Int /\ paid[k] > 0
      <4> HIDE DEF paid
      <4> QED BY <1>3
    <3>2. \A k \in K : paid[k] \in Nat
      <4> HIDE DEF paid, K
      <4> QED BY <3>1
    <3> QED BY <3>2
  <2> DEFINE t == Taken(paid, K)
  <2> HIDE DEF K, paid, usable
  <2>2. /\ IsSeq(t) /\ DOMAIN t = 1 .. Len(t)
        /\ \E h \in [1 .. Len(t) -> K] : \A i \in 1 .. Len(t) : t[i] = paid[h[i]]
    BY <1>3, <2>1, TakenOf
  <2> HIDE DEF t
  <2>3. \A x \in Range(t) : x \in Nat
    BY <2>1, <2>2 DEF Range
  <2> QED BY <2>2, <2>3 DEF t, usable
<1>5. \A m \in Median(usable) : m \in Nat
  <2> HIDE DEF usable
  <2> QED BY <1>4, MedianNat
<1>6. CASE taste = NoProfile
  BY <1>6 DEF NoProfile, ProfileOk
<1>7. CASE taste # NoProfile
  <2>1. taste \in BuildProfiles(products, paid)
    BY <1>7 DEF TasteProfiles
  <2> DEFINE kept == Passing(paid, LAMBDA p : p > 0)
             C == Tops(products, LAMBDA p : {p.category} \ {Unmapped})
             O == Tops(products, LAMBDA p : ColourSlugs(p.colours))
             M == Tops(products, LAMBDA p : p.materials)
             count == IF Len(products) > Len(kept) THEN Len(products) ELSE Len(kept)
  <2>2. BuildProfiles(products, paid) =
            {[categories |-> c, colours |-> o, materials |-> m, price |-> Median(kept),
              purchases |-> count] : c \in C, o \in O, m \in M}
    BY DEF BuildProfiles, Tops, Passing, InOrder
  <2>3. kept = usable
    BY DEF Passing, Taken
  <2> HIDE DEF products, paid, kept, usable, C, O, M, count
  <2>4. taste.price = Median(usable)
    BY <2>1, <2>2, <2>3
  <2> QED BY <1>5, <2>4 DEF ProfileOk
<1> QED BY <1>6, <1>7

-----------------------------------------------------------------------------
(* The answers                                                             *)

FoundProducts(spec) == AttachInferredTags(Candidates, spec.soft, shop.tags, MAX_TAGS)
SearchedFor(spec) ==
    /\ \E t \in Turns : spec \in SpecificationFromDraft(request.draft, {t.query}, request.limit).specification
    /\ Searchable(FoundProducts(spec))
Found(spec, taste, unresolved) ==
    SearchReply(FoundProducts(spec), SearchProducts(FoundProducts(spec), spec, taste), spec, taste, unresolved)
Newest(targets) == InOrder({r \in shop.reviews : targets \subseteq r.targets},
                           LAMBDA r, q : r.at > q.at \/ (r.at = q.at /\ r.id < q.id))
AboutTargets(targets, limit, offset) ==
    Passing(SubSeq(Newest(targets), offset + 1, MinOf(Len(Newest(targets)), offset + limit + 1)),
            LAMBDA r : r.targets = targets)

\* A search, a page or a list of reviews that was answered is what the
\* caller's shop holds for the request.
Served ==
    /\ shop \in Shops /\ request \in Requests
    /\ answer.status \in Statuses
    /\ Answered("search") => \E spec, unresolved : \E taste \in TasteProfiles :
            SearchedFor(spec) /\ answer = Found(spec, taste, unresolved)
    /\ Answered("page") =>
            answer = Joined([status |-> "ok"], BuildProductListResponse(
                         ListProducts(shop.rows, request.limit, request.offset), request.limit))
    /\ Answered("reviews") =>
            LET kept == AboutTargets(request.targets, request.limit, request.offset)
            IN  /\ Cardinality(request.targets) = 1
                /\ answer = [status |-> "ok", items |-> SubSeq(kept, 1, MinOf(Len(kept), request.limit)),
                             has_more |-> Len(kept) > request.limit]

LEMMA ServedInit == Init => Served
<1> SUFFICES ASSUME Init PROVE Served
  OBVIOUS
<1>1. shop \in Shops /\ request \in Requests /\ answer.status = "none"
  BY DEF Init, Unanswered
<1> QED BY <1>1 DEF Served, Answered, Statuses

LEMMA FailedStatus ==
    \A status \in {"invalid_request", "invalid_query", "search_upstream_error", "catalogue_upstream_error",
                   "product_not_found", "service_directory_unavailable"} :
        Failed(status).status \in Statuses /\ Failed(status).status # "ok"
  BY DEF Failed, Statuses

LEMMA OkStatus == ASSUME NEW f PROVE Joined([status |-> "ok"], f).status = "ok"
  BY DEF Joined

LEMMA ServedStep == Served /\ [Next]_vars => Served'
<1> SUFFICES ASSUME Served, [Next]_vars PROVE Served'
  OBVIOUS
<1>1. CASE UNCHANGED vars
  <2>1. shop' = shop /\ request' = request /\ answer' = answer
    BY <1>1 DEF vars
  <2>2. \A spec, taste, unresolved :
            /\ SearchedFor(spec)' <=> SearchedFor(spec)
            /\ Found(spec, taste, unresolved)' = Found(spec, taste, unresolved)
    BY <2>1 DEF SearchedFor, Found, FoundProducts, Turns,
                SearchReply, Candidates, CandidateRows, Products, Truncated
  <2>3. TasteProfiles' = TasteProfiles
    BY <2>1 DEF TasteProfiles
  <2>4. \A targets, limit, offset : AboutTargets(targets, limit, offset)' = AboutTargets(targets, limit, offset)
    BY <2>1 DEF AboutTargets, Newest, Passing, InOrder
  <2> QED BY <2>1, <2>2, <2>3, <2>4 DEF Served, Answered
<1>2. ASSUME NEW kind, NEW replies, Reply(kind, replies), kind \notin {"search", "page", "reviews"},
             \A a \in replies : a.status \in Statuses
      PROVE  Served'
  <2>1. /\ shop' = shop /\ request' = request /\ request.kind = kind /\ answer' \in replies
    BY <1>2 DEF Reply
  <2> QED BY <1>2, <2>1 DEF Served, Answered
<1>3. CASE Search
  <2> DEFINE builds == {SpecificationFromDraft(request.draft, {t.query}, request.limit) : t \in Turns}
             replies(s, u) == SearchReplies(FoundProducts(s), s, u)
             all == UNION {IF b.specification = {} THEN {Failed("search_upstream_error")}
                           ELSE UNION {replies(s, b.unresolved) : s \in b.specification} : b \in builds}
  <2>1. /\ shop' = shop /\ request' = request /\ request.kind = "search"
        /\ answer' \in IF Turns = {} THEN {Failed("invalid_query")} ELSE all
    BY <1>3 DEF Search, Reply, FoundProducts
  <2>2. answer' = Failed("invalid_query") \/ answer' \in all
    <3> HIDE DEF all
    <3> QED BY <2>1
  <2>3. ASSUME answer' \in all
        PROVE  \/ answer' = Failed("search_upstream_error")
               \/ answer' = Failed("catalogue_upstream_error")
               \/ \E spec, unresolved : \E taste \in TasteProfiles :
                     SearchedFor(spec) /\ answer' = Found(spec, taste, unresolved)
    <3>1. PICK b \in builds :
             answer' \in IF b.specification = {} THEN {Failed("search_upstream_error")}
                         ELSE UNION {replies(s, b.unresolved) : s \in b.specification}
      <4> HIDE DEF replies, builds
      <4> QED BY <2>3
    <3>2. CASE answer' = Failed("search_upstream_error")
      BY <3>2
    <3>3. CASE answer' \in UNION {replies(s, b.unresolved) : s \in b.specification}
      <4>1. PICK s \in b.specification : answer' \in replies(s, b.unresolved)
        <5> HIDE DEF replies, builds
        <5> QED BY <3>3
      <4>2. PICK t \in Turns : s \in SpecificationFromDraft(request.draft, {t.query}, request.limit).specification
        BY <4>1
      <4>3. answer' \in IF ~ Searchable(FoundProducts(s)) THEN {Failed("catalogue_upstream_error")}
                        ELSE {Found(s, taste, b.unresolved) : taste \in TasteProfiles}
        BY <4>1 DEF SearchReplies, Found
      <4>4. CASE Searchable(FoundProducts(s))
        <5>1. PICK taste \in TasteProfiles : answer' = Found(s, taste, b.unresolved)
          BY <4>3, <4>4
        <5>2. SearchedFor(s)
          BY <4>2, <4>4 DEF SearchedFor
        <5> QED BY <5>1, <5>2
      <4>5. CASE ~ Searchable(FoundProducts(s))
        BY <4>3, <4>5
      <4> QED BY <4>4, <4>5
    <3> HIDE DEF replies
    <3> QED BY <3>1, <3>2, <3>3
  <2>4. /\ (\E spec, unresolved : \E taste \in TasteProfiles :
                 SearchedFor(spec) /\ answer' = Found(spec, taste, unresolved))
           <=> (\E spec, unresolved : \E taste \in TasteProfiles' :
                 SearchedFor(spec)' /\ answer' = Found(spec, taste, unresolved)')
    BY <2>1 DEF SearchedFor, Found, FoundProducts, Turns,
                SearchReply, Candidates, CandidateRows, Products, Truncated, TasteProfiles
  <2>5. \A spec, taste, unresolved : Found(spec, taste, unresolved).status = "ok"
    BY DEF Found, SearchReply
  <2> HIDE DEF all
  <2>6. CASE \E spec, unresolved : \E taste \in TasteProfiles :
                 SearchedFor(spec) /\ answer' = Found(spec, taste, unresolved)
    <3>1. answer'.status = "ok"
      BY <2>5, <2>6
    <3>2. "ok" \in Statuses
      BY DEF Statuses
    <3> QED BY <2>1, <2>4, <2>6, <3>1, <3>2 DEF Served, Answered
  <2>7. CASE answer'.status # "ok" /\ answer'.status \in Statuses
    BY <2>1, <2>7 DEF Served, Answered
  <2> QED BY <2>2, <2>3, <2>6, <2>7, FailedStatus
<1>4. CASE ListPage
  <2> DEFINE page == Joined([status |-> "ok"], BuildProductListResponse(
                        ListProducts(shop.rows, request.limit, request.offset), request.limit))
  <2>1. shop' = shop /\ request' = request /\ request.kind = "page" /\ answer' = page
    BY <1>4 DEF ListPage, Reply
  <2>2. page.status \in Statuses
    BY OkStatus DEF Statuses
  <2>3. answer' = page'
    BY <2>1
  <2> HIDE DEF page
  <2>4. answer'.status \in Statuses
    BY <2>1, <2>2
  <2> QED BY <2>1, <2>3, <2>4 DEF Served, Answered, page
<1>5. CASE ListPublicReviews
  <2> DEFINE kept == AboutTargets(request.targets, request.limit, request.offset)
             reply == [status |-> "ok", items |-> SubSeq(kept, 1, MinOf(Len(kept), request.limit)),
                       has_more |-> Len(kept) > request.limit]
  <2>1. /\ shop' = shop /\ request' = request /\ request.kind = "reviews"
        /\ answer' \in IF Cardinality(request.targets) # 1 THEN {Failed("invalid_request")} ELSE {reply}
    BY <1>5 DEF ListPublicReviews, Reply, AboutTargets, Newest
  <2>2. reply.status = "ok" /\ "ok" \in Statuses
    BY DEF Statuses
  <2>3. reply' = reply
    <3>1. \A targets, limit, offset :
              AboutTargets(targets, limit, offset)' = AboutTargets(targets, limit, offset)
      <4>1. shop' = shop
        BY <2>1
      <4> HIDE DEF kept, reply
      <4> QED BY <4>1 DEF AboutTargets, Newest, Passing, InOrder
    <3> QED BY <2>1, <3>1
  <2> HIDE DEF reply
  <2>4. CASE Cardinality(request.targets) # 1
    <3>1. answer' = Failed("invalid_request")
      BY <2>1, <2>4
    <3>2. answer'.status \in Statuses /\ answer'.status # "ok"
      BY <3>1, FailedStatus
    <3> QED BY <2>1, <3>2 DEF Served, Answered
  <2>5. CASE Cardinality(request.targets) = 1
    <3>1. answer' = reply /\ answer' = reply'
      BY <2>1, <2>3, <2>5
    <3>2. answer'.status \in Statuses
      BY <2>2, <3>1
    <3>3. Cardinality(request'.targets) = 1
      BY <2>1, <2>5
    <3> QED BY <2>1, <3>1, <3>2, <3>3 DEF Served, Answered, reply
  <2> QED BY <2>4, <2>5
<1>6. CASE Plan
  <2> DEFINE specs == UNION {SpecificationFromRoomDraft(request.draft, t.query) : t \in Turns}
             replies == IF Turns = {} THEN {Failed("invalid_query")}
                        ELSE IF specs = {} THEN {Failed("search_upstream_error")}
                        ELSE {RoomReply(PlanRoom(Candidates, s), s) : s \in specs}
  <2>1. Reply("room", replies)
    BY <1>6 DEF Plan
  <2>2. \A plan, s : RoomReply(plan, s).status \in Statuses
    BY DEF RoomReply, Statuses
  <2>3. \A a \in replies : a.status \in Statuses
    <3> HIDE DEF specs
    <3> QED BY <2>2, FailedStatus
  <2> HIDE DEF replies
  <2> QED BY <1>2, <2>1, <2>3
<1>7. CASE CompareProducts
  <2> DEFINE shown == [i \in DOMAIN request.ids |-> {NormalizeProduct(r) : r \in OneProduct(request.ids[i])}]
             table == BuildComparison([i \in DOMAIN shown |-> CHOOSE p \in shown[i] : TRUE])
             replies == IF Len(request.ids) \notin MIN_COMPARED .. MAX_COMPARED \/ ~ IsInjective(request.ids)
                        THEN {Failed("invalid_request")}
                        ELSE IF \E i \in DOMAIN shown : shown[i] = {} THEN {Failed("product_not_found")}
                        ELSE {Joined([status |-> "ok"], table)}
  <2>1. Reply("compare", replies)
    BY <1>7 DEF CompareProducts
  <2>2. "ok" \in Statuses
    BY DEF Statuses
  <2>3. \A a \in replies : a.status \in Statuses
    <3> HIDE DEF shown, table
    <3> QED BY <2>2, OkStatus, FailedStatus
  <2> HIDE DEF replies
  <2> QED BY <1>2, <2>1, <2>3
<1>8. CASE Similar
  <2> DEFINE found(target) == FindSimilar(target, Candidates, request.limit)
             item(target, p) == [product |-> p.id, difference |-> p.price - target.price,
                                 reasons |-> SimilarReasons(target, p)]
             items(target) == [i \in DOMAIN found(target) |-> item(target, found(target)[i])]
             reply(target) == [status |-> "ok", target |-> target, items |-> items(target),
                               candidate_count |-> Len(Candidates), truncated |-> Truncated]
             replies == IF OneProduct(request.id) = {} THEN {Failed("product_not_found")}
                        ELSE {reply(NormalizeProduct(r)) : r \in OneProduct(request.id)}
  <2>1. Reply("similar", replies)
    BY <1>8 DEF Similar
  <2> HIDE DEF items
  <2>2. \A t : reply(t).status \in Statuses
    BY DEF Statuses
  <2> HIDE DEF reply
  <2>3. \A a \in replies : a.status \in Statuses
    BY <2>2, FailedStatus
  <2> HIDE DEF replies
  <2> QED BY <1>2, <2>1, <2>3
<1>9. CASE View
  <2> DEFINE shown == UNION {BuildProductResponse(r) : r \in GetProduct(shop.rows, request.id)}
             replies == IF shown = {} THEN {Failed("product_not_found")}
                        ELSE {[status |-> "ok", product |-> p] : p \in shown}
  <2>1. Reply("view", replies)
    BY <1>9 DEF View
  <2>2. "ok" \in Statuses
    BY DEF Statuses
  <2>3. \A a \in replies : a.status \in Statuses
    <3> HIDE DEF shown
    <3> QED BY <2>2, FailedStatus
  <2> HIDE DEF replies
  <2> QED BY <1>2, <2>1, <2>3
<1>10. CASE ClassifyService
  <2> DEFINE services == ParseServiceRows(shop.services)
             chosen == ServicesFromDraft(request.draft.choices, services)
             replies == IF services = <<>> THEN {Failed("service_directory_unavailable")}
                        ELSE IF Turns = {} THEN {Failed("invalid_query")}
                        ELSE IF ~ ValidTriageDraft(request.draft) THEN {Failed("search_upstream_error")}
                        ELSE {[status |-> "ok", services |-> chosen]}
  <2>1. Reply("service", replies)
    BY <1>10 DEF ClassifyService
  <2>2. "ok" \in Statuses
    BY DEF Statuses
  <2>3. \A a \in replies : a.status \in Statuses
    <3> HIDE DEF services, chosen
    <3> QED BY <2>2, FailedStatus
  <2> HIDE DEF replies
  <2> QED BY <1>2, <2>1, <2>3
<1>11. CASE ReadBrief
  <2> DEFINE brief == BriefFromDraft(request.draft)
             replies == IF Turns = {} THEN {Failed("invalid_query")}
                        ELSE IF ~ ValidBriefDraft(request.draft) THEN {Failed("search_upstream_error")}
                        ELSE {Joined([status |-> "ok"], brief)}
  <2>1. Reply("brief", replies)
    BY <1>11 DEF ReadBrief
  <2>2. "ok" \in Statuses
    BY DEF Statuses
  <2>3. \A a \in replies : a.status \in Statuses
    <3> HIDE DEF brief
    <3> QED BY <2>2, OkStatus, FailedStatus
  <2> HIDE DEF replies
  <2> QED BY <1>2, <2>1, <2>3
<1> QED BY <1>1, <1>3, <1>4, <1>5, <1>6, <1>7, <1>8, <1>9, <1>10, <1>11 DEF Next

LEMMA AlwaysServed == Spec => []Served
<1> QED BY ServedInit, ServedStep, PTL DEF Spec

-----------------------------------------------------------------------------
(* What a search that was answered has looked at                           *)

\* A product of a search is a row for sale, with tags.
FromRow(p, r) == \E q \in shop.rows : \E T :
                     /\ IsRecommendationEligible(q) /\ TagsOk(T)
                     /\ r = Cut(q) /\ p = Tagged(r, T)

LEMMA EffectivePriceInt ==
    ASSUME NEW r, r.price \in Int, \A d \in r.discount : d \in Int
    PROVE  EffectivePrice(r) \in Int
<1>1. CASE \E d \in r.discount : d < r.price
  <2>1. (CHOOSE d \in r.discount : TRUE) \in r.discount
    BY <1>1
  <2> QED BY <1>1, <2>1 DEF EffectivePrice
<1>2. CASE ~ \E d \in r.discount : d < r.price
  BY <1>2 DEF EffectivePrice
<1> QED BY <1>1, <1>2

LEMMA FromRowFacts ==
    ASSUME shop \in Shops, NEW p, NEW r, FromRow(p, r)
    PROVE  /\ Scorable(p)
           /\ \E q \in shop.rows :
                 /\ IsRecommendationEligible(q) /\ IsRecommendationEligible(r)
                 /\ p.id = q.id /\ r.id = q.id /\ p.price = EffectivePrice(q)
                 /\ \A d \in Dimensions : p[d] = q[d]
                 /\ \A c \in p.colours : \E d \in q.colours : d.stock > 0 /\ c.stock = d.stock
                 /\ \A c \in p.colours : c.stock > 0
                 /\ p.colours # {}
<1>0. PICK q \in shop.rows : \E T : /\ IsRecommendationEligible(q) /\ TagsOk(T)
                                     /\ r = Cut(q) /\ p = Tagged(r, T)
  BY DEF FromRow
<1>1. PICK T : /\ IsRecommendationEligible(q) /\ TagsOk(T)
               /\ r = Cut(q) /\ p = Tagged(r, T)
  BY <1>0
<1>2. /\ r.id = q.id /\ r.price = q.price /\ r.discount = q.discount
      /\ \A d \in Dimensions : r[d] = q[d]
      /\ r.colours = {c \in q.colours : c.stock > 0}
      /\ EffectivePrice(r) = EffectivePrice(q)
      /\ IsRecommendationEligible(r)
  BY <1>1, CutFacts
<1>3. /\ p.id = r.id /\ p.price = EffectivePrice(r)
      /\ p.width = r.width /\ p.height = r.height /\ p.depth = r.depth
      /\ p.colours = {[slug |-> Lookup(COLOURS, c.label), stock |-> c.stock] : c \in r.colours}
      /\ p.tags = T
  BY <1>1, TaggedFacts
<1>4. /\ q.id \in Int /\ q.price \in Int /\ q.discount \subseteq Int
      /\ \A d \in Dimensions : \A v \in q[d] : v \in Int
  BY ShopAssumption
<1>5. EffectivePrice(q) \in Int
  BY <1>4, EffectivePriceInt
<1>6. \A d \in Dimensions : p[d] = q[d]
  BY <1>2, <1>3 DEF Dimensions
<1>7. Scorable(p)
  BY <1>1, <1>2, <1>3, <1>4, <1>5, <1>6 DEF Scorable
<1>9. ASSUME NEW c \in p.colours PROVE c.stock > 0 /\ \E d \in q.colours : d.stock > 0 /\ c.stock = d.stock
  <2>1. PICK d \in r.colours : c = [slug |-> Lookup(COLOURS, d.label), stock |-> d.stock]
    BY <1>3
  <2>2. d \in q.colours /\ d.stock > 0
    BY <1>2
  <2> QED BY <2>1, <2>2
<1>10. p.colours # {}
  <2>1. PICK c \in r.colours : c.stock > 0
    BY <1>2 DEF IsRecommendationEligible
  <2> QED BY <1>3, <2>1
<1> QED BY <1>1, <1>2, <1>3, <1>6, <1>7, <1>9, <1>10

LEMMA SearchAnswer ==
    ASSUME Served, Answered("search")
    PROVE  LET products == answer.products
               spec == answer.spec
               taste == answer.taste
               found == SearchProducts(products, spec, taste)
           IN  /\ shop \in Shops /\ request \in Requests
               /\ Executable(products, spec, taste) /\ Distinct(products)
               /\ DOMAIN products = DOMAIN CandidateRows
               /\ Len(CandidateRows) \in Nat /\ DOMAIN CandidateRows = 1 .. Len(CandidateRows)
               /\ Len(products) = Len(CandidateRows)
               /\ \A i \in DOMAIN products : FromRow(products[i], CandidateRows[i])
               /\ \A n \in Limits : spec.hard[n] = request.draft[n]
               /\ DOMAIN spec.hard = DOMAIN NoHard
               /\ ValidHard(spec.hard) /\ ValidSoft(spec.soft) /\ spec.limit # 0
               /\ \E offers : answer.response =
                     BuildSearchResponse(CandidateRows, found, spec, request.draft.unclear,
                         IF found.match_count = 0 THEN NearestAlternatives(products, spec.hard) ELSE <<>>,
                         offers)
<1>1. shop \in Shops /\ request \in Requests /\ request.kind = "search"
  BY DEF Served, Answered
<1>2. PICK spec, unresolved : \E taste \in TasteProfiles :
          SearchedFor(spec) /\ answer = Found(spec, taste, unresolved)
  BY DEF Served
<1>3. PICK taste \in TasteProfiles : SearchedFor(spec) /\ answer = Found(spec, taste, unresolved)
  BY <1>2
<1> DEFINE products == FoundProducts(spec)
           found == SearchProducts(products, spec, taste)
           offers == IF found.match_count = 0 THEN PublishedOfferings(shop.offers) ELSE <<>>
           nearest == IF found.match_count = 0 THEN NearestAlternatives(products, spec.hard) ELSE <<>>
           response == BuildSearchResponse(CandidateRows, found, spec, request.draft.unclear, nearest, offers)
           cut == Truncated
           n == Len(CandidateRows)
<1>4. PICK t \in Turns : spec \in SpecificationFromDraft(request.draft, {t.query}, request.limit).specification
  BY <1>3 DEF SearchedFor
<1>5. Searchable(products)
  BY <1>3 DEF SearchedFor
<1>6. answer = [status |-> "ok", spec |-> spec, taste |-> taste, products |-> products,
                unresolved |-> unresolved, truncated |-> cut, response |-> response]
  BY <1>3 DEF Found, SearchReply
<1>7. /\ n \in Nat /\ DOMAIN CandidateRows = 1 .. n /\ DOMAIN products = 1 .. n
      /\ products = [i \in 1 .. n |-> products[i]]
      /\ \A i \in 1 .. n : \E T : TagsOk(T) /\ products[i] = Tagged(CandidateRows[i], T)
      /\ \A i \in 1 .. n : CandidateRows[i] \in CatalogueQuery(shop.rows)
  BY <1>1, AttachedFacts, CandidateRowFacts DEF FoundProducts
<1> HIDE DEF products, response, cut, n
<1>8. answer.spec = spec /\ answer.taste = taste /\ answer.products = products /\ answer.response = response
  BY <1>6
<1>9. Limits \cup SoftLimits \subseteq DOMAIN request.draft
  BY <1>1, RequestAssumption DEF Limits, SoftLimits
<1>10. /\ \A f \in Limits : spec.hard[f] = request.draft[f]
       /\ DOMAIN spec.hard = DOMAIN NoHard
       /\ spec.query = {t.query}
       /\ ValidHard(spec.hard) /\ ValidSoft(spec.soft) /\ spec.limit \in Nat /\ spec.limit # 0
       /\ SoftOk(spec.soft)
  BY <1>4, <1>9, SpecificationFacts
<1>11. Sayable(spec.query)
  <2>1. IsFiniteSet(DOMAIN t.query)
    BY <1>1, TurnWords
  <2> QED BY <1>10, <2>1 DEF Sayable
<1>12. ProfileOk(taste)
  BY <1>1, ProfilesOk
<1>13. \A i \in 1 .. n : FromRow(products[i], CandidateRows[i])
  <2> TAKE i \in 1 .. n
  <2>1. PICK T : TagsOk(T) /\ products[i] = Tagged(CandidateRows[i], T)
    BY <1>7
  <2>2. PICK q \in shop.rows : IsRecommendationEligible(q) /\ CandidateRows[i] = Cut(q)
    BY <1>1, <1>7, QueryRow
  <2> QED BY <2>1, <2>2 DEF FromRow
<1>14. IsSeq(products) /\ Len(products) = n
  <2> DEFINE S == Range(products)
  <2>1. products \in [1 .. n -> S]
    <3>1. \A i \in 1 .. n : products[i] \in S
      BY <1>7 DEF Range
    <3> HIDE DEF S
    <3> QED BY <1>7, <3>1
  <2> HIDE DEF S
  <2> QED BY <2>1, <1>7, FunIsSeq
<1>15. \A i \in DOMAIN products : Scorable(products[i])
  BY <1>1, <1>7, <1>13, FromRowFacts
<1>16. Executable(products, spec, taste)
  BY <1>10, <1>11, <1>12, <1>14, <1>15 DEF Executable
<1>17. Distinct(products)
  BY <1>5 DEF Searchable
<1>18. \E o : answer.response =
          BuildSearchResponse(CandidateRows, SearchProducts(answer.products, answer.spec, answer.taste),
              answer.spec, request.draft.unclear,
              IF SearchProducts(answer.products, answer.spec, answer.taste).match_count = 0
              THEN NearestAlternatives(answer.products, answer.spec.hard) ELSE <<>>, o)
  <2> HIDE DEF offers
  <2>1. answer.response =
          BuildSearchResponse(CandidateRows, SearchProducts(answer.products, answer.spec, answer.taste),
              answer.spec, request.draft.unclear,
              IF SearchProducts(answer.products, answer.spec, answer.taste).match_count = 0
              THEN NearestAlternatives(answer.products, answer.spec.hard) ELSE <<>>, offers)
    BY <1>8 DEF response
  <2> QED BY <2>1
<1> QED BY <1>1, <1>7, <1>8, <1>10, <1>13, <1>14, <1>16, <1>17, <1>18 DEF n

\* Nothing that was found is withheld.
LEMMA RowIsShown ==
    ASSUME NEW k \in DOMAIN CandidateRows, IsRecommendationEligible(CandidateRows[k]), NEW id,
           id = CandidateRows[k].id
    PROVE  Shippable(CandidateRows, id) # {}
<1> DEFINE row == CandidateRows[k]
           shown == [id |-> row.id, price |-> row.price, discount |-> row.discount,
                     colours |-> {c \in row.colours : c.stock > 0}, attributes |-> Confirmed(row)]
<1>1. BuildProductResponse(row) = {shown}
  BY DEF BuildProductResponse
<1>2. row \in Range(CandidateRows) /\ row.id = id
  BY DEF Range
<1> HIDE DEF row, shown
<1>3. shown \in UNION {BuildProductResponse(r) : r \in {q \in Range(CandidateRows) : q.id = id}}
  BY <1>1, <1>2
<1> QED BY <1>3 DEF Shippable

\* What the response to a search is made of.
PageItems(found, rows, spec) == [i \in DOMAIN found.items |-> SearchItem(found.items[i], rows, spec)]
Offered(nearest, rows, spec) == [i \in DOMAIN nearest |-> AlternativeItem(nearest[i], rows, spec)]

LEMMA ResponseFacts ==
    ASSUME NEW rows, NEW results, NEW spec, NEW unclear, NEW nearest, NEW offers, NEW response,
           response = BuildSearchResponse(rows, results, spec, unclear, nearest, offers)
    PROVE  /\ response.items = IF response.awaiting_answer THEN <<>> ELSE Shipped(PageItems(results, rows, spec))
           /\ response.match_count = IF response.awaiting_answer THEN 0 ELSE results.match_count
           /\ response.excluded_by = results.rejections
           /\ response.alternatives = Shipped(Offered(nearest, rows, spec))
           /\ response.awaiting_answer => response.follow_up # NoQuestion \/ response.clarification
<1> DEFINE page == [i \in DOMAIN results.items |-> results.items[i].product]
           items == [i \in DOMAIN results.items |-> SearchItem(results.items[i], rows, spec)]
           asked == FollowUp(spec, page, results.match_count, unclear)
           awaiting == ~ StatesARequirement(spec) /\ (asked # NoQuestion \/ unclear)
           tasted == \E i \in DOMAIN items : \E v \in items[i].parts.taste : v > 0
           shipped == IF awaiting THEN <<>> ELSE Shipped(items)
           count == IF awaiting THEN 0 ELSE results.match_count
           personal == tasted /\ ~ awaiting
           more == results.has_more
           of == results.candidate_count
           read == BuildInterpretation(spec)
           rejections == results.rejections
           others == Shipped([i \in DOMAIN nearest |-> AlternativeItem(nearest[i], rows, spec)])
<1>1. response = [items |-> shipped, match_count |-> count, candidate_count |-> of, has_more |-> more,
                  interpretation |-> read, excluded_by |-> rejections, alternatives |-> others,
                  seller_offers |-> offers, personalized |-> personal, follow_up |-> asked,
                  clarification |-> unclear, awaiting_answer |-> awaiting]
  BY DEF BuildSearchResponse
<1>2. awaiting => asked # NoQuestion \/ unclear
  OBVIOUS
<1>3. shipped = IF awaiting THEN <<>> ELSE Shipped(PageItems(results, rows, spec))
  BY DEF PageItems
<1>4. others = Shipped(Offered(nearest, rows, spec))
  BY DEF Offered
<1>5. count = IF awaiting THEN 0 ELSE results.match_count
  OBVIOUS
<1> HIDE DEF shipped, count, of, more, read, rejections, others, personal, asked, awaiting
<1>6. /\ response.items = shipped /\ response.match_count = count /\ response.excluded_by = rejections
      /\ response.alternatives = others /\ response.follow_up = asked
      /\ response.clarification = unclear /\ response.awaiting_answer = awaiting
  BY <1>1
<1> QED BY <1>2, <1>3, <1>4, <1>5, <1>6 DEF rejections

\* The page is the beginning of the ranking, unless it is held back.
LEMMA PageFacts ==
    ASSUME Served, Answered("search")
    PROVE  LET r == Ranked(answer.products, answer.spec, answer.taste)
               awaiting == answer.response.awaiting_answer
           IN  /\ Len(r) \in Nat
               /\ answer.response.match_count = IF awaiting THEN 0 ELSE Len(r)
               /\ awaiting => Items = <<>>
               /\ ~ awaiting => /\ IsSeq(Items) /\ DOMAIN Items = 1 .. Len(Items)
                                /\ Len(Items) = MinOf(Len(r), answer.spec.limit)
                                /\ Len(Items) \in Nat /\ Len(Items) <= Len(r)
               /\ \A i \in DOMAIN Items : /\ i \in 1 .. Len(r) /\ Items[i].product = r[i].product
                                          /\ Items[i].parts = r[i].parts /\ Items[i].score = r[i].score
<1> DEFINE products == answer.products
           spec == answer.spec
           taste == answer.taste
           r == Ranked(products, spec, taste)
           n == MinOf(Len(r), spec.limit)
           found == SearchProducts(products, spec, taste)
           items == [i \in DOMAIN found.items |-> SearchItem(found.items[i], CandidateRows, spec)]
           shown == {i \in DOMAIN items : items[i].shown # {}}
           awaiting == answer.response.awaiting_answer
<1>1. /\ Executable(products, spec, taste)
      /\ DOMAIN products = DOMAIN CandidateRows
      /\ shop \in Shops
      /\ \A i \in DOMAIN products : FromRow(products[i], CandidateRows[i])
      /\ \E offers : answer.response =
            BuildSearchResponse(CandidateRows, found, spec, request.draft.unclear,
                IF found.match_count = 0 THEN NearestAlternatives(products, spec.hard) ELSE <<>>, offers)
  BY SearchAnswer
<1>2. /\ answer.response.items = (IF awaiting THEN <<>> ELSE Shipped(items))
      /\ answer.response.match_count = (IF awaiting THEN 0 ELSE found.match_count)
  <2>1. PICK offers : answer.response =
            BuildSearchResponse(CandidateRows, found, spec, request.draft.unclear,
                IF found.match_count = 0 THEN NearestAlternatives(products, spec.hard) ELSE <<>>, offers)
    BY <1>1
  <2> DEFINE response == answer.response
             nearest == IF found.match_count = 0 THEN NearestAlternatives(products, spec.hard) ELSE <<>>
  <2> HIDE DEF response, nearest
  <2>2. response = BuildSearchResponse(CandidateRows, found, spec, request.draft.unclear, nearest, offers)
    BY <2>1 DEF response, nearest
  <2> HIDE DEF found, products, spec
  <2>3. /\ response.items = IF response.awaiting_answer THEN <<>>
                               ELSE Shipped(PageItems(found, CandidateRows, spec))
        /\ response.match_count = IF response.awaiting_answer THEN 0 ELSE found.match_count
    BY <2>2, ResponseFacts
  <2> QED BY <2>3 DEF response, PageItems
<1>3. /\ found.items = SubSeq(r, 1, n) /\ found.match_count = Len(r)
  <2>1. r = Ranked(products, spec, taste) /\ found = SearchProducts(products, spec, taste)
    OBVIOUS
  <2> HIDE DEF products, spec, taste, r, found
  <2> QED BY <1>1, <2>1, SearchIs
<1>4. /\ IsSeq(r) /\ Len(r) \in Nat
      /\ \A i \in 1 .. Len(r) : \E k \in Matching(products, spec.hard) : r[i] = Scored(products[k], spec, taste)
  <2> HIDE DEF products, spec, taste
  <2> QED BY <1>1, RankedFacts
<1>5. spec.limit \in Nat
  BY <1>1 DEF Executable
<1> HIDE DEF found, r, products, spec, taste, awaiting
<1> DEFINE t == found.items
<1>6. /\ Len(t) = n /\ n \in Nat /\ n <= Len(r) /\ DOMAIN t = 1 .. n
      /\ \A i \in 1 .. n : t[i] = r[i]
  <2> DEFINE u == SubSeq(r, 1, MinOf(Len(r), spec.limit))
  <2>1. /\ Len(u) = MinOf(Len(r), spec.limit) /\ Len(u) \in Nat /\ Len(u) <= Len(r)
        /\ DOMAIN u = 1 .. Len(u) /\ \A i \in 1 .. Len(u) : u[i] = r[i]
    BY <1>4, <1>5, FirstFew
  <2> HIDE DEF u
  <2>2. t = u
    BY <1>3 DEF u
  <2> QED BY <2>1, <2>2
<1> HIDE DEF n
<1>7. DOMAIN items = 1 .. n /\ \A i \in 1 .. n : items[i] = SearchItem(r[i], CandidateRows, spec)
  BY <1>6
<1>8. ASSUME NEW i \in 1 .. n
      PROVE  /\ items[i].product = r[i].product /\ items[i].parts = r[i].parts
             /\ items[i].score = r[i].score /\ items[i].shown # {}
  <2> DEFINE x == r[i]
             shippable == Shippable(CandidateRows, x.product.id)
             matched == CheckNames \ Missed(x.product, spec.hard)
             reasons == MatchReasons(x.product, spec.hard) \cup PreferenceReasons(x.product, spec.soft)
             rest == [shown |-> shippable, matched |-> matched, reasons |-> reasons]
             item == Joined(x, rest)
  <2>1. PICK k \in Matching(products, spec.hard) : x = Scored(products[k], spec, taste)
    BY <1>4, <1>6
  <2>2. k \in DOMAIN products
    BY DEF Matching
  <2>3. x.product = products[k] /\ DOMAIN x = {"product", "parts", "score"}
    BY <2>1, ScoredFacts
  <2>4. items[i] = item
    <3>1. SearchItem(r[i], CandidateRows, spec) = item
      BY DEF SearchItem
    <3> HIDE DEF items, item
    <3> QED BY <1>7, <3>1
  <2>5. IsRecommendationEligible(CandidateRows[k]) /\ x.product.id = CandidateRows[k].id
    <3>1. FromRow(products[k], CandidateRows[k])
      BY <1>1, <2>2
    <3> QED BY <1>1, <2>3, <3>1, FromRowFacts
  <2> DEFINE id == x.product.id
  <2>6. shippable # {}
    <3>1. k \in DOMAIN CandidateRows /\ id = CandidateRows[k].id
      BY <1>1, <2>2, <2>5
    <3> HIDE DEF id, x
    <3>2. Shippable(CandidateRows, id) # {}
      BY <2>5, <3>1, RowIsShown
    <3> QED BY <3>2 DEF id
  <2> HIDE DEF x, shippable, matched, reasons
  <2>7. DOMAIN rest = {"shown", "matched", "reasons"} /\ rest.shown = shippable
    OBVIOUS
  <2> HIDE DEF rest
  <2>8. /\ item.product = x.product /\ item.parts = x.parts /\ item.score = x.score
        /\ item.shown = rest.shown
    BY <2>3, <2>7 DEF Joined
  <2> HIDE DEF item, items
  <2> QED BY <2>4, <2>6, <2>7, <2>8 DEF x
<1> HIDE DEF t
<1>9. items = [i \in 1 .. n |-> items[i]]
  BY <1>7 DEF t
<1> HIDE DEF items
<1>10. IsSeq(items) /\ Len(items) = n
  <2> DEFINE S == Range(items)
  <2>1. items \in [1 .. n -> S]
    <3>1. \A i \in 1 .. n : items[i] \in S
      BY <1>7 DEF Range
    <3> HIDE DEF S
    <3> QED BY <1>9, <3>1
  <2> HIDE DEF S
  <2> QED BY <2>1, <1>6, FunIsSeq
<1>11. Shipped(items) = items
  <2>1. shown = DOMAIN items
    BY <1>7, <1>8
  <2>2. Shipped(items) = Taken(items, shown)
    BY DEF Shipped, Passing, Taken
  <2> QED BY <2>1, <2>2, <1>10, TakenAll
<1>12. answer.response.items = (IF awaiting THEN <<>> ELSE items)
  BY <1>2, <1>11
<1>13. awaiting => Items = <<>> /\ DOMAIN Items = {}
  <2>1. DOMAIN <<>> = {}
    OBVIOUS
  <2> QED BY <1>12, <2>1 DEF Items
<1>14. ~ awaiting => Items = items
  BY <1>12 DEF Items
<1>15. answer.response.match_count = IF awaiting THEN 0 ELSE Len(r)
  BY <1>2, <1>3
<1>16. ~ awaiting => /\ IsSeq(Items) /\ DOMAIN Items = 1 .. Len(Items) /\ Len(Items) = n
                     /\ Len(Items) \in Nat /\ Len(Items) <= Len(r)
  BY <1>6, <1>7, <1>10, <1>14
<1>17. \A i \in DOMAIN Items : /\ i \in 1 .. Len(r) /\ Items[i].product = r[i].product
                               /\ Items[i].parts = r[i].parts /\ Items[i].score = r[i].score
  <2> SUFFICES ASSUME NEW i \in DOMAIN Items
               PROVE  /\ i \in 1 .. Len(r) /\ Items[i].product = r[i].product
                      /\ Items[i].parts = r[i].parts /\ Items[i].score = r[i].score
    OBVIOUS
  <2>1. ~ awaiting /\ Items = items /\ i \in 1 .. n
    BY <1>7, <1>13, <1>14
  <2>2. i \in 1 .. Len(r)
    BY <2>1, <1>4, <1>6
  <2> QED BY <1>8, <2>1, <2>2
<1> QED BY <1>4, <1>13, <1>15, <1>16, <1>17 DEF r, n, products, spec, taste, awaiting

-----------------------------------------------------------------------------
(* The hard filters                                                        *)

LEMMA CheckFacts ==
    ASSUME NEW p, NEW hard, DOMAIN hard = DOMAIN NoHard
    PROVE  LET missed == Missed(p, hard)
               considered == IF hard.in_stock_only THEN InStock(p) ELSE p.colours
           IN  /\ CheckNames = {"category", "colours", "materials", "price", "width", "height", "depth", "in_stock"}
               /\ missed \subseteq CheckNames
               /\ "category" \notin missed <=> hard.category \subseteq {p.category}
               /\ "colours" \notin missed <=>
                      (hard.colours = {} \/ hard.colours \cap ColourSlugs(considered) # {})
               /\ "materials" \notin missed <=> hard.materials \subseteq p.materials
               /\ "price" \notin missed <=> Within({p.price}, hard.price)
               /\ "width" \notin missed <=> Within(p.width, hard.width)
               /\ "height" \notin missed <=> Within(p.height, hard.height)
               /\ "depth" \notin missed <=> Within(p.depth, hard.depth)
               /\ "in_stock" \notin missed <=> (hard.in_stock_only => InStock(p) # {})
<1> DEFINE considered == IF hard.in_stock_only THEN InStock(p) ELSE p.colours
           c1 == hard.category \subseteq {p.category}
           c2 == hard.colours = {} \/ hard.colours \cap ColourSlugs(considered) # {}
           c3 == hard.materials \subseteq p.materials
           c4 == Within({p.price}, hard.price)
           c5 == Within(p.width, hard.width)
           c6 == Within(p.height, hard.height)
           c7 == Within(p.depth, hard.depth)
           c8 == hard.in_stock_only => InStock(p) # {}
           checks == [category |-> c1, colours |-> c2, materials |-> c3, price |-> c4, width |-> c5,
                      height |-> c6, depth |-> c7, in_stock |-> c8]
           names == {"category", "colours", "materials", "price", "width", "height", "depth", "in_stock"}
<1>1. ConstraintChecks(p, hard) = checks
  BY DEF ConstraintChecks
<1>2. Missed(p, hard) = {n \in DOMAIN checks : ~ checks[n]}
  BY <1>1 DEF Missed
<1>3. CheckNames = names
  <2>1. DOMAIN NoHard = {"category", "colours", "materials", "price", "width", "height", "depth",
                         "in_stock_only"}
    BY DEF NoHard
  <2>2. \A x : x \in CheckNames <=> x \in names
    BY <2>1 DEF CheckNames
  <2> QED BY <2>2
<1> HIDE DEF c1, c2, c3, c4, c5, c6, c7, c8
<1>4. DOMAIN checks = names
  OBVIOUS
<1>5. /\ checks["category"] = c1 /\ checks["colours"] = c2 /\ checks["materials"] = c3
      /\ checks["price"] = c4 /\ checks["width"] = c5 /\ checks["height"] = c6
      /\ checks["depth"] = c7 /\ checks["in_stock"] = c8
  OBVIOUS
<1> HIDE DEF checks
<1>6. \A n : n \in Missed(p, hard) <=> n \in names /\ ~ checks[n]
  BY <1>2, <1>4
<1> DEFINE missed == Missed(p, hard)
<1> HIDE DEF missed
<1>7. /\ "category" \notin missed <=> checks["category"]
      /\ "colours" \notin missed <=> checks["colours"]
      /\ "materials" \notin missed <=> checks["materials"]
      /\ "price" \notin missed <=> checks["price"]
      /\ "width" \notin missed <=> checks["width"]
      /\ "height" \notin missed <=> checks["height"]
      /\ "depth" \notin missed <=> checks["depth"]
      /\ "in_stock" \notin missed <=> checks["in_stock"]
  <2>1. /\ "category" \in names /\ "colours" \in names /\ "materials" \in names /\ "price" \in names
        /\ "width" \in names /\ "height" \in names /\ "depth" \in names /\ "in_stock" \in names
    OBVIOUS
  <2> HIDE DEF names
  <2> QED BY <1>6, <2>1 DEF missed
<1>8. missed \subseteq CheckNames
  BY <1>3, <1>6 DEF missed
<1>9. /\ "category" \notin missed <=> c1
      /\ "colours" \notin missed <=> c2
      /\ "materials" \notin missed <=> c3
      /\ "price" \notin missed <=> c4
      /\ "width" \notin missed <=> c5
      /\ "height" \notin missed <=> c6
      /\ "depth" \notin missed <=> c7
      /\ "in_stock" \notin missed <=> c8
  BY <1>5, <1>7
<1> QED BY <1>3, <1>8, <1>9 DEF missed, c1, c2, c3, c4, c5, c6, c7, c8

\* Every item of the page is a product that was searched, and no constraint excludes it.
LEMMA PageMatches ==
    ASSUME Served, Answered("search"), NEW i \in DOMAIN Items
    PROVE  \E k \in DOMAIN answer.products : /\ Items[i].product = answer.products[k]
                                             /\ Matches(answer.products[k], answer.spec.hard)
<1> DEFINE products == answer.products
           spec == answer.spec
           r == Ranked(products, spec, answer.taste)
<1>1. Executable(products, spec, answer.taste)
  BY SearchAnswer
<1>2. i \in 1 .. Len(r) /\ Items[i].product = r[i].product
  BY PageFacts
<1>3. \A j \in 1 .. Len(r) : \E k \in Matching(products, spec.hard) : r[j] = Scored(products[k], spec, answer.taste)
  <2> HIDE DEF products, spec
  <2> QED BY <1>1, RankedFacts
<1> HIDE DEF r
<1>4. PICK k \in Matching(products, spec.hard) : r[i] = Scored(products[k], spec, answer.taste)
  BY <1>2, <1>3
<1>5. r[i].product = products[k]
  BY <1>4, ScoredFacts
<1>6. k \in DOMAIN products /\ Matches(products[k], spec.hard)
  BY DEF Matching
<1> QED BY <1>2, <1>5, <1>6

\* What was asked of the database is answered as it was asked.
LEMMA StatedLimitsHeld == Served => StatedLimitsHold
<1> DEFINE row(id) == CHOOSE r \in shop.rows : r.id = id
           obeys(value, range) == \A r \in range : /\ \A a \in r.minimum : a <= value
                                                   /\ \A b \in r.maximum : value <= b
           draft == request.draft
<1> SUFFICES ASSUME Served, Answered("search"), NEW i \in DOMAIN Items
             PROVE  LET r == row(Items[i].product.id)
                    IN  /\ obeys(EffectivePrice(r), draft.price)
                        /\ \A d \in Dimensions : draft[d] # {} =>
                                r[d] # {} /\ \A v \in r[d] : obeys(v, draft[d])
                        /\ draft.in_stock_only => \E c \in r.colours : c.stock > 0
  BY DEF StatedLimitsHold
<1>1. PICK k \in DOMAIN answer.products : /\ Items[i].product = answer.products[k]
                                          /\ Matches(answer.products[k], answer.spec.hard)
  BY PageMatches
<1> DEFINE p == answer.products[k]
           hard == answer.spec.hard
<1>2. /\ shop \in Shops /\ FromRow(p, CandidateRows[k])
      /\ \A n \in Limits : hard[n] = draft[n]
      /\ DOMAIN hard = DOMAIN NoHard
  BY <1>1, SearchAnswer
<1>3. PICK q \in shop.rows : /\ p.id = q.id /\ p.price = EffectivePrice(q)
                             /\ \A d \in Dimensions : p[d] = q[d]
                             /\ \A c \in p.colours : \E d \in q.colours : d.stock > 0 /\ c.stock = d.stock
                             /\ \A c \in p.colours : c.stock > 0
                             /\ p.colours # {}
  BY <1>2, FromRowFacts
<1>4. row(p.id) = q
  BY <1>2, <1>3, ShopAssumption
<1>5. Within({p.price}, draft.price) /\ \A d \in Dimensions : Within(p[d], draft[d])
  <2>1. Missed(p, hard) = {}
    BY <1>1 DEF Matches
  <2>2. hard.price = draft.price /\ \A d \in Dimensions : hard[d] = draft[d]
    BY <1>2 DEF Limits, Dimensions
  <2> HIDE DEF p, hard, draft
  <2>3. /\ Within({p.price}, hard.price) /\ Within(p.width, hard.width)
        /\ Within(p.height, hard.height) /\ Within(p.depth, hard.depth)
    BY <1>2, <2>1, CheckFacts
  <2> QED BY <2>2, <2>3 DEF Dimensions
<1>6. obeys(EffectivePrice(q), draft.price)
  BY <1>3, <1>5 DEF Within
<1>7. ASSUME NEW d \in Dimensions, draft[d] # {}
      PROVE  q[d] # {} /\ \A v \in q[d] : obeys(v, draft[d])
  <2>1. PICK r \in draft[d] : TRUE
    BY <1>7
  <2>2. q[d] # {}
    BY <1>3, <1>5, <2>1 DEF Within
  <2>3. \A v, w \in q[d] : v = w
    BY <1>2, ShopAssumption
  <2>4. \A v \in q[d] : obeys(v, draft[d])
    BY <1>3, <1>5, <2>3 DEF Within
  <2> QED BY <2>2, <2>4
<1>8. \E c \in q.colours : c.stock > 0
  BY <1>3
<1> HIDE DEF row, obeys, draft
<1>9. Items[i].product.id = p.id
  BY <1>1
<1> HIDE DEF p
<1> QED BY <1>4, <1>6, <1>7, <1>8, <1>9

\* The rest of the answer to a search.
Explained(response, products, spec) ==
    /\ response.excluded_by = Rejections(products, spec.hard)
    /\ response.awaiting_answer => response.follow_up # NoQuestion \/ response.clarification
    /\ \E nearest : /\ nearest = <<>> \/ nearest = NearestAlternatives(products, spec.hard)
                    /\ response.alternatives = Shipped(Offered(nearest, CandidateRows, spec))

LEMMA ReplyFacts ==
    ASSUME Served, Answered("search")
    PROVE  Explained(answer.response, answer.products, answer.spec)
<1> DEFINE products == answer.products
           spec == answer.spec
           taste == answer.taste
           r == Ranked(products, spec, taste)
           found == SearchProducts(products, spec, taste)
           response == answer.response
           nearest == IF found.match_count = 0 THEN NearestAlternatives(products, spec.hard) ELSE <<>>
<1>1. Executable(products, spec, taste)
  BY SearchAnswer
<1>2. PICK offers : response = BuildSearchResponse(CandidateRows, found, spec, request.draft.unclear, nearest, offers)
  BY SearchAnswer
<1>3. nearest = <<>> \/ nearest = NearestAlternatives(products, spec.hard)
  OBVIOUS
<1>4. r = Ranked(products, spec, taste) /\ found = SearchProducts(products, spec, taste)
  OBVIOUS
<1> HIDE DEF response, nearest, found, products, spec, r
<1>5. /\ response.excluded_by = found.rejections
      /\ response.awaiting_answer => response.follow_up # NoQuestion \/ response.clarification
      /\ response.alternatives = Shipped(Offered(nearest, CandidateRows, spec))
  BY <1>2, ResponseFacts
<1>6. found.rejections = Rejections(products, spec.hard)
  BY <1>1, <1>4, SearchIs
<1>7. Explained(response, products, spec)
  BY <1>3, <1>5, <1>6 DEF Explained
<1> QED BY <1>7 DEF response, products, spec

\* What excludes some product is counted.
LEMMA RejectionFacts ==
    ASSUME NEW products, IsSeq(products), NEW hard, DOMAIN hard = DOMAIN NoHard,
           NEW k \in DOMAIN products, ~ Matches(products[k], hard)
    PROVE  DOMAIN Rejections(products, hard) # {}
<1> DEFINE rejected(n) == Cardinality({i \in DOMAIN products : n \in Missed(products[i], hard)})
<1>1. DOMAIN Rejections(products, hard) = {m \in CheckNames : rejected(m) > 0}
  BY DEF Rejections
<1>2. PICK n : n \in Missed(products[k], hard)
  BY DEF Matches
<1>3. n \in CheckNames
  BY <1>2, CheckFacts
<1>4. rejected(n) > 0
  <2> DEFINE K == {i \in DOMAIN products : n \in Missed(products[i], hard)}
  <2>1. K \subseteq DOMAIN products /\ k \in K
    BY <1>2
  <2> HIDE DEF K
  <2>2. IsFiniteSet(K)
    BY <2>1, TakenOf
  <2>3. Cardinality(K) \in Nat /\ Cardinality(K) # 0
    BY <2>1, <2>2, FS_CardinalityType, FS_EmptySet
  <2>4. Cardinality(K) > 0
    BY <2>3
  <2> QED BY <2>4 DEF K
<1> HIDE DEF rejected
<1> QED BY <1>1, <1>3, <1>4

\* An empty page comes with a question, or with what excluded the products.
LEMMA EmptyPagesExplained == Served => EmptyPageExplained
<1> SUFFICES ASSUME Served, Answered("search"), Items = <<>>, ~ answer.response.awaiting_answer,
                    answer.products # <<>>
             PROVE  DOMAIN answer.response.excluded_by # {}
  <2>1. Served /\ Answered("search") /\ answer.response.awaiting_answer =>
            answer.response.follow_up # NoQuestion \/ answer.response.clarification
    BY ReplyFacts DEF Explained
  <2> QED BY <2>1 DEF EmptyPageExplained
<1> DEFINE products == answer.products
           hard == answer.spec.hard
           r == Ranked(products, answer.spec, answer.taste)
<1>1. /\ Executable(products, answer.spec, answer.taste) /\ DOMAIN hard = DOMAIN NoHard
      /\ answer.spec.limit # 0
  BY SearchAnswer
<1>2. answer.spec.limit \in Nat /\ IsSeq(products)
  BY <1>1 DEF Executable
<1>3. Len(r) \in Nat /\ Len(Items) = MinOf(Len(r), answer.spec.limit)
  BY PageFacts
<1>4. Len(Items) = 0
  BY EmptySeqFacts
<1>5. Len(r) = 0
  <2> HIDE DEF r
  <2> QED BY <1>1, <1>2, <1>3, <1>4 DEF MinOf
<1>6. Matching(products, hard) = {}
  <2> DEFINE spec == answer.spec
             K == Matching(products, spec.hard)
  <2> HIDE DEF products, spec
  <2>1. Len(r) = Cardinality(K)
    BY <1>1, RankedFacts DEF spec
  <2>2. K \subseteq DOMAIN products
    BY DEF Matching
  <2> HIDE DEF K, r
  <2>3. IsFiniteSet(K)
    BY <1>2, <2>2, TakenOf
  <2>4. K = {}
    BY <1>5, <2>1, <2>3, FS_EmptySet
  <2> QED BY <2>4 DEF K, spec
<1>7. PICK k : k \in DOMAIN products
  <2>1. Len(products) \in Nat /\ DOMAIN products = 1 .. Len(products)
    BY <1>2, LenProperties DEF IsSeq
  <2>2. Len(products) # 0
    <3> HIDE DEF products
    <3>1. products \in Seq(Range(products))
      BY <1>2 DEF IsSeq
    <3>2. products # <<>>
      BY DEF products
    <3> QED BY <3>1, <3>2, EmptySeq
  <2>3. 1 \in DOMAIN products
    <3> HIDE DEF products
    <3> QED BY <2>1, <2>2
  <2> QED BY <2>3
<1>8. ~ Matches(products[k], hard)
  BY <1>6, <1>7 DEF Matching
<1> HIDE DEF products, hard
<1>9. DOMAIN Rejections(products, hard) # {}
  BY <1>1, <1>2, <1>7, <1>8, RejectionFacts
<1>10. answer.response.excluded_by = Rejections(products, hard)
  BY ReplyFacts DEF Explained, products, hard
<1> QED BY <1>9, <1>10

-----------------------------------------------------------------------------
(* The nearest alternatives                                                *)

\* The codes of the reasons are the constraints that are missed.
LEMMA ShortfallCodes ==
    ASSUME NEW p, NEW hard
    PROVE  {r.code : r \in ShortfallReasons(p, hard)} = Missed(p, hard)
<1> DEFINE excess(n) == IF n = "price" THEN Excess({p.price}, hard.price)
                        ELSE IF n \in Dimensions THEN Excess(p[n], hard[n]) ELSE {}
           said(n) == IF excess(n) # {} THEN excess(n)
                      ELSE IF n \in Dimensions /\ p[n] = {} THEN {"not recorded"}
                      ELSE {"does not match"}
           of(n) == {Reason(n, f, "catalogue") : f \in said(n)}
           missed == Missed(p, hard)
<1>1. ShortfallReasons(p, hard) = UNION {of(n) : n \in missed}
  BY DEF ShortfallReasons
<1>2. \A n : said(n) # {}
  <2> HIDE DEF excess
  <2> QED OBVIOUS
<1>3. \A n, f : Reason(n, f, "catalogue").code = n
  BY DEF Reason
<1> HIDE DEF said, missed
<1>4. \A n : of(n) # {} /\ \A r \in of(n) : r.code = n
  BY <1>2, <1>3
<1> HIDE DEF of
<1>5. \A c : c \in {r.code : r \in UNION {of(n) : n \in missed}} <=> c \in missed
  <2> TAKE c
  <2>1. ASSUME c \in missed PROVE c \in {r.code : r \in UNION {of(n) : n \in missed}}
    <3>1. PICK r : r \in of(c)
      BY <1>4
    <3>2. r \in UNION {of(n) : n \in missed} /\ r.code = c
      BY <2>1, <3>1, <1>4
    <3> QED BY <3>2
  <2>2. ASSUME c \in {r.code : r \in UNION {of(n) : n \in missed}} PROVE c \in missed
    <3>1. PICK r \in UNION {of(n) : n \in missed} : c = r.code
      BY <2>2
    <3>2. PICK n \in missed : r \in of(n)
      BY <3>1
    <3> QED BY <1>4, <3>1, <3>2
  <2> QED BY <2>1, <2>2
<1> QED BY <1>1, <1>5 DEF missed

\* Without the constraints a near miss misses, it matches.
LEMMA RelaxedMatches ==
    ASSUME NEW p, NEW hard, DOMAIN hard = DOMAIN NoHard, Missed(p, hard) \cap NEVER_RELAXED = {},
           NEW relaxed,
           relaxed = [n \in DOMAIN NoHard |-> IF n \in Missed(p, hard) THEN NoHard[n] ELSE hard[n]]
    PROVE  Matches(p, relaxed)
<1> DEFINE missed == Missed(p, hard)
<1>1. DOMAIN NoHard = {"category", "colours", "materials", "price", "width", "height", "depth",
                       "in_stock_only"}
  BY DEF NoHard
<1>2. /\ NoHard["colours"] = {} /\ NoHard["materials"] = {} /\ NoHard["price"] = {}
      /\ NoHard["width"] = {} /\ NoHard["height"] = {} /\ NoHard["depth"] = {}
  BY DEF NoHard
<1>3. "in_stock" \notin missed /\ "category" \notin missed
  BY DEF NEVER_RELAXED
<1>4. "in_stock_only" \notin missed
  <2>1. missed \subseteq {"category", "colours", "materials", "price", "width", "height", "depth", "in_stock"}
    BY CheckFacts
  <2> HIDE DEF missed
  <2> QED BY <2>1
<1> HIDE DEF missed
<1>5. DOMAIN relaxed = DOMAIN NoHard
      /\ \A n \in DOMAIN NoHard : relaxed[n] = IF n \in missed THEN NoHard[n] ELSE hard[n]
  BY DEF missed
<1>6. /\ relaxed.in_stock_only = hard.in_stock_only /\ relaxed.category = hard.category
      /\ relaxed.colours = IF "colours" \in missed THEN {} ELSE hard.colours
      /\ relaxed.materials = IF "materials" \in missed THEN {} ELSE hard.materials
      /\ relaxed.price = IF "price" \in missed THEN {} ELSE hard.price
      /\ relaxed.width = IF "width" \in missed THEN {} ELSE hard.width
      /\ relaxed.height = IF "height" \in missed THEN {} ELSE hard.height
      /\ relaxed.depth = IF "depth" \in missed THEN {} ELSE hard.depth
  BY <1>1, <1>2, <1>3, <1>4, <1>5
<1> DEFINE considered == IF hard.in_stock_only THEN InStock(p) ELSE p.colours
           offered == ColourSlugs(considered)
           stocked == InStock(p) # {}
<1>7. /\ hard.category \subseteq {p.category}
      /\ "colours" \in missed \/ hard.colours = {} \/ hard.colours \cap offered # {}
      /\ "materials" \in missed \/ hard.materials \subseteq p.materials
      /\ "price" \in missed \/ Within({p.price}, hard.price)
      /\ "width" \in missed \/ Within(p.width, hard.width)
      /\ "height" \in missed \/ Within(p.height, hard.height)
      /\ "depth" \in missed \/ Within(p.depth, hard.depth)
      /\ hard.in_stock_only => stocked
  BY <1>3, CheckFacts DEF missed
<1>8. \A v : Within(v, {})
  BY DEF Within
<1> DEFINE left == Missed(p, relaxed)
<1>9. /\ left \subseteq {"category", "colours", "materials", "price", "width", "height", "depth", "in_stock"}
      /\ "category" \notin left <=> relaxed.category \subseteq {p.category}
      /\ "colours" \notin left <=> (relaxed.colours = {} \/ relaxed.colours \cap offered # {})
      /\ "materials" \notin left <=> relaxed.materials \subseteq p.materials
      /\ "price" \notin left <=> Within({p.price}, relaxed.price)
      /\ "width" \notin left <=> Within(p.width, relaxed.width)
      /\ "height" \notin left <=> Within(p.height, relaxed.height)
      /\ "depth" \notin left <=> Within(p.depth, relaxed.depth)
      /\ "in_stock" \notin left <=> (relaxed.in_stock_only => stocked)
  <2>1. considered = IF relaxed.in_stock_only THEN InStock(p) ELSE p.colours
    BY <1>6
  <2> HIDE DEF considered
  <2> QED BY <1>5, <2>1, CheckFacts
<1> HIDE DEF considered, offered, stocked, left
<1>10. /\ "category" \notin left /\ "colours" \notin left /\ "materials" \notin left /\ "price" \notin left
       /\ "width" \notin left /\ "height" \notin left /\ "depth" \notin left /\ "in_stock" \notin left
  BY <1>6, <1>7, <1>8, <1>9
<1>11. left = {}
  BY <1>9, <1>10
<1> QED BY <1>11 DEF Matches, left

\* The order of the alternatives, as a set of pairs.
MissCount(p, hard) == Cardinality(Missed(p, hard))
Nearer(hard, S) ==
    {q \in S \X S : \/ MissCount(q[1], hard) < MissCount(q[2], hard)
                    \/ MissCount(q[1], hard) = MissCount(q[2], hard) /\ q[1].price < q[2].price
                    \/ /\ MissCount(q[1], hard) = MissCount(q[2], hard) /\ q[1].price = q[2].price
                       /\ q[1].id < q[2].id}

LEMMA MissCountNat == ASSUME NEW p, NEW hard, DOMAIN hard = DOMAIN NoHard PROVE MissCount(p, hard) \in Nat
<1> DEFINE names == {"category", "colours", "materials", "price", "width", "height", "depth", "in_stock"}
<1>1. Missed(p, hard) \subseteq names
  BY CheckFacts
<1>2. IsFiniteSet(names)
  <2>1. IsFiniteSet({"category", "colours"} \cup {"materials", "price"})
    BY FinitePair, FS_Union
  <2>2. IsFiniteSet({"width", "height"} \cup {"depth", "in_stock"})
    BY FinitePair, FS_Union
  <2>3. IsFiniteSet(({"category", "colours"} \cup {"materials", "price"}) \cup ({"width", "height"} \cup {"depth", "in_stock"}))
    BY <2>1, <2>2, FS_Union
  <2>4. names = ({"category", "colours"} \cup {"materials", "price"}) \cup ({"width", "height"} \cup {"depth", "in_stock"})
    OBVIOUS
  <2> QED BY <2>3, <2>4
<1> HIDE DEF names
<1> QED BY <1>1, <1>2, FS_Subset, FS_CardinalityType DEF MissCount

LEMMA NearerSorts ==
    ASSUME NEW hard, DOMAIN hard = DOMAIN NoHard, NEW S, \A p \in S : p.price \in Int /\ p.id \in Int
    PROVE  Sorts(Nearer(hard, S), S)
<1> DEFINE before(p, q) == \/ MissCount(p, hard) < MissCount(q, hard)
                           \/ MissCount(p, hard) = MissCount(q, hard) /\ p.price < q.price
                           \/ /\ MissCount(p, hard) = MissCount(q, hard) /\ p.price = q.price
                              /\ p.id < q.id
<1>1. ASSUME NEW x \in S, NEW y \in S PROVE <<x, y>> \in Nearer(hard, S) <=> before(x, y)
  BY DEF Nearer
<1>2. ASSUME NEW x \in S PROVE ~ before(x, x)
  <2>1. MissCount(x, hard) \in Nat /\ x.price \in Int /\ x.id \in Int
    BY MissCountNat
  <2> QED BY <2>1
<1>3. ASSUME NEW x \in S, NEW y \in S, NEW z \in S
      PROVE  /\ before(x, z) => before(x, y) \/ before(y, z)
             /\ before(x, y) /\ before(y, z) => before(x, z)
  <2> DEFINE a1 == MissCount(x, hard)
             a2 == x.price
             a3 == x.id
             b1 == MissCount(y, hard)
             b2 == y.price
             b3 == y.id
             c1 == MissCount(z, hard)
             c2 == z.price
             c3 == z.id
  <2>1. /\ a1 \in Nat /\ a2 \in Int /\ a3 \in Int /\ b1 \in Nat /\ b2 \in Int /\ b3 \in Int
        /\ c1 \in Nat /\ c2 \in Int /\ c3 \in Int
    BY MissCountNat
  <2>2. /\ before(x, y) <=> (a1 < b1 \/ (a1 = b1 /\ a2 < b2) \/ (a1 = b1 /\ a2 = b2 /\ a3 < b3))
        /\ before(y, z) <=> (b1 < c1 \/ (b1 = c1 /\ b2 < c2) \/ (b1 = c1 /\ b2 = c2 /\ b3 < c3))
        /\ before(x, z) <=> (a1 < c1 \/ (a1 = c1 /\ a2 < c2) \/ (a1 = c1 /\ a2 = c2 /\ a3 < c3))
    OBVIOUS
  <2> HIDE DEF a1, a2, a3, b1, b2, b3, c1, c2, c3, before
  <2> QED BY <2>1, <2>2
<1> HIDE DEF before
<1> QED BY <1>1, <1>2, <1>3 DEF Sorts

\* The places of the near misses.
NearPlaces(products, hard) == {k \in DOMAIN products : NearMiss(products[k], hard)}

\* The alternatives are the first of the near misses, arranged.
LEMMA NearestArranged ==
    ASSUME NEW products, IsSeq(products), \A i \in DOMAIN products : Scorable(products[i]),
           NEW hard, DOMAIN hard = DOMAIN NoHard
    PROVE  LET K == NearPlaces(products, hard)
               s == Taken(products, K)
               R == Nearer(hard, Range(s))
               t == Arranged(s, R)
           IN  /\ NearestAlternatives(products, hard) = SubSeq(t, 1, MinOf(Len(t), MAX_ALTERNATIVES))
               /\ IsSeq(s) /\ Len(s) \in Nat /\ DOMAIN s = 1 .. Len(s)
               /\ \A i \in DOMAIN s : \E k \in K : s[i] = products[k]
               /\ Sorts(R, Range(s))
<1> DEFINE K == {k \in DOMAIN products : NearMiss(products[k], hard)}
           s == Taken(products, K)
           D == DOMAIN s
           R == Nearer(hard, Range(s))
           F == First(s, R)
           n == Cardinality(D)
           nearer(p, q) == \/ MissCount(p, hard) < MissCount(q, hard)
                           \/ MissCount(p, hard) = MissCount(q, hard) /\ p.price < q.price
                           \/ MissCount(p, hard) = MissCount(q, hard) /\ p.price = q.price /\ p.id < q.id
           before(i, j) == nearer(s[i], s[j]) \/ (~ nearer(s[j], s[i]) /\ i < j)
           at(k) == CHOOSE x \in D : Cardinality({y \in D : before(y, x)}) = k - 1
           order == [k \in 1 .. n |-> at(k)]
           t == [k \in DOMAIN order |-> s[order[k]]]
           nearest == NearestAlternatives(products, hard)
<1>1. nearest = SubSeq(t, 1, MinOf(Len(t), MAX_ALTERNATIVES))
  BY DEF NearestAlternatives, Sorted, Passing, InOrder, Taken, MissCount
<1>2. /\ IsSeq(s) /\ Len(s) \in Nat /\ D = 1 .. Len(s)
      /\ \E h \in [1 .. Len(s) -> K] : \A i \in 1 .. Len(s) : s[i] = products[h[i]]
  <2>1. K \subseteq DOMAIN products
    OBVIOUS
  <2> HIDE DEF K
  <2> QED BY <2>1, TakenOf
<1>3. \A i \in D : \E k \in K : s[i] = products[k]
  <2>1. PICK h \in [1 .. Len(s) -> K] : \A i \in 1 .. Len(s) : s[i] = products[h[i]]
    BY <1>2
  <2> HIDE DEF s, K
  <2> QED BY <1>2, <2>1
<1>4. \A x \in Range(s) : x.price \in Int /\ x.id \in Int
  <2> SUFFICES ASSUME NEW i \in D PROVE s[i].price \in Int /\ s[i].id \in Int
    <3> HIDE DEF s
    <3> QED BY DEF Range
  <2>1. PICK k \in K : s[i] = products[k]
    BY <1>3
  <2>2. Scorable(products[k])
    OBVIOUS
  <2> HIDE DEF s, K
  <2> QED BY <2>1, <2>2 DEF Scorable
<1> HIDE DEF s, K, nearest
<1>5. Sorts(R, Range(s))
  BY <1>4, NearerSorts
<1>6. ASSUME NEW x \in D, NEW y \in D PROVE <<y, x>> \in F <=> before(y, x)
  <2>1. s[x] \in Range(s) /\ s[y] \in Range(s)
    BY DEF Range
  <2>2. /\ <<s[y], s[x]>> \in R <=> nearer(s[y], s[x])
        /\ <<s[x], s[y]>> \in R <=> nearer(s[x], s[y])
    BY <2>1 DEF Nearer
  <2> HIDE DEF R, nearer
  <2>3. <<y, x>> \in F <=> (<<s[y], s[x]>> \in R \/ (<<s[x], s[y]>> \notin R /\ y < x))
    BY DEF First
  <2> QED BY <2>2, <2>3
<1> HIDE DEF before, F
<1>7. ASSUME NEW x \in D PROVE RankIn(F, D, x) = Cardinality({y \in D : before(y, x)})
  <2>1. {y \in D : <<y, x>> \in F} = {y \in D : before(y, x)}
    BY <1>6
  <2> QED BY <2>1 DEF RankIn
<1>8. ASSUME NEW k PROVE at(k) = CHOOSE x \in D : RankIn(F, D, x) = k - 1
  <2> HIDE DEF D
  <2> QED BY <1>7
<1>9. Places(s, R) = order
  <2>1. Places(s, R) = [k \in 1 .. n |-> CHOOSE x \in D : RankIn(F, D, x) = k - 1]
    BY DEF Places, F
  <2> HIDE DEF at, D, n, R
  <2> QED BY <1>8, <2>1
<1>10. t = Arranged(s, R)
  <2>1. DOMAIN order = 1 .. n
    OBVIOUS
  <2>2. Arranged(s, R) = [k \in 1 .. n |-> s[Places(s, R)[k]]]
    BY DEF Arranged
  <2> HIDE DEF order, n, R
  <2> QED BY <1>9, <2>1, <2>2
<1> DEFINE K2 == NearPlaces(products, hard)
           s2 == Taken(products, K2)
           R2 == Nearer(hard, Range(s2))
<1>11. K2 = K
  BY DEF NearPlaces, K
<1>12. s2 = s
  BY <1>11 DEF s
<1> HIDE DEF K2, s2, order
<1>13. R2 = R
  BY <1>12
<1> HIDE DEF R, R2
<1>14. nearest = SubSeq(Arranged(s2, R2), 1, MinOf(Len(Arranged(s2, R2)), MAX_ALTERNATIVES))
  BY <1>1, <1>10, <1>12, <1>13
<1>15. /\ IsSeq(s2) /\ Len(s2) \in Nat /\ DOMAIN s2 = 1 .. Len(s2)
       /\ \A i \in DOMAIN s2 : \E k \in K2 : s2[i] = products[k]
  BY <1>2, <1>3, <1>11, <1>12
<1>16. Sorts(R2, Range(s2))
  BY <1>5, <1>12, <1>13
<1> QED BY <1>14, <1>15, <1>16 DEF nearest, K2, s2, R2

\* Every alternative is a product that was searched, and a near miss.
LEMMA NearestFacts ==
    ASSUME NEW products, IsSeq(products), \A i \in DOMAIN products : Scorable(products[i]),
           NEW hard, DOMAIN hard = DOMAIN NoHard
    PROVE  LET nearest == NearestAlternatives(products, hard)
           IN  /\ IsSeq(nearest)
               /\ \A i \in DOMAIN nearest : \E k \in DOMAIN products :
                      nearest[i] = products[k] /\ NearMiss(products[k], hard)
<1> DEFINE K == NearPlaces(products, hard)
           s == Taken(products, K)
           D == DOMAIN s
           R == Nearer(hard, Range(s))
           t == Arranged(s, R)
           nearest == NearestAlternatives(products, hard)
<1>1. /\ nearest = SubSeq(t, 1, MinOf(Len(t), MAX_ALTERNATIVES))
      /\ IsSeq(s) /\ Len(s) \in Nat /\ D = 1 .. Len(s)
      /\ \A i \in D : \E k \in K : s[i] = products[k]
      /\ Sorts(R, Range(s))
  BY NearestArranged
<1> HIDE DEF K, s, R, nearest
<1>2. /\ IsSeq(t) /\ DOMAIN t = 1 .. Len(t)
       /\ \A i \in 1 .. Len(t) : \E j \in D : t[i] = s[j]
  <2> DEFINE h == Places(s, R)
  <2>1. /\ IsSeq(t) /\ DOMAIN t = 1 .. Len(t)
        /\ \A i \in 1 .. Len(t) : h[i] \in D /\ t[i] = s[h[i]]
    BY <1>1, ArrangedFacts
  <2> HIDE DEF t, h, D
  <2> QED BY <2>1
<1> HIDE DEF t, D
<1>3. /\ IsSeq(nearest) /\ DOMAIN nearest = 1 .. Len(nearest) /\ Len(nearest) \in Nat
       /\ Len(nearest) <= Len(t) /\ Len(t) \in Nat
       /\ \A i \in 1 .. Len(nearest) : nearest[i] = t[i]
  <2>1. MAX_ALTERNATIVES \in Nat
    BY DEF MAX_ALTERNATIVES
  <2> QED BY <1>1, <1>2, <2>1, FirstFew
<1>4. ASSUME NEW i \in DOMAIN nearest
       PROVE  \E k \in DOMAIN products : nearest[i] = products[k] /\ NearMiss(products[k], hard)
  <2>1. i \in 1 .. Len(t) /\ nearest[i] = t[i]
    BY <1>3
  <2>2. PICK j \in D : t[i] = s[j]
    BY <1>2, <2>1
  <2>3. PICK k \in K : s[j] = products[k]
    BY <1>1
  <2> QED BY <2>1, <2>2, <2>3 DEF K, NearPlaces
<1> QED BY <1>3, <1>4 DEF nearest

\* What is shipped was there.
LEMMA ShippedFacts ==
    ASSUME NEW s, IsSeq(s)
    PROVE  \A i \in DOMAIN Shipped(s) : \E j \in DOMAIN s : Shipped(s)[i] = s[j]
<1> DEFINE K == {i \in DOMAIN s : s[i].shown # {}}
<1>1. Shipped(s) = Taken(s, K)
  BY DEF Shipped, Passing, Taken
<1>2. K \subseteq DOMAIN s
  OBVIOUS
<1> HIDE DEF K
<1> DEFINE t == Taken(s, K)
<1>3. DOMAIN t = 1 .. Len(t) /\ \E h \in [1 .. Len(t) -> K] : \A i \in 1 .. Len(t) : t[i] = s[h[i]]
  BY <1>2, TakenOf
<1> HIDE DEF t
<1>4. PICK h \in [1 .. Len(t) -> K] : \A i \in 1 .. Len(t) : t[i] = s[h[i]]
  BY <1>3
<1>5. \A i \in DOMAIN t : h[i] \in DOMAIN s /\ t[i] = s[h[i]]
  BY <1>2, <1>3, <1>4
<1>6. Shipped(s) = t
  BY <1>1 DEF t
<1> QED BY <1>5, <1>6

LEMMA ShortfallsHold == Served => ShortfallsAreTheWayBack
<1> SUFFICES ASSUME Served, Answered("search"), NEW i \in DOMAIN answer.response.alternatives
             PROVE  LET offered == answer.response.alternatives[i]
                        named   == {r.code : r \in offered.missed}
                        relaxed == [n \in DOMAIN NoHard |-> IF n \in named THEN NoHard[n]
                                                            ELSE answer.spec.hard[n]]
                    IN  named # {} /\ Matches(offered.product, relaxed)
  BY DEF ShortfallsAreTheWayBack
<1> DEFINE products == answer.products
           spec == answer.spec
           hard == spec.hard
           offered == answer.response.alternatives[i]
           named == {r.code : r \in offered.missed}
           relaxed == [n \in DOMAIN NoHard |-> IF n \in named THEN NoHard[n] ELSE hard[n]]
<1>1. PICK nearest : /\ nearest = <<>> \/ nearest = NearestAlternatives(products, hard)
                     /\ answer.response.alternatives = Shipped(Offered(nearest, CandidateRows, spec))
  BY ReplyFacts DEF Explained
<1>2. Executable(products, spec, answer.taste) /\ DOMAIN hard = DOMAIN NoHard
  BY SearchAnswer
<1> HIDE DEF products, spec
<1>3. /\ IsSeq(nearest)
      /\ \A j \in DOMAIN nearest : \E k \in DOMAIN products :
             nearest[j] = products[k] /\ NearMiss(products[k], hard)
  <2>1. CASE nearest = <<>>
    BY <2>1, EmptySeqFacts
  <2>2. CASE nearest = NearestAlternatives(products, hard)
    BY <1>2, <2>2, NearestFacts DEF Executable
  <2> QED BY <1>1, <2>1, <2>2
<1> DEFINE s == Offered(nearest, CandidateRows, spec)
<1>4. s = [j \in DOMAIN nearest |-> AlternativeItem(nearest[j], CandidateRows, spec)]
  BY DEF Offered
<1> HIDE DEF s
<1>5. IsSeq(s)
  <2> DEFINE S == Range(s)
             n == Len(nearest)
  <2>1. n \in Nat /\ DOMAIN nearest = 1 .. n
    BY <1>3, LenProperties DEF IsSeq
  <2> HIDE DEF n
  <2>2. s \in [1 .. n -> S]
    <3>1. DOMAIN s = 1 .. n /\ s = [j \in 1 .. n |-> s[j]]
      BY <1>4, <2>1
    <3>2. \A j \in 1 .. n : s[j] \in S
      BY <3>1 DEF Range
    <3> HIDE DEF S
    <3> QED BY <3>1, <3>2
  <2> HIDE DEF S
  <2> QED BY <2>1, <2>2, FunIsSeq
<1>6. PICK j \in DOMAIN s : answer.response.alternatives[i] = s[j]
  BY <1>1, <1>5, ShippedFacts DEF s
<1>7. PICK k \in DOMAIN products : nearest[j] = products[k] /\ NearMiss(products[k], hard)
  BY <1>3, <1>4, <1>6
<1> DEFINE p == products[k]
<1>8. offered = AlternativeItem(p, CandidateRows, spec)
  BY <1>4, <1>6, <1>7
<1>9. offered.product = p /\ offered.missed = ShortfallReasons(p, hard)
  BY <1>8 DEF AlternativeItem
<1> HIDE DEF offered, p
<1>10. named = Missed(p, hard)
  BY <1>9, ShortfallCodes
<1>11. Missed(p, hard) # {} /\ Missed(p, hard) \cap NEVER_RELAXED = {}
  BY <1>7 DEF NearMiss, p
<1> HIDE DEF named, hard
<1>12. relaxed = [n \in DOMAIN NoHard |-> IF n \in Missed(p, hard) THEN NoHard[n] ELSE hard[n]]
  BY <1>10
<1> HIDE DEF relaxed
<1>13. Matches(p, relaxed)
  BY <1>2, <1>11, <1>12, RelaxedMatches
<1>14. named # {} /\ Matches(offered.product, relaxed)
  BY <1>9, <1>10, <1>11, <1>13
<1> QED BY <1>14 DEF offered, named, relaxed, hard, spec

-----------------------------------------------------------------------------
(* The types                                                               *)

LEMMA ServedTypes == Served => TypeOK
<1> SUFFICES ASSUME Served PROVE TypeOK
  OBVIOUS
<1>1. request \in Requests /\ shop \in Shops /\ answer.status \in Statuses
  BY DEF Served
<1>2. \A r \in shop.rows : UpstreamProduct(r)
  BY <1>1, ShopAssumption
<1>3. ASSUME Answered("search")
      PROVE  /\ Len(Items) <= answer.response.match_count
             /\ \A i \in DOMAIN Items : Items[i].score \in 0 .. One
  <2> DEFINE products == answer.products
             spec == answer.spec
             taste == answer.taste
             r == Ranked(products, spec, taste)
  <2>1. Executable(products, spec, taste)
    BY <1>3, SearchAnswer
  <2>2. \A i \in 1 .. Len(r) : r[i].score \in Marks
    <3> HIDE DEF products, spec, taste
    <3> QED BY <2>1, RankedFacts
  <2>3. /\ Len(r) \in Nat
        /\ answer.response.match_count = IF answer.response.awaiting_answer THEN 0 ELSE Len(r)
        /\ answer.response.awaiting_answer => Items = <<>>
        /\ ~ answer.response.awaiting_answer => Len(Items) \in Nat /\ Len(Items) <= Len(r)
        /\ \A i \in DOMAIN Items : i \in 1 .. Len(r) /\ Items[i].score = r[i].score
    BY <1>3, PageFacts
  <2> HIDE DEF r
  <2>4. Len(Items) <= answer.response.match_count
    <3>1. CASE answer.response.awaiting_answer
      BY <3>1, <2>3, EmptySeqFacts
    <3>2. CASE ~ answer.response.awaiting_answer
      BY <3>2, <2>3
    <3> QED BY <3>1, <3>2
  <2>5. Marks = 0 .. One
    BY DEF Marks
  <2> QED BY <2>2, <2>3, <2>4, <2>5
<1> QED BY <1>1, <1>2, <1>3 DEF TypeOK, Answered, Items

-----------------------------------------------------------------------------
(* The order of the candidates                                             *)

\* Sets that a one-to-one function maps onto each other have as many members.
LEMMA SameCount ==
    ASSUME NEW S, IsFiniteSet(S), NEW T, NEW f \in [S -> T],
           \A x, y \in S : f[x] = f[y] => x = y,
           \A t \in T : \E x \in S : f[x] = t
    PROVE  IsFiniteSet(T) /\ Cardinality(T) = Cardinality(S)
<1>1. f \in Bijection(S, T)
  BY DEF Bijection, Injection, Surjection, IsInjective
<1>2. ExistsBijection(S, T)
  BY <1>1 DEF ExistsBijection
<1> QED BY <1>2, FS_Bijection

\* In a sequence that is sorted by a total order, each member has as many
\* before it in the set as in the sequence.
LEMMA SortedRanks ==
    ASSUME NEW S, IsFiniteSet(S), NEW R, OrderedBy(R, S), NEW a,
           NEW m \in Nat, m = Cardinality(S),
           \A i \in 1 .. m : a[i] \in S,
           \A x \in S : \E i \in 1 .. m : a[i] = x,
           \A i, j \in 1 .. m : i < j => <<a[j], a[i]>> \notin R
    PROVE  \A i \in 1 .. m : RankIn(R, S, a[i]) = i - 1
<1> DEFINE D == 1 .. m
           f == [i \in D |-> a[i]]
<1>1. IsFiniteSet(D) /\ Cardinality(D) = m
  <2>1. 1 \in Int /\ m \in Int
    OBVIOUS
  <2>2. IsFiniteSet(1 .. m) /\ Cardinality(1 .. m) = IF 1 > m THEN 0 ELSE m - 1 + 1
    BY <2>1, FS_Interval
  <2> QED BY <2>2
<1>2. f \in Surjection(D, S)
  <2>1. f \in [D -> S]
    OBVIOUS
  <2>2. \A x \in S : \E i \in D : f[i] = x
    OBVIOUS
  <2> HIDE DEF f, D
  <2> QED BY <2>1, <2>2 DEF Surjection
<1>3. \A i, j \in D : a[i] = a[j] => i = j
  <2>1. f \in Injection(D, S)
    <3> HIDE DEF f, D
    <3> QED BY <1>1, <1>2, FS_SurjSameCardinalityImpliesInj
  <2>2. \A i, j \in D : f[i] = f[j] => i = j
    <3> HIDE DEF f, D
    <3> QED BY <2>1 DEF Injection, IsInjective
  <2> QED BY <2>2
<1> TAKE i \in 1 .. m
<1> DEFINE B == {y \in S : <<y, a[i]>> \in R}
           k == i - 1
           g == [j \in 1 .. k |-> a[j]]
<1>4. k \in Nat /\ \A j : j \in 1 .. k <=> j \in D /\ j < i
  OBVIOUS
<1>5. \A j \in D : <<a[j], a[i]>> \in R <=> j < i
  <2> TAKE j \in D
  <2>1. a[i] \in S /\ a[j] \in S
    OBVIOUS
  <2>2. i < j => <<a[j], a[i]>> \notin R
    OBVIOUS
  <2>3. j < i => <<a[i], a[j]>> \notin R
    OBVIOUS
  <2>4. j = i => <<a[j], a[i]>> \notin R
    BY <2>1 DEF OrderedBy
  <2>5. j < i => <<a[j], a[i]>> \in R
    BY <1>3, <2>1, <2>3 DEF OrderedBy
  <2>6. j < i \/ i < j \/ i = j
    OBVIOUS
  <2> QED BY <2>2, <2>4, <2>5, <2>6
<1>6. g \in [1 .. k -> B]
  <2>1. \A j \in 1 .. k : a[j] \in B
    BY <1>4, <1>5
  <2> HIDE DEF B
  <2> QED BY <2>1
<1>7. \A x, y \in 1 .. k : g[x] = g[y] => x = y
  <2> HIDE DEF k
  <2> QED BY <1>3, <1>4
<1>8. \A t \in B : \E x \in 1 .. k : g[x] = t
  <2> TAKE t \in B
  <2>1. PICK j \in D : a[j] = t
    OBVIOUS
  <2>2. j \in 1 .. k
    <3>1. <<a[j], a[i]>> \in R
      BY <2>1
    <3> QED BY <3>1, <1>4, <1>5
  <2> HIDE DEF k
  <2> QED BY <2>1, <2>2
<1>9. IsFiniteSet(1 .. k) /\ Cardinality(1 .. k) = k
  <2>1. 1 \in Int /\ k \in Int
    BY <1>4
  <2> HIDE DEF k
  <2>2. IsFiniteSet(1 .. k) /\ Cardinality(1 .. k) = IF 1 > k THEN 0 ELSE k - 1 + 1
    BY <2>1, FS_Interval
  <2> QED BY <2>2, <1>4
<1>10. Cardinality(B) = k
  <2> HIDE DEF g, B, k
  <2> QED BY <1>6, <1>7, <1>8, <1>9, SameCount
<1> QED BY <1>10 DEF RankIn

\* There is one way to sort a set.
LEMMA SortedOnce ==
    ASSUME NEW S, IsFiniteSet(S), NEW R, OrderedBy(R, S), NEW a, NEW b, Cardinality(S) \in Nat,
           \A i \in 1 .. Cardinality(S) : a[i] \in S,
           \A i \in 1 .. Cardinality(S) : b[i] \in S,
           \A x \in S : \E i \in 1 .. Cardinality(S) : a[i] = x,
           \A x \in S : \E i \in 1 .. Cardinality(S) : b[i] = x,
           \A i, j \in 1 .. Cardinality(S) : i < j => <<a[j], a[i]>> \notin R,
           \A i, j \in 1 .. Cardinality(S) : i < j => <<b[j], b[i]>> \notin R
    PROVE  \A i \in 1 .. Cardinality(S) : a[i] = b[i]
<1>1. \A i \in 1 .. Cardinality(S) : RankIn(R, S, a[i]) = i - 1
  BY SortedRanks
<1>2. \A i \in 1 .. Cardinality(S) : RankIn(R, S, b[i]) = i - 1
  BY SortedRanks
<1> TAKE i \in 1 .. Cardinality(S)
<1> DEFINE x == a[i]
           y == b[i]
           n == RankIn(R, S, x)
<1>3. x \in S /\ y \in S /\ n \in Int /\ n = RankIn(R, S, y)
  BY <1>1, <1>2
<1> HIDE DEF x, y
<1>4. \A u, v \in S : <<u, v>> \in R <=> RankIn(R, S, u) < RankIn(R, S, v)
  BY Ranks
<1> HIDE DEF n
<1>5. ~ (n < n)
  BY <1>3
<1>6. <<x, y>> \notin R /\ <<y, x>> \notin R
  BY <1>3, <1>4, <1>5 DEF n
<1>7. x = y
  BY <1>3, <1>6 DEF OrderedBy
<1> QED BY <1>7 DEF x, y

\* Of distinct products, as many places as products have a property.
LEMMA DistinctCount ==
    ASSUME NEW q, IsSeq(q), Distinct(q), NEW P, P \subseteq Range(q)
    PROVE  LET K == {i \in DOMAIN q : q[i] \in P}
           IN  IsFiniteSet(K) /\ IsFiniteSet(P) /\ Cardinality(P) = Cardinality(K)
<1> DEFINE K == {i \in DOMAIN q : q[i] \in P}
           f == [i \in K |-> q[i]]
<1>1. K \subseteq DOMAIN q
  OBVIOUS
<1>2. f \in [K -> P]
  OBVIOUS
<1>3. \A i, j \in K : f[i] = f[j] => i = j
  BY DEF Distinct
<1>4. \A p \in P : \E i \in K : f[i] = p
  BY DEF Range
<1> HIDE DEF K, f
<1>5. IsFiniteSet(K)
  BY <1>1, TakenOf
<1>6. IsFiniteSet(P) /\ Cardinality(P) = Cardinality(K)
  BY <1>2, <1>3, <1>4, <1>5, SameCount
<1> QED BY <1>5, <1>6 DEF K

\* What a search ranks, as a set.
Best(P, spec, profile) == {Scored(p, spec, profile) : p \in {q \in P : Matches(q, spec.hard)}}

\* The ranking is a sorting of that set.
LEMMA RankingSorts ==
    ASSUME NEW products, NEW spec, NEW profile, Executable(products, spec, profile), Distinct(products),
           NEW S, S = Best(Range(products), spec, profile), NEW r, r = Ranked(products, spec, profile)
    PROVE  /\ IsFiniteSet(S) /\ Cardinality(S) = Len(r) /\ Len(r) \in Nat /\ DOMAIN r = 1 .. Len(r)
           /\ IsSeq(r)
           /\ OrderedBy(Outranking(S), S)
           /\ \A i \in 1 .. Len(r) : r[i] \in S
           /\ \A x \in S : \E i \in 1 .. Len(r) : r[i] = x
           /\ \A i, j \in 1 .. Len(r) : i < j => <<r[j], r[i]>> \notin Outranking(S)
<1> DEFINE K == Matching(products, spec.hard)
           P == {q \in Range(products) : Matches(q, spec.hard)}
           score(p) == Scored(p, spec, profile)
<1>1. S = {score(p) : p \in P}
  BY DEF Best
<1>2. IsSeq(products) /\ K = {i \in DOMAIN products : products[i] \in P}
  <2>1. \A i \in DOMAIN products : products[i] \in Range(products)
    BY DEF Range
  <2> QED BY <2>1 DEF Matching, Executable
<1>3. /\ IsSeq(r) /\ Len(r) \in Nat /\ DOMAIN r = 1 .. Len(r) /\ Len(r) = Cardinality(K)
      /\ \A i \in 1 .. Len(r) : Rankable(r[i])
      /\ \A i \in 1 .. Len(r) : \E k \in K : r[i] = score(products[k])
      /\ \A k \in K : \E i \in 1 .. Len(r) : r[i] = score(products[k])
      /\ \A i, j \in 1 .. Len(r) : i < j => ~ RanksBefore(r[j], r[i])
  BY RankedFacts
<1>4. \A p \in P : \E k \in K : p = products[k]
  <2>1. \A p \in P : \E i \in DOMAIN products : p = products[i]
    BY DEF Range
  <2> HIDE DEF P, K
  <2> QED BY <1>2, <2>1
<1>5. \A k \in K : products[k] \in P
  BY <1>2
<1>6. \A p \in P, q \in P : score(p) = score(q) => p = q
  <2>1. \A p : score(p).product = p
    BY ScoredFacts
  <2> HIDE DEF score, P
  <2> QED BY <2>1
<1>7. \A p \in P, q \in P : p.id = q.id => p = q
  <2> TAKE p \in P, q \in P
  <2>1. PICK i \in K : p = products[i]
    BY <1>4
  <2>2. PICK j \in K : q = products[j]
    BY <1>4
  <2>3. i \in DOMAIN products /\ j \in DOMAIN products
    BY DEF Matching
  <2> QED BY <2>1, <2>2, <2>3 DEF Distinct
<1>8. IsFiniteSet(P) /\ Cardinality(P) = Cardinality(K)
  <2>1. P \subseteq Range(products)
    OBVIOUS
  <2> HIDE DEF P, K
  <2> QED BY <1>2, <2>1, DistinctCount
<1>9. IsFiniteSet(S) /\ Cardinality(S) = Cardinality(P)
  <2> DEFINE f == [p \in P |-> score(p)]
  <2> HIDE DEF P, score
  <2>1. f \in [P -> S]
    BY <1>1
  <2>2. \A p, q \in P : f[p] = f[q] => p = q
    BY <1>6
  <2>3. \A x \in S : \E p \in P : f[p] = x
    BY <1>1
  <2> HIDE DEF f
  <2> QED BY <1>8, <2>1, <2>2, <2>3, SameCount
<1>10. \A p : score(p).product = p
  BY ScoredFacts
<1> HIDE DEF K, P, score
<1>11. \A i \in 1 .. Len(r) : r[i] \in S
  BY <1>1, <1>3, <1>5
<1>12. \A x \in S : \E i \in 1 .. Len(r) : r[i] = x
  <2> TAKE x \in S
  <2>1. PICK p \in P : x = score(p)
    BY <1>1
  <2>2. PICK k \in K : p = products[k]
    BY <1>4
  <2> QED BY <2>1, <2>2, <1>3
<1>13. \A x \in S : Rankable(x)
  BY <1>3, <1>12
<1>14. ASSUME NEW x \in S, NEW y \in S PROVE <<x, y>> \in Outranking(S) <=> RanksBefore(x, y)
  BY DEF Outranking
<1>15. ASSUME NEW x \in S, NEW y \in S, x # y PROVE RanksBefore(x, y) \/ RanksBefore(y, x)
  <2>1. PICK p \in P : x = score(p)
    BY <1>1
  <2>2. PICK q \in P : y = score(q)
    BY <1>1
  <2>3. x.product = p /\ y.product = q /\ p.id # q.id
    BY <1>7, <1>10, <1>15, <2>1, <2>2
  <2>4. Rankable(x) /\ Rankable(y)
    BY <1>13
  <2> DEFINE a1 == x.score
             a2 == x.product.price
             a3 == x.product.id
             b1 == y.score
             b2 == y.product.price
             b3 == y.product.id
  <2>5. /\ a1 \in Int /\ a2 \in Int /\ a3 \in Int /\ b1 \in Int /\ b2 \in Int /\ b3 \in Int
        /\ a3 # b3
    BY <2>3, <2>4 DEF Rankable
  <2>6. /\ RanksBefore(x, y) <=> (a1 > b1 \/ (a1 = b1 /\ a2 < b2) \/ (a1 = b1 /\ a2 = b2 /\ a3 < b3))
        /\ RanksBefore(y, x) <=> (b1 > a1 \/ (b1 = a1 /\ b2 < a2) \/ (b1 = a1 /\ b2 = a2 /\ b3 < a3))
    BY DEF RanksBefore
  <2> HIDE DEF a1, a2, a3, b1, b2, b3
  <2> QED BY <2>5, <2>6
<1>16. OrderedBy(Outranking(S), S)
  <2>1. Sorts(Outranking(S), S)
    BY <1>13, BetterSorts
  <2>2. \A x, y \in S : x = y \/ <<x, y>> \in Outranking(S) \/ <<y, x>> \in Outranking(S)
    BY <1>14, <1>15
  <2> QED BY <2>1, <2>2 DEF Sorts, OrderedBy
<1>17. \A i, j \in 1 .. Len(r) : i < j => <<r[j], r[i]>> \notin Outranking(S)
  BY <1>3, <1>11, <1>14
<1> QED BY <1>3, <1>8, <1>9, <1>11, <1>12, <1>16, <1>17

\* A search depends on the set of the products, not on their order.
LEMMA AnyOrder ==
    ASSUME NEW a, NEW b, NEW spec, NEW profile,
           Executable(a, spec, profile), Executable(b, spec, profile),
           Distinct(a), Distinct(b), Range(a) = Range(b)
    PROVE  SearchProducts(a, spec, profile) = SearchProducts(b, spec, profile)
<1> DEFINE S == Best(Range(a), spec, profile)
           r == Ranked(a, spec, profile)
           q == Ranked(b, spec, profile)
           n == Cardinality(S)
<1>1. /\ IsFiniteSet(S) /\ n = Len(r) /\ n \in Nat /\ DOMAIN r = 1 .. Len(r) /\ IsSeq(r)
      /\ OrderedBy(Outranking(S), S)
      /\ \A i \in 1 .. n : r[i] \in S
      /\ \A x \in S : \E i \in 1 .. n : r[i] = x
      /\ \A i, j \in 1 .. n : i < j => <<r[j], r[i]>> \notin Outranking(S)
  BY RankingSorts
<1>2. /\ n = Len(q) /\ DOMAIN q = 1 .. Len(q) /\ IsSeq(q)
      /\ \A i \in 1 .. n : q[i] \in S
      /\ \A x \in S : \E i \in 1 .. n : q[i] = x
      /\ \A i, j \in 1 .. n : i < j => <<q[j], q[i]>> \notin Outranking(S)
  BY RankingSorts
<1>3. r = q
  <2>1. \A i \in 1 .. n : r[i] = q[i]
    <3> HIDE DEF S, r, q
    <3> DEFINE R == Outranking(S)
    <3>1. \A i, j \in 1 .. Cardinality(S) : i < j => <<r[j], r[i]>> \notin R
      BY <1>1
    <3>2. \A i, j \in 1 .. Cardinality(S) : i < j => <<q[j], q[i]>> \notin R
      BY <1>2
    <3>3. /\ \A i \in 1 .. Cardinality(S) : r[i] \in S
          /\ \A i \in 1 .. Cardinality(S) : q[i] \in S
          /\ \A x \in S : \E i \in 1 .. Cardinality(S) : r[i] = x
          /\ \A x \in S : \E i \in 1 .. Cardinality(S) : q[i] = x
          /\ IsFiniteSet(S) /\ Cardinality(S) \in Nat /\ OrderedBy(R, S)
      BY <1>1, <1>2
    <3> HIDE DEF R
    <3>4. \A i \in 1 .. Cardinality(S) : r[i] = q[i]
      BY <3>1, <3>2, <3>3, SortedOnce
    <3> QED BY <3>4
  <2>2. r = [i \in 1 .. n |-> r[i]] /\ q = [i \in 1 .. n |-> q[i]]
    <3> HIDE DEF r, q
    <3>1. r \in Seq(Range(r)) /\ q \in Seq(Range(q))
      BY <1>1, <1>2 DEF IsSeq
    <3> QED BY <1>1, <1>2, <3>1, LenProperties
  <2> HIDE DEF r, q, n
  <2> QED BY <2>1, <2>2
<1>4. ASSUME NEW m
      PROVE  Cardinality({i \in DOMAIN a : m \in Missed(a[i], spec.hard)})
           = Cardinality({i \in DOMAIN b : m \in Missed(b[i], spec.hard)})
  <2> DEFINE P == {p \in Range(a) : m \in Missed(p, spec.hard)}
             A == {i \in DOMAIN a : m \in Missed(a[i], spec.hard)}
             B == {i \in DOMAIN b : m \in Missed(b[i], spec.hard)}
  <2>1. \A i \in DOMAIN a : a[i] \in P <=> m \in Missed(a[i], spec.hard)
    BY DEF Range
  <2>2. \A i \in DOMAIN b : b[i] \in P <=> m \in Missed(b[i], spec.hard)
    <3>1. \A i \in DOMAIN b : b[i] \in Range(a)
      BY DEF Range
    <3> QED BY <3>1
  <2>3. P \subseteq Range(a) /\ P \subseteq Range(b) /\ IsSeq(a) /\ IsSeq(b)
    BY DEF Executable
  <2> HIDE DEF P
  <2>4. Cardinality(P) = Cardinality({i \in DOMAIN a : a[i] \in P})
    BY <2>3, DistinctCount
  <2>5. Cardinality(P) = Cardinality({i \in DOMAIN b : b[i] \in P})
    BY <2>3, DistinctCount
  <2>6. A = {i \in DOMAIN a : a[i] \in P} /\ B = {i \in DOMAIN b : b[i] \in P}
    BY <2>1, <2>2
  <2> QED BY <2>4, <2>5, <2>6
<1>5. Rejections(a, spec.hard) = Rejections(b, spec.hard)
  <2> DEFINE ra(m) == Cardinality({i \in DOMAIN a : m \in Missed(a[i], spec.hard)})
             rb(m) == Cardinality({i \in DOMAIN b : m \in Missed(b[i], spec.hard)})
  <2>1. Rejections(a, spec.hard) = [k \in {m \in CheckNames : ra(m) > 0} |-> ra(k)]
    BY DEF Rejections
  <2>2. Rejections(b, spec.hard) = [k \in {m \in CheckNames : rb(m) > 0} |-> rb(k)]
    BY DEF Rejections
  <2>3. \A m : ra(m) = rb(m)
    BY <1>4
  <2> HIDE DEF ra, rb
  <2> QED BY <2>1, <2>2, <2>3
<1>6. Len(a) = Len(b)
  <2>1. IsSeq(a) /\ IsSeq(b)
    BY DEF Executable
  <2> DEFINE P == Range(a)
  <2>2. DOMAIN a = {i \in DOMAIN a : a[i] \in P} /\ DOMAIN b = {i \in DOMAIN b : b[i] \in P}
    BY DEF Range
  <2>3. P \subseteq Range(a) /\ P \subseteq Range(b)
    OBVIOUS
  <2> HIDE DEF P
  <2>4. Cardinality(P) = Cardinality({i \in DOMAIN a : a[i] \in P})
    BY <2>1, <2>3, DistinctCount
  <2>5. Cardinality(P) = Cardinality({i \in DOMAIN b : b[i] \in P})
    BY <2>1, <2>3, DistinctCount
  <2>6. Cardinality(DOMAIN a) = Cardinality(DOMAIN b)
    BY <2>2, <2>4, <2>5
  <2>7. Len(a) \in Nat /\ DOMAIN a = 1 .. Len(a) /\ Len(b) \in Nat /\ DOMAIN b = 1 .. Len(b)
    BY <2>1, LenProperties DEF IsSeq
  <2>8. \A k \in Nat : Cardinality(1 .. k) = k
    <3> TAKE k \in Nat
    <3>1. 1 \in Int /\ k \in Int
      OBVIOUS
    <3>2. Cardinality(1 .. k) = IF 1 > k THEN 0 ELSE k - 1 + 1
      BY <3>1, FS_Interval
    <3> QED BY <3>2
  <2> QED BY <2>6, <2>7, <2>8
<1> DEFINE items == SubSeq(r, 1, MinOf(Len(r), spec.limit))
           more == Len(r) > spec.limit
<1>7. SearchProducts(a, spec, profile) =
          [items |-> items, has_more |-> more, match_count |-> Len(r),
           candidate_count |-> Len(a), rejections |-> Rejections(a, spec.hard)]
  BY SearchRecord DEF Rejections
<1>8. SearchProducts(b, spec, profile) =
          [items |-> SubSeq(q, 1, MinOf(Len(q), spec.limit)), has_more |-> Len(q) > spec.limit,
           match_count |-> Len(q), candidate_count |-> Len(b), rejections |-> Rejections(b, spec.hard)]
  BY SearchRecord DEF Rejections
<1> HIDE DEF r, q
<1> QED BY <1>3, <1>5, <1>6, <1>7, <1>8

\* Of distinct products, those with a property, each once.
LEMMA TakenOnce ==
    ASSUME NEW q, IsSeq(q), Distinct(q), NEW P, P \subseteq Range(q)
    PROVE  LET K == {i \in DOMAIN q : q[i] \in P}
               s == Taken(q, K)
           IN  /\ IsSeq(s) /\ Len(s) \in Nat /\ DOMAIN s = 1 .. Len(s)
               /\ IsFiniteSet(P) /\ Cardinality(P) = Len(s) /\ Range(s) = P
<1> DEFINE K == {i \in DOMAIN q : q[i] \in P}
           s == Taken(q, K)
<1>1. K \subseteq DOMAIN q /\ (\A i \in K : q[i] \in P) /\ \A p \in P : \E i \in K : q[i] = p
  BY DEF Range
<1>2. /\ IsSeq(s) /\ Len(s) = Cardinality(K) /\ Len(s) \in Nat /\ DOMAIN s = 1 .. Len(s)
      /\ \E h \in [1 .. Len(s) -> K] :
            /\ \A i \in 1 .. Len(s) : s[i] = q[h[i]]
            /\ \A n \in K : \E i \in 1 .. Len(s) : h[i] = n
  <2>1. /\ IsSeq(s) /\ Len(s) = Cardinality(K) /\ Len(s) \in Nat /\ DOMAIN s = 1 .. Len(s)
        /\ \E h \in [1 .. Len(s) -> K] :
              /\ \A i \in 1 .. Len(s) : s[i] = q[h[i]]
              /\ \A n \in K : \E i \in 1 .. Len(s) : h[i] = n
              /\ \A i, j \in 1 .. Len(s) : h[i] < h[j] <=> i < j
    <3> HIDE DEF K
    <3> QED BY <1>1, TakenOf
  <2> HIDE DEF K, s
  <2> QED BY <2>1
<1>3. IsFiniteSet(P) /\ Cardinality(P) = Cardinality(K)
  BY DistinctCount
<1> HIDE DEF K, s
<1>4. PICK h \in [1 .. Len(s) -> K] :
          /\ \A i \in 1 .. Len(s) : s[i] = q[h[i]]
          /\ \A n \in K : \E i \in 1 .. Len(s) : h[i] = n
  BY <1>2
<1>5. ASSUME NEW x \in Range(s) PROVE x \in P
  <2>1. PICK i \in 1 .. Len(s) : x = s[i]
    BY <1>2 DEF Range
  <2>2. h[i] \in K /\ s[i] = q[h[i]]
    BY <1>4
  <2> QED BY <1>1, <2>1, <2>2
<1>6. ASSUME NEW x \in P PROVE x \in Range(s)
  <2>1. PICK n \in K : q[n] = x
    BY <1>1
  <2>2. PICK i \in 1 .. Len(s) : h[i] = n
    BY <1>4
  <2>3. s[i] = x /\ i \in DOMAIN s
    BY <1>2, <1>4, <2>1, <2>2
  <2> QED BY <2>3 DEF Range
<1>7. Range(s) = P
  BY <1>5, <1>6
<1> QED BY <1>2, <1>3, <1>7 DEF s, K

\* The near misses, as a set.
NearOnes(products, hard) == {p \in Range(products) : NearMiss(p, hard)}

\* The alternatives are the first of a sorting of that set, whose order is
\* total: of two products, one is nearer, or cheaper, or has the lower id.
LEMMA AlternativesSort ==
    ASSUME NEW products, IsSeq(products), \A i \in DOMAIN products : Scorable(products[i]),
           Distinct(products), NEW hard, DOMAIN hard = DOMAIN NoHard,
           NEW S, S = NearOnes(products, hard)
    PROVE  \E t : /\ IsSeq(t) /\ Len(t) = Cardinality(S) /\ Len(t) \in Nat /\ DOMAIN t = 1 .. Len(t)
                  /\ IsFiniteSet(S) /\ OrderedBy(Nearer(hard, S), S)
                  /\ NearestAlternatives(products, hard) = SubSeq(t, 1, MinOf(Len(t), MAX_ALTERNATIVES))
                  /\ \A i \in 1 .. Len(t) : t[i] \in S
                  /\ \A x \in S : \E i \in 1 .. Len(t) : t[i] = x
                  /\ \A i, j \in 1 .. Len(t) : i < j => <<t[j], t[i]>> \notin Nearer(hard, S)
<1> DEFINE K == NearPlaces(products, hard)
           s == Taken(products, K)
           R == Nearer(hard, Range(s))
           t == Arranged(s, R)
           h == Places(s, R)
<1>1. /\ NearestAlternatives(products, hard) = SubSeq(t, 1, MinOf(Len(t), MAX_ALTERNATIVES))
      /\ Sorts(R, Range(s))
  BY NearestArranged
<1>2. S \subseteq Range(products)
  BY DEF NearOnes
<1>3. K = {i \in DOMAIN products : products[i] \in S}
  BY DEF NearPlaces, NearOnes, Range
<1>4. /\ IsSeq(s) /\ Len(s) \in Nat /\ DOMAIN s = 1 .. Len(s)
      /\ IsFiniteSet(S) /\ Cardinality(S) = Len(s) /\ Range(s) = S
  <2> DEFINE k == {i \in DOMAIN products : products[i] \in S}
             q == Taken(products, k)
  <2>1. /\ IsSeq(q) /\ Len(q) \in Nat /\ DOMAIN q = 1 .. Len(q)
        /\ IsFiniteSet(S) /\ Cardinality(S) = Len(q) /\ Range(q) = S
    BY <1>2, TakenOnce
  <2> HIDE DEF K
  <2>2. K = k
    BY <1>3
  <2> HIDE DEF k
  <2>3. s = q
    BY <2>2
  <2> HIDE DEF s, q
  <2> QED BY <2>1, <2>3
<1> HIDE DEF K, s, R
<1>5. /\ IsSeq(t) /\ Len(t) = Len(s) /\ Len(t) \in Nat /\ DOMAIN t = 1 .. Len(t)
      /\ \A i \in 1 .. Len(t) : h[i] \in DOMAIN s /\ t[i] = s[h[i]]
      /\ \A n \in DOMAIN s : \E i \in 1 .. Len(t) : h[i] = n
      /\ \A i, j \in 1 .. Len(t) : i < j => <<t[j], t[i]>> \notin R
  <2>1. /\ IsSeq(t) /\ Len(t) = Len(s) /\ Len(t) \in Nat /\ DOMAIN t = 1 .. Len(t)
        /\ \A i \in 1 .. Len(t) : h[i] \in DOMAIN s /\ t[i] = s[h[i]]
        /\ \A n \in DOMAIN s : \E i \in 1 .. Len(t) : h[i] = n
        /\ \A i, j \in 1 .. Len(t) : h[i] = h[j] => i = j
        /\ \A i, j \in 1 .. Len(t) : i < j => <<t[j], t[i]>> \notin R
        /\ \A i, j \in 1 .. Len(t) : <<t[i], t[j]>> \in R => i < j
    BY <1>1, <1>4, ArrangedFacts
  <2> HIDE DEF t, h
  <2> QED BY <2>1
<1>6. R = Nearer(hard, S)
  BY <1>4 DEF R
<1> HIDE DEF t, h
<1>7. \A i \in 1 .. Len(t) : t[i] \in S
  BY <1>4, <1>5 DEF Range
<1>8. \A x \in S : \E i \in 1 .. Len(t) : t[i] = x
  <2> TAKE x \in S
  <2>1. PICK n \in DOMAIN s : x = s[n]
    BY <1>4 DEF Range
  <2>2. PICK i \in 1 .. Len(t) : h[i] = n
    BY <1>5
  <2> QED BY <1>5, <2>1, <2>2
<1>9. ASSUME NEW x \in S, NEW y \in S, x # y PROVE <<x, y>> \in R \/ <<y, x>> \in R
  <2>1. PICK i \in DOMAIN products : x = products[i]
    BY <1>2 DEF Range
  <2>2. PICK j \in DOMAIN products : y = products[j]
    BY <1>2 DEF Range
  <2> DEFINE a1 == MissCount(x, hard)
             a2 == x.price
             a3 == x.id
             b1 == MissCount(y, hard)
             b2 == y.price
             b3 == y.id
  <2>3. a3 # b3
    BY <1>9, <2>1, <2>2 DEF Distinct
  <2>4. a1 \in Nat /\ b1 \in Nat /\ a2 \in Int /\ b2 \in Int /\ a3 \in Int /\ b3 \in Int
    BY <2>1, <2>2, MissCountNat DEF Scorable
  <2>5. /\ <<x, y>> \in R <=> (a1 < b1 \/ (a1 = b1 /\ a2 < b2) \/ (a1 = b1 /\ a2 = b2 /\ a3 < b3))
        /\ <<y, x>> \in R <=> (b1 < a1 \/ (b1 = a1 /\ b2 < a2) \/ (b1 = a1 /\ b2 = a2 /\ b3 < a3))
    BY <1>6 DEF Nearer
  <2> HIDE DEF a1, a2, a3, b1, b2, b3
  <2> QED BY <2>3, <2>4, <2>5
<1>10. OrderedBy(R, S)
  BY <1>1, <1>4, <1>9 DEF Sorts, OrderedBy
<1> QED BY <1>1, <1>4, <1>5, <1>6, <1>7, <1>8, <1>10

\* The alternatives depend on the set of the products, not on their order.
LEMMA AlternativesAnyOrder ==
    ASSUME NEW a, IsSeq(a), \A i \in DOMAIN a : Scorable(a[i]), Distinct(a),
           NEW b, IsSeq(b), \A i \in DOMAIN b : Scorable(b[i]), Distinct(b),
           Range(a) = Range(b), NEW hard, DOMAIN hard = DOMAIN NoHard
    PROVE  NearestAlternatives(a, hard) = NearestAlternatives(b, hard)
<1> DEFINE S == NearOnes(a, hard)
           R == Nearer(hard, S)
           n == Cardinality(S)
<1>1. S = NearOnes(b, hard)
  BY DEF NearOnes
<1>2. PICK t : /\ IsSeq(t) /\ Len(t) = n /\ Len(t) \in Nat /\ DOMAIN t = 1 .. Len(t)
               /\ IsFiniteSet(S) /\ OrderedBy(R, S)
               /\ NearestAlternatives(a, hard) = SubSeq(t, 1, MinOf(Len(t), MAX_ALTERNATIVES))
               /\ \A i \in 1 .. Len(t) : t[i] \in S
               /\ \A x \in S : \E i \in 1 .. Len(t) : t[i] = x
               /\ \A i, j \in 1 .. Len(t) : i < j => <<t[j], t[i]>> \notin R
  BY AlternativesSort
<1> HIDE DEF S
<1>3. PICK u : /\ IsSeq(u) /\ Len(u) = n /\ Len(u) \in Nat /\ DOMAIN u = 1 .. Len(u)
               /\ NearestAlternatives(b, hard) = SubSeq(u, 1, MinOf(Len(u), MAX_ALTERNATIVES))
               /\ \A i \in 1 .. Len(u) : u[i] \in S
               /\ \A x \in S : \E i \in 1 .. Len(u) : u[i] = x
               /\ \A i, j \in 1 .. Len(u) : i < j => <<u[j], u[i]>> \notin R
  BY <1>1, AlternativesSort
<1> HIDE DEF R
<1>4. \A i \in 1 .. Cardinality(S) : t[i] = u[i]
  <2>1. /\ IsFiniteSet(S) /\ OrderedBy(R, S) /\ Cardinality(S) \in Nat
        /\ \A i \in 1 .. Cardinality(S) : t[i] \in S
        /\ \A i \in 1 .. Cardinality(S) : u[i] \in S
        /\ \A x \in S : \E i \in 1 .. Cardinality(S) : t[i] = x
        /\ \A x \in S : \E i \in 1 .. Cardinality(S) : u[i] = x
        /\ \A i, j \in 1 .. Cardinality(S) : i < j => <<t[j], t[i]>> \notin R
        /\ \A i, j \in 1 .. Cardinality(S) : i < j => <<u[j], u[i]>> \notin R
    BY <1>2, <1>3
  <2> QED BY <2>1, SortedOnce
<1>5. t = [i \in 1 .. n |-> t[i]] /\ u = [i \in 1 .. n |-> u[i]]
  <2>1. t \in Seq(Range(t)) /\ u \in Seq(Range(u))
    BY <1>2, <1>3 DEF IsSeq
  <2> HIDE DEF n
  <2> QED BY <1>2, <1>3, <2>1, LenProperties
<1>6. t = u
  <2>1. \A i \in 1 .. n : t[i] = u[i]
    BY <1>4
  <2> HIDE DEF n
  <2> QED BY <1>5, <2>1
<1> QED BY <1>2, <1>3, <1>6

\* A sequence that starts elsewhere, and goes back to what was before.
Turned(s, k) == SubSeq(s, k, Len(s)) \o Reverse(SubSeq(s, 1, k - 1))

LEMMA TurnedFacts ==
    ASSUME NEW s, IsSeq(s), NEW k \in DOMAIN s
    PROVE  LET t == Turned(s, k)
               n == Len(s)
               at(i) == IF i <= n - k + 1 THEN i + k - 1 ELSE n + 1 - i
           IN  /\ IsSeq(t) /\ DOMAIN t = 1 .. n /\ DOMAIN s = 1 .. n /\ n \in Nat /\ k \in 1 .. n
               /\ \A i \in 1 .. n : t[i] = s[at(i)]
<1> DEFINE S == Range(s)
           n == Len(s)
           a == SubSeq(s, k, n)
           c == SubSeq(s, 1, k - 1)
           b == Reverse(c)
           m == n - k + 1
           t == Turned(s, k)
<1>1. n \in Nat /\ DOMAIN s = 1 .. n /\ k \in 1 .. n /\ \A i \in 1 .. n : s[i] \in S
  <2>1. s \in Seq(S)
    BY DEF IsSeq
  <2>2. n \in Nat /\ DOMAIN s = 1 .. n
    BY <2>1, LenProperties
  <2>3. \A i \in 1 .. n : s[i] \in S
    <3> HIDE DEF n
    <3> QED BY <2>2 DEF Range
  <2> QED BY <2>2, <2>3
<1> HIDE DEF n, S
<1>2. a \in Seq(S) /\ Len(a) = m /\ \A i \in 1 .. m : a[i] = s[k + i - 1]
  <2>1. k \in Int /\ n \in Int /\ k <= n /\ \A i \in k .. n : s[i] \in S
    BY <1>1
  <2>2. /\ a \in Seq(S) /\ Len(a) = (IF k <= n THEN n - k + 1 ELSE 0)
        /\ \A i \in 1 .. n - k + 1 : a[i] = s[k + i - 1]
    BY <2>1, SubSeqProperties
  <2> QED BY <2>1, <2>2
<1>3. c \in Seq(S) /\ Len(c) = k - 1 /\ \A i \in 1 .. k - 1 : c[i] = s[i]
  <2> DEFINE l == k - 1
  <2>1. 1 \in Int /\ l \in Nat /\ \A i \in 1 .. l : s[i] \in S
    BY <1>1
  <2> HIDE DEF l
  <2>2. /\ SubSeq(s, 1, l) \in Seq(S) /\ Len(SubSeq(s, 1, l)) = (IF 1 <= l THEN l - 1 + 1 ELSE 0)
        /\ \A i \in 1 .. l - 1 + 1 : SubSeq(s, 1, l)[i] = s[1 + i - 1]
    <3>1. l \in Int
      BY <2>1
    <3> QED BY <2>1, <3>1, SubSeqProperties
  <2>3. /\ SubSeq(s, 1, l) \in Seq(S) /\ Len(SubSeq(s, 1, l)) = l
        /\ \A i \in 1 .. l : SubSeq(s, 1, l)[i] = s[i]
    BY <2>1, <2>2
  <2> QED BY <2>3 DEF l
<1> HIDE DEF a, c
<1>4. b = [i \in 1 .. k - 1 |-> c[k - 1 - i + 1]]
  BY <1>3 DEF Reverse
<1>5. b \in Seq(S) /\ Len(b) = k - 1 /\ \A i \in 1 .. k - 1 : b[i] = s[k - i]
  <2> DEFINE l == k - 1
  <2>1. l \in Nat
    BY <1>1
  <2>2. \A i \in 1 .. l : k - 1 - i + 1 = k - i /\ k - i \in 1 .. k - 1 /\ k - i \in 1 .. n
    BY <1>1
  <2>3. \A i \in 1 .. l : c[k - 1 - i + 1] = s[k - i] /\ s[k - i] \in S
    BY <1>1, <1>3, <2>2
  <2>4. b = [i \in 1 .. l |-> c[k - 1 - i + 1]]
    BY <1>4
  <2> HIDE DEF l, b
  <2>5. b \in [1 .. l -> S]
    BY <2>3, <2>4
  <2>6. b \in Seq(S) /\ Len(b) = l
    BY <2>1, <2>5, FunIsSeq
  <2> QED BY <2>3, <2>4, <2>6 DEF l
<1> HIDE DEF b
<1>6. /\ a \o b \in Seq(S) /\ Len(a \o b) = Len(a) + Len(b)
      /\ \A i \in 1 .. Len(a) + Len(b) : (a \o b)[i] = IF i <= Len(a) THEN a[i] ELSE b[i - Len(a)]
  BY <1>2, <1>5, ConcatProperties
<1>7. t = a \o b
  BY DEF Turned, a, b, c, n
<1>8. m + (k - 1) = n /\ m \in Nat
  BY <1>1
<1>9. /\ t \in Seq(S) /\ Len(t) = n
      /\ \A i \in 1 .. n : t[i] = IF i <= m THEN a[i] ELSE b[i - m]
  <2> HIDE DEF m, t
  <2> QED BY <1>2, <1>5, <1>6, <1>7, <1>8
<1> HIDE DEF t
<1>10. IsSeq(t) /\ DOMAIN t = 1 .. n
  BY <1>9, SeqFacts, LenProperties
<1>11. ASSUME NEW i \in 1 .. n
       PROVE  t[i] = s[IF i <= n - k + 1 THEN i + k - 1 ELSE n + 1 - i]
  <2>1. CASE i <= m
    <3>1. i \in 1 .. m /\ k + i - 1 = i + k - 1
      BY <1>1, <2>1
    <3> QED BY <1>2, <1>9, <2>1, <3>1
  <2>2. CASE ~ (i <= m)
    <3>1. i - m \in 1 .. k - 1 /\ k - (i - m) = n + 1 - i
      BY <1>1, <2>2
    <3> QED BY <1>5, <1>9, <2>2, <3>1
  <2> QED BY <2>1, <2>2
<1> QED BY <1>1, <1>10, <1>11 DEF t, n

LEMMA SamePages == Served => SamePageInAnyOrder
<1> SUFFICES ASSUME Served, Answered("search"), NEW k \in DOMAIN answer.products
             PROVE  LET turned == SubSeq(answer.products, k, Len(answer.products))
                                  \o Reverse(SubSeq(answer.products, 1, k - 1))
                    IN  /\ SearchProducts(turned, answer.spec, answer.taste)
                           = SearchProducts(answer.products, answer.spec, answer.taste)
                        /\ NearestAlternatives(turned, answer.spec.hard)
                           = NearestAlternatives(answer.products, answer.spec.hard)
  BY DEF SamePageInAnyOrder
<1> DEFINE s == answer.products
           spec == answer.spec
           taste == answer.taste
           n == Len(s)
           t == Turned(s, k)
           at(i) == IF i <= n - k + 1 THEN i + k - 1 ELSE n + 1 - i
<1>1. Executable(s, spec, taste) /\ Distinct(s) /\ DOMAIN spec.hard = DOMAIN NoHard
  BY SearchAnswer
<1>2. IsSeq(s) /\ \A i \in DOMAIN s : Scorable(s[i])
  BY <1>1 DEF Executable
<1> HIDE DEF s, spec, taste
<1>3. /\ IsSeq(t) /\ DOMAIN t = 1 .. n /\ DOMAIN s = 1 .. n /\ n \in Nat /\ k \in 1 .. n
      /\ \A i \in 1 .. n : t[i] = s[at(i)]
  BY <1>2, TurnedFacts DEF s
<1> HIDE DEF t, n
<1>4. \A i \in 1 .. n : at(i) \in 1 .. n
  BY <1>3
<1>5. \A i, j \in 1 .. n : at(i) = at(j) => i = j
  BY <1>3
<1>6. \A j \in 1 .. n : \E i \in 1 .. n : at(i) = j
  <2> TAKE j \in 1 .. n
  <2> DEFINE i == IF j >= k THEN j - k + 1 ELSE n + 1 - j
  <2>1. i \in 1 .. n /\ at(i) = j
    BY <1>3
  <2> HIDE DEF i, at
  <2> QED BY <2>1
<1> HIDE DEF at
<1>7. Executable(t, spec, taste)
  <2>1. \A i \in DOMAIN t : Scorable(t[i])
    BY <1>2, <1>3, <1>4
  <2> QED BY <1>1, <1>3, <2>1 DEF Executable
<1>8. Distinct(t)
  <2>1. \A i, j \in 1 .. n : s[at(i)].id = s[at(j)].id => i = j
    BY <1>1, <1>3, <1>4, <1>5 DEF Distinct
  <2> QED BY <1>3, <2>1 DEF Distinct
<1>9. Range(t) = Range(s)
  <2>1. \A x : x \in Range(t) => x \in Range(s)
    BY <1>3, <1>4 DEF Range
  <2>2. \A x : x \in Range(s) => x \in Range(t)
    <3> TAKE x
    <3> SUFFICES ASSUME NEW j \in 1 .. n, x = s[j] PROVE x \in Range(t)
      BY <1>3 DEF Range
    <3>1. PICK i \in 1 .. n : at(i) = j
      BY <1>6
    <3>2. t[i] = x /\ i \in DOMAIN t
      BY <1>3, <3>1
    <3> QED BY <3>2 DEF Range
  <2> QED BY <2>1, <2>2
<1>10. SearchProducts(t, spec, taste) = SearchProducts(s, spec, taste)
  BY <1>1, <1>7, <1>8, <1>9, AnyOrder
<1>11. NearestAlternatives(t, spec.hard) = NearestAlternatives(s, spec.hard)
  <2>1. IsSeq(t) /\ \A i \in DOMAIN t : Scorable(t[i])
    BY <1>7 DEF Executable
  <2> QED BY <1>1, <1>2, <1>8, <1>9, <2>1, AlternativesAnyOrder
<1> QED BY <1>10, <1>11 DEF t, Turned, s, spec, taste

-----------------------------------------------------------------------------
(* Pages                                                                   *)

\* A window on a sorted sequence, with one member beyond it, holds the
\* members of the ranks it spans, and shows whether there are more.
WindowOn(w, R, S, offset, limit) ==
    /\ IsSeq(w) /\ Len(w) \in Nat /\ DOMAIN w = 1 .. Len(w)
    /\ \A i \in 1 .. Len(w) : w[i] \in S
    /\ \A x \in S : (offset <= RankIn(R, S, x) /\ RankIn(R, S, x) < offset + limit)
                    <=> \E i \in 1 .. MinOf(Len(w), limit) : w[i] = x
    /\ Len(w) > limit <=> \E x \in S : RankIn(R, S, x) >= offset + limit
RankedOn(f, R, S) ==
    /\ OrderedBy(R, S) /\ IsSeq(f) /\ Len(f) = Cardinality(S)
    /\ \A i \in 1 .. Len(f) : f[i] \in S /\ RankIn(R, S, f[i]) = i - 1
    /\ \A x \in S : \E i \in 1 .. Len(f) : f[i] = x
PageOf(f, offset, limit) == SubSeq(f, offset + 1, MinOf(Len(f), offset + limit + 1))

LEMMA WindowFacts ==
    ASSUME NEW S, IsFiniteSet(S), NEW R, NEW f, RankedOn(f, R, S),
           NEW limit \in Nat, limit > 0, NEW offset \in Nat
    PROVE  WindowOn(PageOf(f, offset, limit), R, S, offset, limit)
<1>0. /\ OrderedBy(R, S) /\ IsSeq(f) /\ Len(f) = Cardinality(S)
      /\ \A i \in 1 .. Len(f) : f[i] \in S /\ RankIn(R, S, f[i]) = i - 1
      /\ \A x \in S : \E i \in 1 .. Len(f) : f[i] = x
  BY DEF RankedOn
<1> DEFINE n == Len(f)
           first == offset + 1
           last == MinOf(n, offset + limit + 1)
           w == PageOf(f, offset, limit)
           m == IF first <= last THEN last - first + 1 ELSE 0
<1>1. n \in Nat /\ n = Cardinality(S)
  BY <1>0, FS_CardinalityType
<1>2. \A i \in 1 .. n : RankIn(R, S, f[i]) = i - 1
  BY <1>0
<1>w. w = SubSeq(f, first, last)
  BY DEF PageOf
<1> HIDE DEF w
<1>3. first \in Int /\ last \in Int /\ last <= n /\ last <= offset + limit + 1
      /\ (last = n \/ last = offset + limit + 1)
  BY <1>1 DEF MinOf
<1>4. w \in Seq(S) /\ Len(w) = m /\ \A i \in 1 .. last - first + 1 : w[i] = f[first + i - 1]
  <2>1. \A i \in first .. last : f[i] \in S
    BY <1>0, <1>1, <1>3
  <2>2. w = SubSeq(f, first, last)
    BY <1>w
  <2> HIDE DEF first, last
  <2>3. first \in Int /\ last \in Int
    BY <1>3
  <2>4. /\ SubSeq(f, first, last) \in Seq(S)
        /\ Len(SubSeq(f, first, last)) = (IF first <= last THEN last - first + 1 ELSE 0)
        /\ \A i \in 1 .. last - first + 1 : SubSeq(f, first, last)[i] = f[first + i - 1]
    BY <2>1, <2>3, SubSeqProperties
  <2> QED BY <2>2, <2>4
<1>5. m \in Nat
  BY <1>1, <1>3
<1>6. \A i \in 1 .. m : w[i] = f[offset + i] /\ offset + i \in 1 .. n /\ i <= limit + 1
  <2> HIDE DEF last
  <2> TAKE i \in 1 .. m
  <2>1. i \in 1 .. last - first + 1 /\ first + i - 1 = offset + i /\ offset + i \in 1 .. n
    BY <1>1, <1>3
  <2>2. i <= limit + 1
    BY <1>1, <1>3
  <2> QED BY <1>4, <2>1, <2>2
<1>7. IsSeq(w) /\ Len(w) \in Nat /\ DOMAIN w = 1 .. Len(w)
  BY <1>4, SeqFacts, LenProperties
<1>8. \A j \in 1 .. n : j > offset /\ j <= offset + limit + 1 => j - offset \in 1 .. m
  <2> HIDE DEF last
  <2> TAKE j \in 1 .. n
  <2> QED BY <1>1, <1>3
<1>9. \A x \in S : \E j \in 1 .. n : f[j] = x /\ RankIn(R, S, x) = j - 1
  BY <1>0, <1>2
<1> HIDE DEF n, m, first, last
<1>10. ASSUME NEW x \in S
       PROVE  (offset <= RankIn(R, S, x) /\ RankIn(R, S, x) < offset + limit)
              <=> \E i \in 1 .. MinOf(m, limit) : w[i] = x
  <2> DEFINE rank == RankIn(R, S, x)
  <2>1. ASSUME offset <= rank, rank < offset + limit
        PROVE  \E i \in 1 .. MinOf(m, limit) : w[i] = x
    <3>1. PICK j \in 1 .. n : f[j] = x /\ rank = j - 1
      BY <1>9
    <3> DEFINE i == j - offset
    <3> HIDE DEF rank
    <3>2. i \in 1 .. m
      BY <1>1, <1>8, <2>1, <3>1
    <3>3. i <= limit /\ offset + i = j /\ i \in Int
      BY <1>1, <2>1, <3>1
    <3> HIDE DEF i
    <3>4. w[i] = x
      BY <1>6, <3>1, <3>2, <3>3
    <3>5. i \in 1 .. MinOf(m, limit)
      <4> HIDE DEF m
      <4> QED BY <1>5, <3>2, <3>3 DEF MinOf
    <3> QED BY <3>4, <3>5
  <2>2. ASSUME NEW i \in 1 .. MinOf(m, limit), w[i] = x
        PROVE  offset <= rank /\ rank < offset + limit
    <3>1. i \in 1 .. m /\ i <= limit /\ i \in Int
      BY <1>5 DEF MinOf
    <3>2. f[offset + i] = x /\ offset + i \in 1 .. n
      BY <1>6, <2>2, <3>1
    <3> DEFINE k == offset + i
    <3>3. rank = k - 1
      <4> HIDE DEF k
      <4> QED BY <1>2, <3>2 DEF k
    <3> HIDE DEF rank
    <3> QED BY <3>1, <3>3
  <2> QED BY <2>1, <2>2
<1>11. m > limit <=> \E x \in S : RankIn(R, S, x) >= offset + limit
  <2>1. ASSUME m > limit PROVE \E x \in S : RankIn(R, S, x) >= offset + limit
    <3> DEFINE i == limit + 1
               k == offset + i
    <3>1. i \in 1 .. m
      BY <1>5, <2>1
    <3> HIDE DEF i
    <3>2. k \in 1 .. n
      BY <1>6, <3>1
    <3>3. k - 1 >= offset + limit
      BY DEF i
    <3> HIDE DEF k
    <3>4. f[k] \in S /\ RankIn(R, S, f[k]) = k - 1
      BY <1>0, <1>2, <3>2 DEF n
    <3> QED BY <3>3, <3>4
  <2>2. ASSUME NEW x \in S, RankIn(R, S, x) >= offset + limit PROVE m > limit
    <3>1. PICK j \in 1 .. n : RankIn(R, S, x) = j - 1
      BY <1>9
    <3> DEFINE k == offset + limit + 1
    <3>2. k \in 1 .. n /\ k - offset = limit + 1 /\ k > offset
      BY <1>1, <2>2, <3>1
    <3>3. k - offset \in 1 .. m
      <4>1. k <= offset + limit + 1
        OBVIOUS
      <4> HIDE DEF k
      <4> QED BY <1>8, <3>2, <4>1
    <3> HIDE DEF k
    <3> QED BY <1>5, <3>2, <3>3
  <2> QED BY <2>1, <2>2
<1>12. Len(w) = m
  BY <1>4
<1>13. \A i \in 1 .. m : w[i] \in S
  BY <1>0, <1>6 DEF n
<1> HIDE DEF m
<1>14. WindowOn(w, R, S, offset, limit)
  BY <1>7, <1>10, <1>11, <1>12, <1>13 DEF WindowOn
<1> QED BY <1>14 DEF w

\* Rows in the order of their ids stand at their ranks.
LEMMA RisingRanks ==
    ASSUME NEW Q, IsFiniteSet(Q), \A r \in Q : r.id \in Int,
           \A r, q \in Q : r.id = q.id => r = q,
           NEW f, f = InOrder(Q, ById)
    PROVE  RankedOn(f, Rising(Q), Q)
<1> DEFINE R == Rising(Q)
           n == Cardinality(Q)
<1>1. ASSUME NEW x \in Q, NEW y \in Q PROVE <<x, y>> \in R <=> x.id < y.id
  BY DEF Rising
<1>2. OrderedBy(R, Q)
  <2>1. \A x, y, z \in Q : x.id \in Int /\ y.id \in Int /\ z.id \in Int
    OBVIOUS
  <2>2. ASSUME NEW x \in Q PROVE <<x, x>> \notin R
    BY <1>1, <2>1
  <2>3. ASSUME NEW x \in Q, NEW y \in Q PROVE x = y \/ <<x, y>> \in R \/ <<y, x>> \in R
    <3>1. x.id \in Int /\ y.id \in Int /\ (x.id = y.id => x = y)
      OBVIOUS
    <3> QED BY <1>1, <3>1
  <2>4. ASSUME NEW x \in Q, NEW y \in Q, NEW z \in Q, <<x, y>> \in R, <<y, z>> \in R
        PROVE  <<x, z>> \in R
    BY <1>1, <2>1, <2>4
  <2> HIDE DEF R
  <2> QED BY <2>2, <2>3, <2>4 DEF OrderedBy
<1>3. /\ n \in Nat /\ f \in Seq(Q) /\ IsSeq(f) /\ Len(f) = n /\ Range(f) = Q
      /\ \A i, j \in 1 .. n : f[i].id < f[j].id <=> i < j
  BY IdOrder
<1>4. /\ \A i \in 1 .. n : f[i] \in Q
      /\ \A x \in Q : \E i \in 1 .. n : f[i] = x
  BY <1>3, SeqFacts
<1>5. \A i, j \in 1 .. n : i < j => <<f[j], f[i]>> \notin R
  <2> TAKE i, j \in 1 .. n
  <2>1. f[i] \in Q /\ f[j] \in Q
    BY <1>4
  <2>2. i < j => ~ (j < i)
    BY <1>3
  <2> HIDE DEF R
  <2> QED BY <1>1, <1>3, <2>1, <2>2
<1>6. \A i \in 1 .. n : RankIn(R, Q, f[i]) = i - 1
  <2> HIDE DEF R
  <2>1. n \in Nat /\ n = Cardinality(Q)
    BY <1>3
  <2> HIDE DEF n
  <2> QED BY <1>2, <1>4, <1>5, <2>1, SortedRanks
<1> HIDE DEF R
<1>7. RankedOn(f, R, Q)
  BY <1>2, <1>3, <1>4, <1>6 DEF RankedOn
<1> QED BY <1>7 DEF R

\* The rows that are for sale, in the order of a page.
Sold == {r.id : r \in {q \in shop.rows : IsRecommendationEligible(q)}}
Before(id) == Cardinality({o \in Sold : o < id})

LEMMA SoldFacts ==
    ASSUME shop \in Shops,
           NEW Q, Q = CatalogueQuery(shop.rows)
    PROVE  /\ \A x \in Q : x.id \in Sold /\ IsRecommendationEligible(x)
           /\ \A id \in Sold : \E x \in Q : x.id = id
           /\ \A x \in Q : RankIn(Rising(Q), Q, x) = Before(x.id)
<1> DEFINE sold == Sold
<1>1. /\ IsFiniteSet(Q) /\ \A r \in Q : r.id \in Int
      /\ \A r, q \in Q : r.id = q.id => r = q
  BY QueryRows
<1> HIDE DEF sold
<1>2. ASSUME NEW x \in Q PROVE x.id \in sold /\ IsRecommendationEligible(x)
  <2>1. PICK q \in shop.rows : IsRecommendationEligible(q) /\ x = Cut(q)
    BY QueryRow
  <2>2. x.id = q.id /\ IsRecommendationEligible(x)
    BY <2>1, CutFacts
  <2> QED BY <2>1, <2>2 DEF Sold, sold
<1>3. ASSUME NEW id \in sold PROVE \E x \in Q : x.id = id
  <2>1. PICK q \in shop.rows : IsRecommendationEligible(q) /\ id = q.id
    BY DEF Sold, sold
  <2>2. Cut(q) \in Q
    BY <2>1 DEF CatalogueQuery, Cut
  <2>3. Cut(q).id = id
    BY <2>1, CutFacts
  <2> QED BY <2>2, <2>3
<1>4. ASSUME NEW x \in Q PROVE RankIn(Rising(Q), Q, x) = Cardinality({o \in sold : o < x.id})
  <2> DEFINE B == {y \in Q : y.id < x.id}
             C == {o \in sold : o < x.id}
             f == [y \in B |-> y.id]
  <2>1. {y \in Q : <<y, x>> \in Rising(Q)} = B
    BY DEF Rising
  <2>2. IsFiniteSet(B)
    <3>1. B \in SUBSET Q
      OBVIOUS
    <3> HIDE DEF B
    <3> QED BY <1>1, <3>1, FS_Subset
  <2>3. f \in [B -> C]
    BY <1>2
  <2>4. \A y, z \in B : f[y] = f[z] => y = z
    BY <1>1
  <2>5. \A o \in C : \E y \in B : f[y] = o
    <3> TAKE o \in C
    <3>1. PICK y \in Q : y.id = o
      BY <1>3
    <3>2. y \in B /\ f[y] = o
      BY <3>1
    <3> HIDE DEF B, f
    <3> QED BY <3>2
  <2> HIDE DEF B, C, f
  <2>6. Cardinality(C) = Cardinality(B)
    BY <2>2, <2>3, <2>4, <2>5, SameCount
  <2> QED BY <2>1, <2>6 DEF RankIn, C
<1> QED BY <1>2, <1>3, <1>4 DEF Before, sold

\* What the catalogue query returns for a page.
ListedOn(w, Q, offset, limit) ==
    /\ IsSeq(w) /\ Len(w) \in Nat /\ DOMAIN w = 1 .. Len(w)
    /\ \A i \in 1 .. Len(w) : w[i] \in Q
    /\ \A x \in Q : (offset <= Before(x.id) /\ Before(x.id) < offset + limit)
                    <=> \E i \in 1 .. MinOf(Len(w), limit) : w[i] = x
    /\ Len(w) > limit <=> \E x \in Q : Before(x.id) >= offset + limit

LEMMA ListedFacts ==
    ASSUME shop \in Shops, NEW limit \in Nat, limit > 0, NEW offset \in Nat,
           NEW Q, Q = CatalogueQuery(shop.rows)
    PROVE  ListedOn(ListProducts(shop.rows, limit, offset), Q, offset, limit)
<1> DEFINE f == InOrder(Q, ById)
           R == Rising(Q)
           w == PageOf(f, offset, limit)
<1>1. /\ IsFiniteSet(Q) /\ \A r \in Q : r.id \in Int
      /\ \A r, q \in Q : r.id = q.id => r = q
  BY QueryRows
<1>2. ListProducts(shop.rows, limit, offset) = w
  BY DEF ListProducts, PageOf, MinOf
<1>3. RankedOn(f, R, Q)
  <2>1. f = InOrder(Q, ById)
    OBVIOUS
  <2> HIDE DEF f
  <2> QED BY <1>1, <2>1, RisingRanks
<1>5. \A x \in Q : RankIn(R, Q, x) = Before(x.id)
  BY SoldFacts
<1> HIDE DEF R, f
<1>6. WindowOn(w, R, Q, offset, limit)
  BY <1>1, <1>3, WindowFacts
<1> HIDE DEF w
<1>7. ListedOn(w, Q, offset, limit)
  BY <1>5, <1>6 DEF WindowOn, ListedOn
<1> QED BY <1>2, <1>7

\* A page of the catalogue.
LEMMA CataloguePages ==
    ASSUME Served, Answered("page")
    PROVE  /\ \A id : id \in {answer.items[i].id : i \in DOMAIN answer.items}
                      <=> /\ id \in Sold /\ request.offset <= Before(id)
                          /\ Before(id) < request.offset + request.limit
           /\ answer.has_more = \E id \in Sold : Before(id) >= request.offset + request.limit
<1> DEFINE Q == CatalogueQuery(shop.rows)
           limit == request.limit
           offset == request.offset
           w == ListProducts(shop.rows, limit, offset)
           kept == Passing(w, IsRecommendationEligible)
           items == [i \in 1 .. (IF Len(kept) < limit THEN Len(kept) ELSE limit) |->
                        CHOOSE r \in BuildProductResponse(kept[i]) : TRUE]
<1>1. /\ shop \in Shops /\ limit \in Nat \ {0} /\ offset \in Nat
      /\ answer = Joined([status |-> "ok"], BuildProductListResponse(w, limit))
  BY RequestAssumption DEF Served, Answered
<1>5. /\ \A x \in Q : x.id \in Sold /\ IsRecommendationEligible(x)
      /\ \A id \in Sold : \E x \in Q : x.id = id
  <2>1. Q = CatalogueQuery(shop.rows)
    OBVIOUS
  <2> HIDE DEF Q
  <2> QED BY <1>1, <2>1, SoldFacts
<1>6. answer.items = items /\ answer.has_more = (Len(kept) > limit)
  <2> DEFINE more == Len(kept) > limit
             page == [items |-> items, has_more |-> more]
  <2>1. BuildProductListResponse(w, limit) = page
    BY DEF BuildProductListResponse
  <2> HIDE DEF items, more
  <2>2. /\ DOMAIN [status |-> "ok"] = {"status"}
        /\ DOMAIN page = {"items", "has_more"} /\ page.items = items /\ page.has_more = more
    OBVIOUS
  <2> HIDE DEF page
  <2>3. answer = Joined([status |-> "ok"], page)
    BY <1>1, <2>1
  <2>4. answer.items = items /\ answer.has_more = more
    BY <2>2, <2>3 DEF Joined
  <2> QED BY <2>4 DEF more
<1>2. Q = CatalogueQuery(shop.rows)
  OBVIOUS
<1> HIDE DEF Q, limit, offset
<1> DEFINE v == w
<1> HIDE DEF w
<1>7. v = w
  BY DEF v
<1> HIDE DEF v
<1>8. /\ IsSeq(v) /\ Len(v) \in Nat /\ DOMAIN v = 1 .. Len(v)
      /\ \A i \in 1 .. Len(v) : v[i] \in Q
      /\ \A x \in Q : (offset <= Before(x.id) /\ Before(x.id) < offset + limit)
                      <=> \E i \in 1 .. MinOf(Len(v), limit) : v[i] = x
      /\ Len(v) > limit <=> \E x \in Q : Before(x.id) >= offset + limit
  <2>1. v = ListProducts(shop.rows, limit, offset)
    BY <1>7 DEF w
  <2>2. limit \in Nat /\ limit > 0
    BY <1>1
  <2>3. ListedOn(ListProducts(shop.rows, limit, offset), Q, offset, limit)
    BY <1>1, <1>2, <2>2, ListedFacts
  <2> QED BY <2>1, <2>3 DEF ListedOn
<1>9. kept = v
  <2> DEFINE K == {i \in DOMAIN w : IsRecommendationEligible(w[i])}
  <2>1. kept = Taken(w, K)
    BY DEF Passing, Taken
  <2>2. K = DOMAIN v
    BY <1>5, <1>7, <1>8
  <2> HIDE DEF K
  <2> QED BY <1>7, <1>8, <2>1, <2>2, TakenAll
<1> HIDE DEF kept
<1>10. DOMAIN items = 1 .. MinOf(Len(v), limit)
  BY <1>9 DEF MinOf
<1>11. \A i \in DOMAIN items : items[i].id = v[i].id /\ v[i] \in Q
  <2> TAKE i \in DOMAIN items
  <2>1. i \in 1 .. Len(v)
    BY <1>1, <1>8, <1>10 DEF MinOf
  <2>2. v[i] \in Q /\ IsRecommendationEligible(v[i])
    BY <1>5, <1>8, <2>1
  <2> DEFINE row == v[i]
             shown == [id |-> row.id, price |-> row.price, discount |-> row.discount,
                       colours |-> {c \in row.colours : c.stock > 0}, attributes |-> Confirmed(row)]
  <2>3. BuildProductResponse(row) = {shown}
    BY <2>2 DEF BuildProductResponse
  <2>4. shown.id = row.id
    OBVIOUS
  <2>5. items[i] = CHOOSE r \in BuildProductResponse(row) : TRUE
    BY <1>9
  <2> HIDE DEF shown, row, items
  <2>6. items[i] = shown
    BY <2>3, <2>5
  <2> QED BY <2>2, <2>4, <2>6 DEF row
<1> HIDE DEF items
<1>12. ASSUME NEW id
       PROVE  id \in {answer.items[i].id : i \in DOMAIN answer.items}
              <=> id \in Sold /\ offset <= Before(id) /\ Before(id) < offset + limit
  <2>1. id \in {answer.items[i].id : i \in DOMAIN answer.items}
        <=> \E i \in 1 .. MinOf(Len(v), limit) : v[i].id = id
    BY <1>6, <1>10, <1>11
  <2>2. ASSUME NEW i \in 1 .. MinOf(Len(v), limit), v[i].id = id
        PROVE  id \in Sold /\ offset <= Before(id) /\ Before(id) < offset + limit
    <3>1. v[i] \in Q
      BY <1>10, <1>11
    <3>2. offset <= Before(v[i].id) /\ Before(v[i].id) < offset + limit
      BY <1>8, <3>1
    <3> QED BY <1>5, <2>2, <3>1, <3>2
  <2>3. ASSUME id \in Sold, offset <= Before(id), Before(id) < offset + limit
        PROVE  \E i \in 1 .. MinOf(Len(v), limit) : v[i].id = id
    <3>1. PICK x \in Q : x.id = id
      BY <1>5, <2>3
    <3>2. Before(x.id) = Before(id)
      BY <3>1
    <3>3. \E i \in 1 .. MinOf(Len(v), limit) : v[i] = x
      BY <1>8, <2>3, <3>2
    <3> QED BY <3>1, <3>3
  <2> QED BY <2>1, <2>2, <2>3
<1>13. (\E x \in Q : Before(x.id) >= offset + limit) <=> (\E id \in Sold : Before(id) >= offset + limit)
  <2>1. ASSUME NEW x \in Q, Before(x.id) >= offset + limit
        PROVE  \E id \in Sold : Before(id) >= offset + limit
    BY <1>5, <2>1
  <2>2. ASSUME NEW id \in Sold, Before(id) >= offset + limit
        PROVE  \E x \in Q : Before(x.id) >= offset + limit
    BY <1>5, <2>2
  <2> QED BY <2>1, <2>2
<1>14. answer.has_more = \E id \in Sold : Before(id) >= offset + limit
  <2> DEFINE E == \E id \in Sold : Before(id) >= offset + limit
             G == Len(v) > limit
  <2>1. answer.has_more = G
    BY <1>6, <1>9
  <2>2. G <=> E
    BY <1>8, <1>13
  <2>3. G \in BOOLEAN /\ E \in BOOLEAN
    OBVIOUS
  <2> HIDE DEF E, G
  <2> QED BY <2>1, <2>2, <2>3 DEF E
<1> QED BY <1>12, <1>14 DEF limit, offset

\* Reviews, newest first and then by their ids.
Newer(A) == {p \in A \X A : p[1].at > p[2].at \/ (p[1].at = p[2].at /\ p[1].id < p[2].id)}

LEMMA NewestRanks ==
    ASSUME NEW A, IsFiniteSet(A), \A r \in A : r.id \in Int /\ r.at \in Int,
           \A r, q \in A : r.id = q.id => r = q
    PROVE  /\ RankedOn(InOrder(A, LAMBDA r, q : r.at > q.at \/ (r.at = q.at /\ r.id < q.id)), Newer(A), A)
           /\ \A x \in A : RankIn(Newer(A), A, x) =
                               Cardinality({y \in A : y.at > x.at \/ (y.at = x.at /\ y.id < x.id)})
<1> DEFINE R == Newer(A)
           k == Cardinality(A)
           q == InOrder(A, LAMBDA r, s : r.at > s.at \/ (r.at = s.at /\ r.id < s.id))
           before(x) == {y \in A : y.at > x.at \/ (y.at = x.at /\ y.id < x.id)}
           at(n) == CHOOSE x \in A : Cardinality(before(x)) = n - 1
<1>1. k \in Nat
  BY FS_CardinalityType
<1>2. ASSUME NEW x \in A PROVE x.id \in Int /\ x.at \in Int
  OBVIOUS
<1>3. ASSUME NEW x \in A, NEW y \in A
      PROVE  <<x, y>> \in R <=> (x.at > y.at \/ (x.at = y.at /\ x.id < y.id))
  BY DEF Newer
<1>4. OrderedBy(R, A)
  <2>1. ASSUME NEW x \in A PROVE <<x, x>> \notin R
    BY <1>2, <1>3
  <2>2. ASSUME NEW x \in A, NEW y \in A PROVE x = y \/ <<x, y>> \in R \/ <<y, x>> \in R
    <3>1. x.id = y.id => x = y
      OBVIOUS
    <3> QED BY <1>2, <1>3, <3>1
  <2>3. ASSUME NEW x \in A, NEW y \in A, NEW z \in A, <<x, y>> \in R, <<y, z>> \in R
        PROVE  <<x, z>> \in R
    BY <1>2, <1>3, <2>3
  <2> HIDE DEF R
  <2> QED BY <2>1, <2>2, <2>3 DEF OrderedBy
<1>5. ASSUME NEW x \in A PROVE RankIn(R, A, x) = Cardinality(before(x))
  <2>1. {y \in A : <<y, x>> \in R} = before(x)
    BY <1>3
  <2> QED BY <2>1 DEF RankIn
<1>6. q = [n \in 1 .. k |-> at(n)]
  BY DEF InOrder
<1>7. ASSUME NEW n \in 1 .. k PROVE q[n] \in A /\ RankIn(R, A, q[n]) = n - 1
  <2>1. n - 1 \in 0 .. k - 1
    <3> HIDE DEF k
    <3> QED BY <1>1
  <2>2. \E x \in A : RankIn(R, A, x) = n - 1
    <3>1. \A j \in 0 .. k - 1 : \E x \in A : RankIn(R, A, x) = j
      <4> HIDE DEF R
      <4> QED BY <1>1, <1>4, Ranks
    <3> HIDE DEF R, k
    <3> QED BY <2>1, <3>1
  <2> HIDE DEF R, before
  <2>3. \E x \in A : Cardinality(before(x)) = n - 1
    BY <2>2, <1>5
  <2>4. q[n] = at(n)
    <3> HIDE DEF q, at, k
    <3> QED BY <1>6
  <2> HIDE DEF q
  <2>5. q[n] \in A /\ Cardinality(before(q[n])) = n - 1
    BY <2>3, <2>4
  <2> QED BY <2>5, <1>5
<1>8. q = [n \in 1 .. k |-> q[n]]
  <2> HIDE DEF q, at
  <2> QED BY <1>6
<1>9. \A x \in A : RankIn(R, A, x) = Cardinality(before(x))
  BY <1>5
<1> HIDE DEF q, R
<1>10. /\ q \in Seq(A) /\ IsSeq(q) /\ Len(q) = k /\ Range(q) = A
       /\ \A i, j \in 1 .. k : <<q[i], q[j]>> \in R <=> i < j
  BY <1>1, <1>4, <1>7, <1>8, ByRank
<1>11. \A x \in A : \E i \in 1 .. k : q[i] = x
  BY <1>10, SeqFacts
<1>12. RankedOn(q, R, A)
  BY <1>4, <1>7, <1>10, <1>11 DEF RankedOn
<1> QED BY <1>9, <1>12 DEF q, R

\* What is said of the reviews of a target.
About == {r \in shop.reviews : r.targets = request.targets}
Placed(r) == Cardinality({q \in About : q.at > r.at \/ (q.at = r.at /\ q.id < r.id)})

\* The first of a sequence.
LEMMA FirstOf ==
    ASSUME NEW s, IsSeq(s), NEW n \in Nat
    PROVE  /\ DOMAIN SubSeq(s, 1, MinOf(Len(s), n)) = 1 .. MinOf(Len(s), n)
           /\ \A i \in 1 .. MinOf(Len(s), n) : SubSeq(s, 1, MinOf(Len(s), n))[i] = s[i]
<1> DEFINE m == MinOf(Len(s), n)
<1>1. Len(s) \in Nat /\ DOMAIN s = 1 .. Len(s) /\ s \in Seq(Range(s))
  BY LenProperties DEF IsSeq
<1>2. m \in Int /\ m >= 0 /\ m <= Len(s)
  BY <1>1 DEF MinOf
<1> HIDE DEF m
<1>3. \A i \in 1 .. m : s[i] \in Range(s)
  BY <1>1, <1>2 DEF Range
<1>4. /\ SubSeq(s, 1, m) \in Seq(Range(s))
      /\ Len(SubSeq(s, 1, m)) = (IF 1 <= m THEN m - 1 + 1 ELSE 0)
      /\ \A i \in 1 .. m - 1 + 1 : SubSeq(s, 1, m)[i] = s[1 + i - 1]
  BY <1>2, <1>3, SubSeqProperties
<1>5. Len(SubSeq(s, 1, m)) = m
  BY <1>2, <1>4
<1>6. DOMAIN SubSeq(s, 1, m) = 1 .. m
  BY <1>4, <1>5, LenProperties
<1>7. \A i \in 1 .. m : SubSeq(s, 1, m)[i] = s[i]
  <2> TAKE i \in 1 .. m
  <2>1. i \in 1 .. m - 1 + 1 /\ 1 + i - 1 = i
    BY <1>2
  <2> QED BY <1>4, <2>1
<1> QED BY <1>6, <1>7 DEF m

\* A page of reviews.
LEMMA ReviewPages ==
    ASSUME Served, Answered("reviews")
    PROVE  /\ \A id : id \in {answer.items[i].id : i \in DOMAIN answer.items}
                      <=> \E r \in About : /\ r.id = id /\ request.offset <= Placed(r)
                                           /\ Placed(r) < request.offset + request.limit
           /\ answer.has_more = \E r \in About : Placed(r) >= request.offset + request.limit
<1> DEFINE A == About
           limit == request.limit
           offset == request.offset
           targets == request.targets
           f == InOrder(A, LAMBDA r, q : r.at > q.at \/ (r.at = q.at /\ r.id < q.id))
           R == Newer(A)
           w == PageOf(f, offset, limit)
           kept == AboutTargets(targets, limit, offset)
<1>1. /\ limit \in Nat /\ limit > 0 /\ offset \in Nat /\ IsFiniteSet(targets) /\ Cardinality(targets) = 1
      /\ shop \in Shops
      /\ answer = [status |-> "ok", items |-> SubSeq(kept, 1, MinOf(Len(kept), limit)),
                   has_more |-> Len(kept) > limit]
  <2>1. request \in Requests /\ request.kind = "reviews" /\ shop \in Shops
    BY DEF Served, Answered
  <2>2. limit \in Nat \ {0} /\ offset \in Nat /\ IsFiniteSet(targets)
    BY <2>1, RequestAssumption
  <2>3. /\ Cardinality(targets) = 1
        /\ answer = [status |-> "ok", items |-> SubSeq(kept, 1, MinOf(Len(kept), limit)),
                     has_more |-> Len(kept) > limit]
    <3> HIDE DEF kept
    <3> QED BY DEF Served, kept
  <2> HIDE DEF limit
  <2>4. limit \in Nat /\ limit > 0
    BY <2>2
  <2> QED BY <2>1, <2>2, <2>3, <2>4 DEF limit
<1>2. /\ IsFiniteSet(A) /\ \A r \in A : r.id \in Int /\ r.at \in Int
      /\ \A r, q \in A : r.id = q.id => r = q
  <2>1. /\ IsFiniteSet(shop.reviews) /\ \A r \in shop.reviews : r.id \in Int /\ r.at \in Int
        /\ \A r, q \in shop.reviews : r.id = q.id => r = q
    BY <1>1, ShopAssumption
  <2>2. A \in SUBSET shop.reviews
    BY DEF About
  <2> HIDE DEF A
  <2> QED BY <2>1, <2>2, FS_Subset
<1>3. {r \in shop.reviews : targets \subseteq r.targets} = A
  <2>1. PICK t : targets = {t}
    BY <1>1, FS_Singleton
  <2>2. ASSUME NEW r \in shop.reviews PROVE targets \subseteq r.targets <=> r.targets = targets
    <3>1. IsFiniteSet(r.targets) /\ Cardinality(r.targets) = 1
      BY <1>1, ShopAssumption
    <3>2. PICK u : r.targets = {u}
      BY <3>1, FS_Singleton
    <3> HIDE DEF targets
    <3> QED BY <2>1, <3>2
  <2> QED BY <2>2 DEF About
<1>4. RankedOn(f, R, A) /\ \A x \in A : RankIn(R, A, x) = Placed(x)
  <2>1. /\ RankedOn(InOrder(A, LAMBDA r, q : r.at > q.at \/ (r.at = q.at /\ r.id < q.id)), Newer(A), A)
        /\ \A x \in A : RankIn(Newer(A), A, x) =
                            Cardinality({y \in A : y.at > x.at \/ (y.at = x.at /\ y.id < x.id)})
    BY <1>2, NewestRanks
  <2> QED BY <2>1 DEF Placed
<1>5. Newest(targets) = f
  <2>1. Newest(targets) = InOrder({r \in shop.reviews : targets \subseteq r.targets},
                                  LAMBDA r, q : r.at > q.at \/ (r.at = q.at /\ r.id < q.id))
    BY DEF Newest
  <2> HIDE DEF targets
  <2> QED BY <1>3, <2>1
<1> HIDE DEF R
<1> DEFINE g == f
<1> HIDE DEF f
<1>6. WindowOn(PageOf(g, offset, limit), R, A, offset, limit)
  <2>1. RankedOn(g, R, A)
    BY <1>4
  <2> HIDE DEF g, offset, limit, A
  <2> QED BY <1>1, <1>2, <2>1, WindowFacts
<1> DEFINE v == PageOf(g, offset, limit)
<1>7. /\ IsSeq(v) /\ Len(v) \in Nat /\ DOMAIN v = 1 .. Len(v)
      /\ \A i \in 1 .. Len(v) : v[i] \in A
      /\ \A x \in A : (offset <= Placed(x) /\ Placed(x) < offset + limit)
                      <=> \E i \in 1 .. MinOf(Len(v), limit) : v[i] = x
      /\ Len(v) > limit <=> \E x \in A : Placed(x) >= offset + limit
  <2>1. WindowOn(v, R, A, offset, limit)
    BY <1>6
  <2> HIDE DEF v, A, offset, limit
  <2> QED BY <1>4, <2>1 DEF WindowOn
<1>8. kept = v
  <2> DEFINE K == {i \in DOMAIN v : v[i].targets = targets}
  <2>1. kept = Taken(v, K)
    BY <1>5 DEF AboutTargets, Passing, Taken, PageOf
  <2>2. K = DOMAIN v
    <3>1. \A x \in A : x.targets = targets
      BY DEF About
    <3> HIDE DEF v, A, targets
    <3> QED BY <1>7, <3>1
  <2> HIDE DEF K, v
  <2> QED BY <1>7, <2>1, <2>2, TakenAll
<1> HIDE DEF kept, v
<1> DEFINE items == SubSeq(v, 1, MinOf(Len(v), limit))
<1>9. answer.items = items /\ answer.has_more = (Len(v) > limit)
  BY <1>1, <1>8
<1>10. /\ DOMAIN items = 1 .. MinOf(Len(v), limit)
       /\ \A i \in 1 .. MinOf(Len(v), limit) : items[i] = v[i]
  BY <1>1, <1>7, FirstOf
<1> HIDE DEF items
<1>11. \A i \in 1 .. MinOf(Len(v), limit) : v[i] \in A
  <2> HIDE DEF A, limit
  <2> QED BY <1>1, <1>7 DEF MinOf
<1>12. ASSUME NEW id
       PROVE  id \in {answer.items[i].id : i \in DOMAIN answer.items}
              <=> \E r \in A : r.id = id /\ offset <= Placed(r) /\ Placed(r) < offset + limit
  <2> HIDE DEF A, offset, limit
  <2>1. id \in {answer.items[i].id : i \in DOMAIN answer.items}
        <=> \E i \in 1 .. MinOf(Len(v), limit) : v[i].id = id
    BY <1>9, <1>10
  <2> QED BY <1>7, <1>11, <2>1
<1>13. answer.has_more = \E r \in A : Placed(r) >= offset + limit
  <2> DEFINE E == \E r \in A : Placed(r) >= offset + limit
             G == Len(v) > limit
  <2>1. answer.has_more = G
    BY <1>9
  <2>2. G <=> E
    BY <1>7
  <2>3. G \in BOOLEAN /\ E \in BOOLEAN
    OBVIOUS
  <2> HIDE DEF E, G
  <2> QED BY <2>1, <2>2, <2>3 DEF E
<1> QED BY <1>12, <1>13 DEF A, limit, offset

\* Pages tile what they page through.
LEMMA PagesHeld == Served => PagesTile
<1> SUFFICES ASSUME Served, Answered("page") \/ Answered("reviews") PROVE PagesTile
  BY DEF PagesTile
<1> DEFINE limit == request.limit
           offset == request.offset
           shown == {answer.items[i].id : i \in DOMAIN answer.items}
           pages == {<<id, Before(id)>> : id \in Sold}
           reviews == {<<r.id, Placed(r)>> : r \in About}
           placed == IF request.kind = "page" THEN pages ELSE reviews
<1>1. ASSUME shown = {p[1] : p \in {q \in placed : offset <= q[2] /\ q[2] < offset + limit}},
             answer.has_more = \E p \in placed : p[2] >= offset + limit
      PROVE  PagesTile
  BY <1>1 DEF PagesTile, Sold, Before, About, Placed
<1>2. CASE Answered("page")
  <2>1. placed = pages
    BY <1>2 DEF Answered
  <2>2. /\ \A id : id \in shown <=> id \in Sold /\ offset <= Before(id) /\ Before(id) < offset + limit
        /\ answer.has_more = \E id \in Sold : Before(id) >= offset + limit
    BY <1>2, CataloguePages
  <2>p. ASSUME NEW id \in Sold PROVE <<id, Before(id)>> \in placed
    BY <2>1
  <2>q. ASSUME NEW p \in placed
        PROVE  \E id \in Sold : p = <<id, Before(id)>> /\ p[1] = id /\ p[2] = Before(id)
    BY <2>1
  <2> HIDE DEF shown, offset, limit, placed
  <2>3. shown = {p[1] : p \in {q \in placed : offset <= q[2] /\ q[2] < offset + limit}}
    <3> DEFINE inside == {q \in placed : offset <= q[2] /\ q[2] < offset + limit}
               firsts == {p[1] : p \in inside}
    <3>1. ASSUME NEW x \in shown PROVE x \in firsts
      <4>1. PICK id \in Sold : id = x /\ offset <= Before(id) /\ Before(id) < offset + limit
        BY <2>2
      <4> DEFINE p == <<id, Before(id)>>
      <4>2. p \in placed /\ p[1] = x /\ p[2] = Before(id)
        BY <2>p, <4>1
      <4> HIDE DEF p
      <4>3. p \in inside
        BY <4>1, <4>2
      <4> QED BY <4>2, <4>3
    <3>2. ASSUME NEW p \in inside PROVE p[1] \in shown
      <4>1. p \in placed /\ offset <= p[2] /\ p[2] < offset + limit
        OBVIOUS
      <4>2. PICK id \in Sold : p[1] = id /\ p[2] = Before(id)
        BY <2>q, <4>1
      <4> QED BY <2>2, <4>1, <4>2
    <3> QED BY <3>1, <3>2
  <2>4. (\E id \in Sold : Before(id) >= offset + limit) <=> (\E p \in placed : p[2] >= offset + limit)
    <3>1. ASSUME NEW id \in Sold, Before(id) >= offset + limit
          PROVE  \E p \in placed : p[2] >= offset + limit
      <4> DEFINE p == <<id, Before(id)>>
      <4>1. p \in placed /\ p[2] = Before(id)
        BY <2>p
      <4> HIDE DEF p
      <4> QED BY <3>1, <4>1
    <3>2. ASSUME NEW p \in placed, p[2] >= offset + limit
          PROVE  \E id \in Sold : Before(id) >= offset + limit
      <4>1. PICK id \in Sold : p[2] = Before(id)
        BY <2>q
      <4> QED BY <3>2, <4>1
    <3> QED BY <3>1, <3>2
  <2>5. answer.has_more = \E p \in placed : p[2] >= offset + limit
    BY <2>2, <2>4
  <2> QED BY <1>1, <2>3, <2>5 DEF shown, offset, limit, placed
<1>3. CASE Answered("reviews")
  <2>1. placed = reviews
    BY <1>3 DEF Answered
  <2>2. /\ \A id : id \in shown <=> \E r \in About : /\ r.id = id /\ offset <= Placed(r)
                                                     /\ Placed(r) < offset + limit
        /\ answer.has_more = \E r \in About : Placed(r) >= offset + limit
    BY <1>3, ReviewPages
  <2>p. ASSUME NEW r \in About PROVE <<r.id, Placed(r)>> \in placed
    BY <2>1
  <2>q. ASSUME NEW p \in placed
        PROVE  \E r \in About : p = <<r.id, Placed(r)>> /\ p[1] = r.id /\ p[2] = Placed(r)
    BY <2>1
  <2> HIDE DEF shown, offset, limit, placed
  <2>3. shown = {p[1] : p \in {q \in placed : offset <= q[2] /\ q[2] < offset + limit}}
    <3> DEFINE inside == {q \in placed : offset <= q[2] /\ q[2] < offset + limit}
               firsts == {p[1] : p \in inside}
    <3>1. ASSUME NEW x \in shown PROVE x \in firsts
      <4>1. PICK r \in About : r.id = x /\ offset <= Placed(r) /\ Placed(r) < offset + limit
        BY <2>2
      <4> DEFINE p == <<r.id, Placed(r)>>
      <4>2. p \in placed /\ p[1] = x /\ p[2] = Placed(r)
        BY <2>p, <4>1
      <4> HIDE DEF p
      <4>3. p \in inside
        BY <4>1, <4>2
      <4> QED BY <4>2, <4>3
    <3>2. ASSUME NEW p \in inside PROVE p[1] \in shown
      <4>1. p \in placed /\ offset <= p[2] /\ p[2] < offset + limit
        OBVIOUS
      <4>2. PICK r \in About : p[1] = r.id /\ p[2] = Placed(r)
        BY <2>q, <4>1
      <4> QED BY <2>2, <4>1, <4>2
    <3> QED BY <3>1, <3>2
  <2>4. (\E r \in About : Placed(r) >= offset + limit) <=> (\E p \in placed : p[2] >= offset + limit)
    <3>1. ASSUME NEW r \in About, Placed(r) >= offset + limit
          PROVE  \E p \in placed : p[2] >= offset + limit
      <4> DEFINE p == <<r.id, Placed(r)>>
      <4>1. p \in placed /\ p[2] = Placed(r)
        BY <2>p
      <4> HIDE DEF p
      <4> QED BY <3>1, <4>1
    <3>2. ASSUME NEW p \in placed, p[2] >= offset + limit
          PROVE  \E r \in About : Placed(r) >= offset + limit
      <4>1. PICK r \in About : p[2] = Placed(r)
        BY <2>q
      <4> QED BY <3>2, <4>1
    <3> QED BY <3>1, <3>2
  <2>5. answer.has_more = \E p \in placed : p[2] >= offset + limit
    BY <2>2, <2>4
  <2> QED BY <1>1, <2>3, <2>5 DEF shown, offset, limit, placed
<1> QED BY <1>2, <1>3

-----------------------------------------------------------------------------
(* What the seller confirmed, and what is guessed                          *)

\* Numbers further apart than the divisor have different quotients.
LEMMA QuotientGap ==
    ASSUME NEW x \in Nat, NEW z \in Nat, NEW y \in Nat, y > 0, x >= z + y
    PROVE  z \div y < x \div y
<1> DEFINE k == x \div y
           r == x % y
<1>1. k \in Nat /\ x = k * y + r /\ r \in 0 .. y - 1
  OBVIOUS
<1> DEFINE a == k * y
<1>2. a \in Int
  BY <1>1
<1>3. x = a + r
  BY <1>1
<1> HIDE DEF k, r, a
<1>4. z < a
  BY <1>1, <1>2, <1>3
<1>5. z \div y \in 0 .. k - 1
  BY <1>1, <1>4, QuotientBelow DEF a
<1> DEFINE q == z \div y
<1> HIDE DEF q
<1>6. q \in 0 .. k - 1
  BY <1>5 DEF q
<1>7. q < k
  BY <1>1, <1>6
<1> QED BY <1>7 DEF q, k

\* A product as it is without the guesses.
Unguessed(p) == [p EXCEPT !.tags = {}]

LEMMA GuessedStrength ==
    ASSUME NEW p, TagsOk(p.tags), {"attributes", "tags"} \subseteq DOMAIN p, NEW kind, NEW slug
    PROVE  /\ Strength(Unguessed(p), kind, slug) = One => Strength(p, kind, slug) = One
           /\ Strength(Unguessed(p), kind, slug) # One => Strength(p, kind, slug) <= InferredCeiling
<1> DEFINE U == {u \in p.tags : u.kind = kind /\ u.slug = slug}
           f == [t \in U |-> MinOf(t.confidence * 100, InferredCeiling)]
           G == {MinOf(t.confidence * 100, InferredCeiling) : t \in U} \cup {0}
           stated == {a \in p.attributes : a.kind = kind /\ Lookup(TAG_VOCABULARIES[kind], a.label) = slug}
<1>1. IsFiniteSet(G) /\ 0 \in G
  <2>1. IsFiniteSet(U)
    <3>1. U \in SUBSET p.tags
      OBVIOUS
    <3> HIDE DEF U
    <3> QED BY <3>1, FS_Subset DEF TagsOk
  <2>2. DOMAIN f = U /\ f = [t \in DOMAIN f |-> f[t]] /\ G = {f[t] : t \in DOMAIN f} \cup {0}
    OBVIOUS
  <2> HIDE DEF U, f, G
  <2>3. IsFiniteSet({f[t] : t \in DOMAIN f})
    BY <2>1, <2>2, FiniteImage
  <2>4. IsFiniteSet({0}) /\ 0 \in {0}
    BY FS_Singleton
  <2> QED BY <2>2, <2>3, <2>4, FS_Union
<1>2. \A g \in G : g \in Int /\ g <= InferredCeiling
  <2> TAKE g \in G
  <2>1. CASE g = 0
    BY <2>1 DEF InferredCeiling
  <2>2. CASE g # 0
    <3>1. PICK t \in U : g = MinOf(t.confidence * 100, InferredCeiling)
      BY <2>2
    <3>2. t.confidence \in 1 .. 100
      BY DEF TagsOk
    <3> DEFINE c == t.confidence
    <3> HIDE DEF c
    <3> QED BY <3>1, <3>2 DEF c, MinOf, InferredCeiling
  <2> QED BY <2>1, <2>2
<1>3. Strength(p, kind, slug) = IF stated # {} THEN One ELSE Max(G)
  BY DEF Strength
<1> HIDE DEF G
<1>4. Max(G) <= InferredCeiling
  <2>1. \E m \in G : \A n \in G : n <= m
    BY <1>1, <1>2, LargestMember
  <2>2. \E m \in G : \A n \in G : m >= n
    BY <1>2, <2>1
  <2>3. Max(G) \in G
    BY <2>2 DEF Max
  <2> QED BY <1>2, <2>3
<1> DEFINE u == Unguessed(p)
<1>5. u.tags = {} /\ u.attributes = p.attributes
  BY DEF Unguessed
<1> HIDE DEF u
<1>6. Strength(u, kind, slug) = IF stated # {} THEN One ELSE Max({} \cup {0})
  <2>1. {MinOf(t.confidence * 100, InferredCeiling) : t \in {v \in u.tags : v.kind = kind /\ v.slug = slug}} = {}
    BY <1>5
  <2> QED BY <1>5, <2>1 DEF Strength
<1>7. Max({} \cup {0}) # One
  <2>1. {} \cup {0} = {0} /\ \E m \in {0} : \A n \in {0} : m >= n
    OBVIOUS
  <2>2. Max({0}) = 0
    BY <2>1 DEF Max
  <2> QED BY <2>1, <2>2 DEF One
<1> QED BY <1>3, <1>4, <1>6, <1>7 DEF u

\* What is wished for of one kind counts in full when all of it was confirmed,
\* and at most 9800 when some of it was not.
LEMMA WishedValue ==
    ASSUME NEW p, TagsOk(p.tags), {"attributes", "tags"} \subseteq DOMAIN p, NEW kind,
           NEW wanted, IsFiniteSet(wanted), wanted # {}, Cardinality(wanted) <= MAX_TERMS
    PROVE  /\ (\A s \in wanted : Strength(Unguessed(p), kind, s) = One)
                    => PreferenceValue(p, kind, wanted) = One
           /\ ~ (\A s \in wanted : Strength(Unguessed(p), kind, s) = One)
                    => PreferenceValue(p, kind, wanted) <= 9800
<1> DEFINE f == [s \in wanted |-> Strength(p, kind, s)]
           k == Cardinality(wanted)
           x == SumOf(f)
<1>1. DOMAIN f = wanted /\ \A s \in wanted : f[s] = Strength(p, kind, s)
  OBVIOUS
<1>2. \A s \in wanted : f[s] \in Int /\ 0 <= f[s] /\ f[s] <= One
  BY <1>1, StrengthMark, MarkRange
<1>3. PreferenceValue(p, kind, wanted) = RoundHalfUp(x, k)
  BY DEF PreferenceValue
<1>4. k \in Nat /\ k # 0 /\ k <= 10
  BY TermsAssumption, FS_CardinalityType, FS_EmptySet
<1> HIDE DEF f
<1>5. x = Sum(f, wanted)
  BY <1>1, SumOfIs
<1>6. One \in Int /\ One = 10000
  BY DEF One
<1> HIDE DEF x, k
<1>7. ASSUME \A s \in wanted : Strength(Unguessed(p), kind, s) = One
      PROVE  PreferenceValue(p, kind, wanted) = One
  <2>1. \A s \in wanted : f[s] \in Int /\ One <= f[s] /\ f[s] <= One
    BY <1>1, <1>2, <1>6, <1>7, GuessedStrength
  <2>2. One * k <= x /\ x <= One * k /\ x \in Int
    <3>1. /\ Sum(f, wanted) \in Int /\ One * Cardinality(wanted) <= Sum(f, wanted)
          /\ Sum(f, wanted) <= One * Cardinality(wanted)
      <4> HIDE DEF One
      <4> QED BY <1>6, <2>1, SumBounds
    <3> QED BY <1>5, <3>1 DEF k
  <2>3. x = 10000 * k
    BY <1>4, <1>6, <2>2
  <2> DEFINE y == 2 * k
             z == 2 * x + k
  <2>4. y \in Nat /\ y > 0 /\ z \in Nat /\ z < 10001 * y
    BY <1>4, <2>3
  <2>5. RoundHalfUp(x, k) = z \div y
    BY DEF RoundHalfUp
  <2>6. z \div y >= 10000
    <3>1. z \div y \in Int /\ z = (z \div y) * y + (z % y) /\ z % y \in 0 .. y - 1
      <4> HIDE DEF y, z
      <4> QED BY <2>4
    <3> DEFINE q == z \div y
               r == z % y
    <3>2. z >= 10000 * y
      BY <1>4, <2>3
    <3>3. q \in Int /\ z = q * y + r /\ r < y /\ r \in Int
      BY <3>1, <2>4
    <3> HIDE DEF q, r, z
    <3> SUFFICES ASSUME q <= 9999 PROVE FALSE
      BY <3>3 DEF q
    <3> DEFINE d == 9999 - q
    <3>4. d \in Nat /\ 9999 = q + d
      BY <3>3
    <3> HIDE DEF d, y
    <3>5. (q + d) * y = q * y + d * y /\ d * y >= 0 /\ d * y \in Int /\ q * y \in Int
      BY <2>4, <3>3, <3>4
    <3>6. 9999 * y = q * y + d * y
      BY <3>4, <3>5
    <3> DEFINE a == q * y
               b == d * y
    <3>7. a \in Int /\ b \in Int /\ b >= 0 /\ 9999 * y = a + b /\ z = a + r
      BY <3>3, <3>5, <3>6
    <3> HIDE DEF a, b
    <3> QED BY <2>4, <3>2, <3>3, <3>7
  <2> HIDE DEF y, z
  <2>7. z \div y \in 0 .. 10001 - 1
    BY <2>4, QuotientBelow
  <2> DEFINE q == z \div y
  <2> HIDE DEF q
  <2>a. q \in 0 .. 10001 - 1 /\ q >= 10000
    BY <2>6, <2>7 DEF q
  <2>b. q \in Int /\ q <= 10000 /\ q >= 10000
    BY <2>a
  <2>8. q = 10000
    BY <2>b
  <2> QED BY <1>3, <1>6, <2>5, <2>8 DEF q
<1>8. ASSUME NEW e \in wanted, Strength(Unguessed(p), kind, e) # One
      PROVE  PreferenceValue(p, kind, wanted) <= 9800
  <2>1. f[e] <= 8000
    BY <1>1, <1>8, GuessedStrength DEF InferredCeiling
  <2> DEFINE g == [s \in wanted |-> IF s = e THEN One ELSE f[s]]
  <2>2. \A s \in wanted : g[s] \in Int /\ 0 <= g[s] /\ g[s] <= One
    BY <1>2, <1>6
  <2>3. g[e] = One /\ \A s \in wanted \ {e} : f[s] = g[s]
    OBVIOUS
  <2> HIDE DEF g
  <2>4. Sum(f, wanted) \in Int /\ Sum(g, wanted) = (Sum(f, wanted) - f[e]) + g[e]
    BY <1>2, <2>2, <2>3, SumChange
  <2>5. Sum(g, wanted) \in Int /\ Sum(g, wanted) <= One * k
    <3>1. Sum(g, wanted) \in Int /\ Sum(g, wanted) <= One * Cardinality(wanted)
      <4> HIDE DEF One
      <4> QED BY <1>6, <2>2, SumBounds
    <3> QED BY <3>1 DEF k
  <2>6. x \in Int /\ 0 <= x
    BY <1>2, <1>5, SumZero
  <2> DEFINE sg == Sum(g, wanted)
             fe == f[e]
  <2>7. fe \in Int /\ fe <= 8000 /\ sg \in Int /\ sg = (x - fe) + 10000 /\ sg <= 10000 * k
    BY <1>2, <1>5, <1>6, <2>1, <2>3, <2>4, <2>5
  <2> HIDE DEF sg, fe
  <2>8. x <= 10000 * k - 2000
    BY <1>4, <2>6, <2>7
  <2> DEFINE y == 2 * k
             z == 2 * x + k
  <2>9. y \in Nat /\ y > 0 /\ z \in Nat /\ z < 9801 * y
    BY <1>4, <2>6, <2>8
  <2>10. RoundHalfUp(x, k) = z \div y
    BY DEF RoundHalfUp
  <2> HIDE DEF y, z
  <2>11. z \div y \in 0 .. 9801 - 1
    BY <2>9, QuotientBelow
  <2> DEFINE q == z \div y
  <2> HIDE DEF q
  <2>a. q \in 0 .. 9801 - 1
    BY <2>11 DEF q
  <2>12. q <= 9800
    BY <2>a
  <2> QED BY <1>3, <2>10, <2>12 DEF q
<1> QED BY <1>7, <1>8

LEMMA CountOfParts == Cardinality(Parts) <= 11
<1> DEFINE s == <<"colours", "materials", "styles", "feels", "room", "width", "height", "depth",
                  "price", "query", "taste">>
           f == [i \in 1 .. 11 |-> s[i]]
<1>1. /\ s[1] = "colours" /\ s[2] = "materials" /\ s[3] = "styles" /\ s[4] = "feels" /\ s[5] = "room"
      /\ s[6] = "width" /\ s[7] = "height" /\ s[8] = "depth" /\ s[9] = "price" /\ s[10] = "query"
      /\ s[11] = "taste"
  OBVIOUS
<1> HIDE DEF s
<1>2. \A i \in 1 .. 11 : s[i] \in Parts
  <2> TAKE i \in 1 .. 11
  <2>1. i = 1 \/ i = 2 \/ i = 3 \/ i = 4 \/ i = 5 \/ i = 6 \/ i = 7 \/ i = 8 \/ i = 9 \/ i = 10 \/ i = 11
    OBVIOUS
  <2> QED BY <1>1, <2>1 DEF Parts
<1>3. \A n \in Parts : \E i \in 1 .. 11 : s[i] = n
  BY <1>1 DEF Parts
<1>4. f \in Surjection(1 .. 11, Parts)
  BY <1>2, <1>3 DEF Surjection
<1>5. ExistsSurjection(1 .. 11, Parts) /\ 11 \in Nat
  BY <1>4 DEF ExistsSurjection
<1> QED BY <1>5, FS_SurjCardinalityBound

\* Two products with the same parts of a score, one of which is by 200 better
\* in something wished for and nowhere worse, have different scores.
LEMMA CombineStrict ==
    ASSUME NEW a, DOMAIN a = Parts, \A n \in Parts : \A v \in a[n] : v \in Marks,
           NEW b, DOMAIN b = Parts, \A n \in Parts : \A v \in b[n] : v \in Marks,
           \A n \in Parts : a[n] = {} <=> b[n] = {},
           \A n \in Parts : a[n] # {} => (CHOOSE v \in b[n] : TRUE) <= (CHOOSE v \in a[n] : TRUE),
           NEW m \in {"styles", "feels", "room"}, a[m] # {},
           (CHOOSE v \in b[m] : TRUE) + 200 <= (CHOOSE v \in a[m] : TRUE)
    PROVE  Combine(b) < Combine(a)
<1> DEFINE given == {n \in Parts : a[n] # {}}
           w == [n \in given |-> WEIGHTS[n]]
           f == [n \in given |-> WEIGHTS[n] * CHOOSE v \in a[n] : TRUE]
           g == [n \in given |-> WEIGHTS[n] * CHOOSE v \in b[n] : TRUE]
           rest == given \ {m}
<1>1. given # {} /\ m \in given
  BY DEF Parts
<1>2. Combine(a) = RoundHalfUp(SumOf(f), SumOf(w))
  <2>1. {n \in DOMAIN a : a[n] # {}} = given
    OBVIOUS
  <2> HIDE DEF given
  <2> QED BY <1>1, <2>1 DEF Combine
<1>3. Combine(b) = RoundHalfUp(SumOf(g), SumOf(w))
  <2>1. {n \in DOMAIN b : b[n] # {}} = given
    OBVIOUS
  <2> HIDE DEF given
  <2> QED BY <1>1, <2>1 DEF Combine
<1>4. IsFiniteSet(given) /\ Cardinality(given) \in Nat /\ Cardinality(given) <= 11
  <2>1. given \in SUBSET Parts
    OBVIOUS
  <2> HIDE DEF given
  <2>2. IsFiniteSet(given) /\ Cardinality(given) <= Cardinality(Parts)
    BY <2>1, FiniteParts, FS_Subset
  <2> QED BY <2>2, CountOfParts, FiniteParts, FS_CardinalityType
<1>5. ASSUME NEW n \in given
      PROVE  /\ w[n] \in Int /\ 0 <= w[n] /\ w[n] <= 8 /\ w[n] # 0
             /\ f[n] \in Int /\ g[n] \in Int /\ 0 <= g[n] /\ g[n] <= f[n]
  <2> DEFINE va == CHOOSE v \in a[n] : TRUE
             vb == CHOOSE v \in b[n] : TRUE
             k == WEIGHTS[n]
  <2>1. n \in Parts /\ a[n] # {} /\ b[n] # {}
    OBVIOUS
  <2>2. va \in Marks /\ vb \in Marks
    <3> HIDE DEF Marks
    <3> QED BY <2>1
  <2>3. k \in Nat /\ k <= 8 /\ k # 0
    BY <2>1 DEF Parts, WEIGHTS
  <2>4. vb <= va
    BY <2>1
  <2>5. w[n] = k /\ f[n] = k * va /\ g[n] = k * vb
    OBVIOUS
  <2>6. va \in Nat /\ vb \in Nat
    BY <2>2, MarkRange
  <2> HIDE DEF w, f, g, va, vb, k, given
  <2> DEFINE d == va - vb
  <2>7. d \in Nat /\ va = vb + d
    BY <2>4, <2>6
  <2> HIDE DEF d
  <2>8. k * (vb + d) = k * vb + k * d /\ k * d \in Nat /\ k * vb \in Nat
    BY <2>3, <2>6, <2>7
  <2>9. k * va = k * vb + k * d
    BY <2>7, <2>8
  <2> QED BY <2>3, <2>5, <2>8, <2>9
<1>6. g[m] + 800 <= f[m]
  <2> DEFINE va == CHOOSE v \in a[m] : TRUE
             vb == CHOOSE v \in b[m] : TRUE
             k == WEIGHTS[m]
  <2>1. m \in Parts /\ a[m] # {} /\ b[m] # {}
    BY DEF Parts
  <2>2. va \in Marks /\ vb \in Marks
    <3> HIDE DEF Marks
    <3> QED BY <2>1
  <2>3. k = 4 \/ k = 5 \/ k = 6
    BY DEF WEIGHTS
  <2>4. vb + 200 <= va
    OBVIOUS
  <2>5. f[m] = k * va /\ g[m] = k * vb
    BY <1>1
  <2>6. va \in Nat /\ vb \in Nat
    BY <2>2, MarkRange
  <2> HIDE DEF f, g, va, vb, k, given
  <2> QED BY <2>3, <2>4, <2>5, <2>6
<1>7. DOMAIN f = given /\ DOMAIN g = given /\ DOMAIN w = given
  OBVIOUS
<1> HIDE DEF f, g, w, given
<1>8. IsFiniteSet(rest) /\ \A n \in rest : n \in given
  BY <1>4, FS_Subset
<1>9. \A n \in given : f[n] \in Int /\ g[n] \in Int /\ g[n] <= f[n]
  BY <1>5
<1>10. /\ Sum(f, given) = f[m] + Sum(f, rest)
       /\ Sum(g, given) = g[m] + Sum(g, rest)
  BY <1>1, <1>4, <1>9, SumRemove
<1> HIDE DEF rest
<1>11. Sum(g, rest) <= Sum(f, rest) /\ Sum(g, rest) \in Int /\ Sum(f, rest) \in Int
  BY <1>8, <1>9, SumMonotone, SumInt
<1>12. Sum(f, given) \in Int
  BY <1>4, <1>5, SumInt
<1>13. Sum(g, given) \in Int /\ 0 <= Sum(g, given)
  BY <1>4, <1>5, SumZero
<1>14. Sum(w, given) \in Int /\ Sum(w, given) <= 8 * Cardinality(given)
  <2>1. 0 \in Int /\ 8 \in Int
    OBVIOUS
  <2> QED BY <1>4, <1>5, <2>1, SumBounds
<1>15. \A n \in given : w[n] <= Sum(w, given)
  BY <1>4, <1>5, SumZero
<1> DEFINE sf == Sum(f, given)
           sg == Sum(g, given)
           sw == Sum(w, given)
<1>16. /\ sf \in Int /\ sg \in Int /\ sw \in Int /\ 0 <= sg /\ sg + 800 <= sf /\ 0 < sw /\ sw <= 88
  <2>1. sg + 800 <= sf
    <3> DEFINE rf == Sum(f, rest)
               rg == Sum(g, rest)
    <3>1. sf = f[m] + rf /\ sg = g[m] + rg /\ rg <= rf /\ rf \in Int /\ rg \in Int
          /\ f[m] \in Int /\ g[m] \in Int
      BY <1>1, <1>9, <1>10, <1>11
    <3> HIDE DEF sf, sg, rf, rg
    <3> QED BY <1>6, <3>1
  <2>2. 0 < sw
    <3>1. w[m] \in Int /\ 0 <= w[m] /\ w[m] # 0 /\ w[m] <= sw /\ sw \in Int
      BY <1>1, <1>5, <1>14, <1>15
    <3> HIDE DEF sw
    <3> QED BY <3>1
  <2>3. sw <= 88
    <3>1. sw <= 8 * Cardinality(given) /\ sw \in Int
      BY <1>14
    <3> HIDE DEF sw
    <3> QED BY <1>4, <3>1
  <2> QED BY <1>12, <1>13, <1>14, <2>1, <2>2, <2>3
<1>17. SumOf(f) = sf /\ SumOf(g) = sg /\ SumOf(w) = sw
  BY <1>4, <1>7, SumOfIs
<1> HIDE DEF sf, sg, sw
<1> DEFINE x == 2 * sf + sw
           z == 2 * sg + sw
           y == 2 * sw
<1>18. x \in Nat /\ z \in Nat /\ y \in Nat /\ y > 0 /\ x >= z + y
  BY <1>16
<1>19. RoundHalfUp(sf, sw) = x \div y /\ RoundHalfUp(sg, sw) = z \div y
  BY DEF RoundHalfUp
<1> HIDE DEF x, y, z
<1>20. z \div y < x \div y
  BY <1>18, QuotientGap
<1> QED BY <1>2, <1>3, <1>17, <1>19, <1>20

\* All that is wished for of a kind is confirmed.
AllStated(p, kind, wanted) == \A s \in wanted : Strength(Unguessed(p), kind, s) = One

\* Of two products alike in the rest, the one of which everything wished for
\* is confirmed has the higher score.
LEMMA ConfirmedScore ==
    ASSUME NEW p, Scorable(p), {"attributes", "tags"} \subseteq DOMAIN p,
           NEW q, Scorable(q), {"attributes", "tags"} \subseteq DOMAIN q,
           NEW soft, SoftOk(soft), NEW query, Sayable(query),
           NEW profile, ProfileOk(profile),
           Cardinality(soft.styles) <= MAX_TERMS, Cardinality(soft.feels) <= MAX_TERMS,
           Cardinality(soft.room) <= MAX_TERMS,
           AllStated(p, "style", soft.styles), AllStated(p, "feel", soft.feels),
           AllStated(p, "room_type", soft.room),
           ~ (/\ AllStated(q, "style", soft.styles) /\ AllStated(q, "feel", soft.feels)
              /\ AllStated(q, "room_type", soft.room)),
           \A n \in Parts \ {"styles", "feels", "room"} :
               ScoreParts(p, soft, query, profile)[n] = ScoreParts(q, soft, query, profile)[n]
    PROVE  Combine(ScoreParts(q, soft, query, profile)) < Combine(ScoreParts(p, soft, query, profile))
<1> DEFINE a == ScoreParts(p, soft, query, profile)
           b == ScoreParts(q, soft, query, profile)
           wished == {"styles", "feels", "room"}
           top(x) == CHOOSE v \in x : TRUE
<1>1. DOMAIN a = Parts /\ \A n \in Parts : \A v \in a[n] : v \in Marks
  BY PartsMark
<1>2. DOMAIN b = Parts /\ \A n \in Parts : \A v \in b[n] : v \in Marks
  BY PartsMark
<1> DEFINE pv(kind, wanted) == PreferenceValue(p, kind, wanted)
           qv(kind, wanted) == PreferenceValue(q, kind, wanted)
           part(x, wanted) == IF wanted = {} THEN {} ELSE {x}
<1>3. /\ a["styles"] = part(pv("style", soft.styles), soft.styles)
      /\ a["feels"] = part(pv("feel", soft.feels), soft.feels)
      /\ a["room"] = part(pv("room_type", soft.room), soft.room)
  BY DEF ScoreParts
<1>4. /\ b["styles"] = part(qv("style", soft.styles), soft.styles)
      /\ b["feels"] = part(qv("feel", soft.feels), soft.feels)
      /\ b["room"] = part(qv("room_type", soft.room), soft.room)
  BY DEF ScoreParts
<1>5. TagsOk(p.tags) /\ TagsOk(q.tags)
  BY DEF Scorable
<1>6. \A n \in Parts \ wished : a[n] = b[n]
  OBVIOUS
<1>7. One \in Int /\ One = 10000
  BY DEF One
<1>8. ASSUME NEW kind, NEW wanted, IsFiniteSet(wanted), wanted # {}, Cardinality(wanted) <= MAX_TERMS,
             AllStated(p, kind, wanted)
      PROVE  /\ pv(kind, wanted) = One /\ qv(kind, wanted) <= One
             /\ ~ AllStated(q, kind, wanted) => qv(kind, wanted) + 200 <= pv(kind, wanted)
  <2>1. pv(kind, wanted) = One
    BY <1>5, <1>8, WishedValue DEF AllStated
  <2>2. ~ AllStated(q, kind, wanted) => qv(kind, wanted) <= 9800
    BY <1>5, <1>8, WishedValue DEF AllStated
  <2>3. qv(kind, wanted) \in Int /\ qv(kind, wanted) <= One
    <3>1. PreferenceValue(q, kind, wanted) \in Marks
      BY <1>5, <1>8, PreferenceMark
    <3> QED BY <3>1, MarkRange
  <2> HIDE DEF pv, qv
  <2> QED BY <1>7, <2>1, <2>2, <2>3
<1>9. /\ IsFiniteSet(soft.styles) /\ IsFiniteSet(soft.feels) /\ IsFiniteSet(soft.room)
  BY DEF SoftOk
<1>10. ASSUME NEW kind, NEW wanted, IsFiniteSet(wanted), Cardinality(wanted) <= MAX_TERMS,
              AllStated(p, kind, wanted),
              NEW x, x = part(pv(kind, wanted), wanted), NEW y, y = part(qv(kind, wanted), wanted)
       PROVE  /\ x = {} <=> y = {}
              /\ x # {} => top(y) <= top(x)
              /\ ~ AllStated(q, kind, wanted) => x # {} /\ top(y) + 200 <= top(x)
  <2>1. CASE wanted = {}
    BY <1>10, <2>1 DEF AllStated
  <2>2. CASE wanted # {}
    <3>1. /\ pv(kind, wanted) = One /\ qv(kind, wanted) <= One
          /\ ~ AllStated(q, kind, wanted) => qv(kind, wanted) + 200 <= pv(kind, wanted)
      BY <1>8, <1>10, <2>2
    <3>2. x = {pv(kind, wanted)} /\ y = {qv(kind, wanted)}
      BY <1>10, <2>2
    <3> HIDE DEF pv, qv
    <3>3. top(x) = pv(kind, wanted) /\ top(y) = qv(kind, wanted)
      BY <3>2
    <3> HIDE DEF top
    <3> QED BY <3>1, <3>2, <3>3
  <2> QED BY <2>1, <2>2
<1> HIDE DEF a, b, pv, qv, part, top
<1>11. /\ a["styles"] = {} <=> b["styles"] = {}
       /\ a["styles"] # {} => top(b["styles"]) <= top(a["styles"])
       /\ ~ AllStated(q, "style", soft.styles) => /\ a["styles"] # {}
                                                  /\ top(b["styles"]) + 200 <= top(a["styles"])
  BY <1>3, <1>4, <1>9, <1>10
<1>12. /\ a["feels"] = {} <=> b["feels"] = {}
       /\ a["feels"] # {} => top(b["feels"]) <= top(a["feels"])
       /\ ~ AllStated(q, "feel", soft.feels) => /\ a["feels"] # {}
                                                /\ top(b["feels"]) + 200 <= top(a["feels"])
  BY <1>3, <1>4, <1>9, <1>10
<1>13. /\ a["room"] = {} <=> b["room"] = {}
       /\ a["room"] # {} => top(b["room"]) <= top(a["room"])
       /\ ~ AllStated(q, "room_type", soft.room) => /\ a["room"] # {}
                                                    /\ top(b["room"]) + 200 <= top(a["room"])
  BY <1>3, <1>4, <1>9, <1>10
<1>14. \A n \in Parts : a[n] = {} <=> b[n] = {}
  BY <1>6, <1>11, <1>12, <1>13
<1>15. ASSUME NEW n \in Parts, a[n] # {} PROVE top(b[n]) <= top(a[n])
  <2>1. CASE n \in wished
    BY <1>11, <1>12, <1>13, <1>15, <2>1
  <2>2. CASE n \notin wished
    <3>1. a[n] = b[n] /\ \A v \in a[n] : v \in Marks
      BY <1>1, <1>6, <2>2
    <3>2. top(a[n]) \in a[n]
      BY <1>15 DEF top
    <3>3. top(a[n]) \in Int
      BY <3>1, <3>2, MarkRange
    <3> DEFINE t == top(a[n])
    <3>4. top(b[n]) = t /\ t \in Int
      BY <3>1, <3>3
    <3> HIDE DEF t
    <3>5. t <= t
      BY <3>4
    <3> QED BY <3>4, <3>5 DEF t
  <2> QED BY <2>1, <2>2
<1>16. \E m \in wished : a[m] # {} /\ top(b[m]) + 200 <= top(a[m])
  <2>1. \/ ~ AllStated(q, "style", soft.styles) \/ ~ AllStated(q, "feel", soft.feels)
        \/ ~ AllStated(q, "room_type", soft.room)
    OBVIOUS
  <2> QED BY <1>11, <1>12, <1>13, <2>1
<1>17. PICK m \in wished : a[m] # {} /\ top(b[m]) + 200 <= top(a[m])
  BY <1>16
<1>18. Combine(b) < Combine(a)
  <2>1. \A n \in Parts : a[n] # {} => (CHOOSE v \in b[n] : TRUE) <= (CHOOSE v \in a[n] : TRUE)
    BY <1>15 DEF top
  <2>2. (CHOOSE v \in b[m] : TRUE) + 200 <= (CHOOSE v \in a[m] : TRUE)
    BY <1>17 DEF top
  <2> QED BY <1>1, <1>2, <1>14, <1>17, <2>1, <2>2, CombineStrict
<1> QED BY <1>18 DEF a, b

\* Confirmed beats guessed.
LEMMA ConfirmedWins == Served => ConfirmedBeatsGuessed
<1> DEFINE spec == answer.spec
           soft == spec.soft
           taste == answer.taste
           products == answer.products
           r == Ranked(products, spec, taste)
           wished(kind) == CASE kind = "style"     -> soft.styles
                             [] kind = "room_type" -> soft.room
                             [] kind = "feel"      -> soft.feels
           allStated(p) == \A k \in TagKinds : \A s \in wished(k) : Strength([p EXCEPT !.tags = {}], k, s) = One
           alike(p, q) == \A n \in DOMAIN WEIGHTS \ {"styles", "feels", "room"} :
                              PartsOf(p, taste)[n] = PartsOf(q, taste)[n]
<1> SUFFICES ASSUME Served, Answered("search"), NEW i \in DOMAIN Items, NEW j \in DOMAIN Items,
                    allStated(Items[i].product), ~ allStated(Items[j].product),
                    alike(Items[i].product, Items[j].product)
             PROVE  i < j
  BY DEF ConfirmedBeatsGuessed
<1>1. /\ shop \in Shops /\ Executable(products, spec, taste) /\ ValidSoft(soft)
      /\ \A k \in DOMAIN products : FromRow(products[k], CandidateRows[k])
  BY SearchAnswer
<1>2. /\ i \in 1 .. Len(r) /\ Items[i].product = r[i].product
      /\ j \in 1 .. Len(r) /\ Items[j].product = r[j].product
  BY PageFacts
<1>3. /\ \A n \in 1 .. Len(r) : \E k \in Matching(products, spec.hard) : r[n] = Scored(products[k], spec, taste)
      /\ \A n \in 1 .. Len(r) : Rankable(r[n])
      /\ \A n, m \in 1 .. Len(r) : RanksBefore(r[n], r[m]) => n < m
  <2> HIDE DEF products, spec, taste
  <2> QED BY <1>1, RankedFacts
<1> HIDE DEF r
<1>4. PICK k \in Matching(products, spec.hard) : r[i] = Scored(products[k], spec, taste)
  BY <1>2, <1>3
<1>5. PICK l \in Matching(products, spec.hard) : r[j] = Scored(products[l], spec, taste)
  BY <1>2, <1>3
<1> DEFINE p == products[k]
           q == products[l]
<1>6. /\ r[i].product = p /\ r[i].score = Combine(ScoreParts(p, soft, spec.query, taste))
      /\ r[j].product = q /\ r[j].score = Combine(ScoreParts(q, soft, spec.query, taste))
  BY <1>4, <1>5, ScoredFacts
<1>7. k \in DOMAIN products /\ l \in DOMAIN products
  BY DEF Matching
<1>8. ASSUME NEW x \in DOMAIN products
      PROVE  Scorable(products[x]) /\ {"attributes", "tags"} \subseteq DOMAIN products[x]
  <2>1. PICK row \in shop.rows : \E T : products[x] = Tagged(Cut(row), T)
    BY <1>1 DEF FromRow
  <2>2. PICK T : products[x] = Tagged(Cut(row), T)
    BY <2>1
  <2>3. DOMAIN products[x] = DOMAIN NormalizeProduct(Cut(row))
    BY <2>2, TaggedFacts
  <2>4. {"attributes", "tags"} \subseteq DOMAIN NormalizeProduct(Cut(row))
    BY DEF NormalizeProduct
  <2> QED BY <1>1, <2>3, <2>4, FromRowFacts
<1>9. /\ Scorable(p) /\ {"attributes", "tags"} \subseteq DOMAIN p
      /\ Scorable(q) /\ {"attributes", "tags"} \subseteq DOMAIN q
  BY <1>7, <1>8
<1>10. /\ SoftOk(soft) /\ Sayable(spec.query) /\ ProfileOk(taste)
  BY <1>1 DEF Executable
<1>11. /\ Cardinality(soft.styles) <= MAX_TERMS /\ Cardinality(soft.feels) <= MAX_TERMS
       /\ Cardinality(soft.room) <= MAX_TERMS
  BY <1>1 DEF ValidSoft, ValidSlugs
<1>12. ASSUME NEW x
       PROVE  allStated(x) <=> /\ AllStated(x, "style", soft.styles) /\ AllStated(x, "feel", soft.feels)
                               /\ AllStated(x, "room_type", soft.room)
  <2>1. TagKinds = {"style", "room_type", "feel"}
    BY DEF TagKinds, TAG_VOCABULARIES
  <2>2. wished("style") = soft.styles /\ wished("room_type") = soft.room /\ wished("feel") = soft.feels
    OBVIOUS
  <2> HIDE DEF wished
  <2> QED BY <2>1, <2>2 DEF AllStated, Unguessed
<1>13. /\ AllStated(p, "style", soft.styles) /\ AllStated(p, "feel", soft.feels)
       /\ AllStated(p, "room_type", soft.room)
       /\ ~ (/\ AllStated(q, "style", soft.styles) /\ AllStated(q, "feel", soft.feels)
             /\ AllStated(q, "room_type", soft.room))
  <2>1. allStated(p) /\ ~ allStated(q)
    <3> HIDE DEF allStated
    <3> QED BY <1>2, <1>6
  <2> HIDE DEF allStated, p, q
  <2> QED BY <1>12, <2>1
<1>14. \A n \in Parts \ {"styles", "feels", "room"} :
           ScoreParts(p, soft, spec.query, taste)[n] = ScoreParts(q, soft, spec.query, taste)[n]
  <2>1. alike(p, q)
    <3> HIDE DEF alike
    <3> QED BY <1>2, <1>6
  <2>2. DOMAIN WEIGHTS = Parts
    BY DEF WEIGHTS, Parts
  <2> HIDE DEF p, q
  <2> QED BY <2>1, <2>2 DEF PartsOf
<1> HIDE DEF p, q, soft, taste, allStated, alike
<1> DEFINE query == spec.query
           a == Combine(ScoreParts(p, soft, query, taste))
           b == Combine(ScoreParts(q, soft, query, taste))
<1>15. r[i].score = a /\ r[j].score = b
  BY <1>6
<1>16. Sayable(query)
  BY <1>10
<1>17. b < a
  <2>1. \A n \in Parts \ {"styles", "feels", "room"} :
            ScoreParts(p, soft, query, taste)[n] = ScoreParts(q, soft, query, taste)[n]
    BY <1>14
  <2> HIDE DEF query, spec
  <2> QED BY <1>9, <1>10, <1>11, <1>13, <1>16, <2>1, ConfirmedScore
<1> HIDE DEF a, b, query, spec
<1>18. RanksBefore(r[i], r[j])
  <2>1. r[i].score > r[j].score
    BY <1>15, <1>17
  <2> QED BY <2>1 DEF RanksBefore
<1> QED BY <1>2, <1>3, <1>18

-----------------------------------------------------------------------------
(* Pieces of a room named the other way round                              *)

\* The places of a sequence, counted from its end.
Mirrored(n) == [i \in 1 .. n |-> (n - i) + 1]

LEMMA MirrorFacts ==
    ASSUME NEW s, IsSeq(s)
    PROVE  /\ Len(s) \in Nat /\ DOMAIN s = 1 .. Len(s) /\ DOMAIN Reverse(s) = 1 .. Len(s)
           /\ Len(Reverse(s)) = Len(s) /\ IsSeq(Reverse(s))
           /\ \A i \in 1 .. Len(s) : /\ Mirrored(Len(s))[i] \in 1 .. Len(s)
                                     /\ Reverse(s)[i] = s[Mirrored(Len(s))[i]]
                                     /\ Mirrored(Len(s))[Mirrored(Len(s))[i]] = i
<1> DEFINE n == Len(s)
           m == Mirrored(n)
           r == Reverse(s)
<1>1. s \in Seq(Range(s)) /\ n \in Nat /\ DOMAIN s = 1 .. n
  BY LenProperties DEF IsSeq
<1>2. r = [i \in 1 .. n |-> s[(n - i) + 1]]
  BY DEF Reverse
<1> HIDE DEF n, r
<1>3. \A i \in 1 .. n : m[i] = (n - i) + 1 /\ m[i] \in 1 .. n
  BY <1>1 DEF Mirrored
<1>4. \A i \in 1 .. n : r[i] = s[m[i]]
  BY <1>2, <1>3
<1> HIDE DEF m
<1>5. \A i \in 1 .. n : m[m[i]] = i
  <2> TAKE i \in 1 .. n
  <2> DEFINE j == m[i]
  <2>1. j \in 1 .. n /\ j = (n - i) + 1
    BY <1>3
  <2> HIDE DEF j
  <2>2. m[j] = (n - j) + 1
    BY <1>3, <2>1
  <2>3. (n - j) + 1 = i
    BY <1>1, <2>1
  <2> QED BY <2>2, <2>3 DEF j
<1>6. DOMAIN r = 1 .. n
  BY <1>2
<1>7. r \in [1 .. n -> Range(r)]
  <2>1. r = [i \in 1 .. n |-> r[i]]
    BY <1>2
  <2>2. \A i \in 1 .. n : r[i] \in Range(r)
    BY <1>6 DEF Range
  <2> QED BY <2>1, <2>2
<1>8. r \in Seq(Range(r))
  BY <1>1, <1>7, SeqDef
<1>9. Len(r) = n
  BY <1>1, <1>6, <1>8, LenProperties
<1> QED BY <1>1, <1>3, <1>4, <1>5, <1>6, <1>8, <1>9 DEF n, m, r, IsSeq

\* The kinds of furniture that are mentioned.
Mentioned(items) ==
    {CHOOSE s \in Resolved(CATEGORIES, items[i].category) : TRUE :
        i \in {j \in DOMAIN items : Resolved(CATEGORIES, items[j].category) # {}}}

LEMMA MentionRange ==
    ASSUME NEW items, IsSeq(items), \A i \in DOMAIN items : \A x, y \in items[i].category : x = y
    PROVE  /\ Range(MentionOrder(items)) = Mentioned(items)
           /\ Cardinality(Mentioned(items)) \in Nat
           /\ DOMAIN MentionOrder(items) = 1 .. Cardinality(Mentioned(items))
<1> DEFINE slug(i) == Resolved(CATEGORIES, items[i].category)
           first == {i \in DOMAIN items : slug(i) # {} /\ \A j \in 1 .. i - 1 : slug(j) # slug(i)}
           order == InOrder(first, <)
           name(i) == CHOOSE s \in slug(i) : TRUE
           mention == MentionOrder(items)
<1>1. Len(items) \in Nat /\ DOMAIN items = 1 .. Len(items)
  BY LenProperties DEF IsSeq
<1>2. mention = [n \in DOMAIN order |-> name(order[n])]
  BY DEF MentionOrder
<1>3. \A i \in first : i \in DOMAIN items /\ slug(i) # {}
  OBVIOUS
<1>4. ASSUME NEW i \in DOMAIN items, slug(i) # {} PROVE \E j \in first : slug(j) = slug(i)
  <2> DEFINE alike == {j \in DOMAIN items : slug(j) = slug(i)}
  <2>1. alike \in SUBSET (1 .. Len(items)) /\ i \in alike
    BY <1>1
  <2>2. \A j \in alike : j \in Int /\ slug(j) = slug(i) /\ j \in DOMAIN items
    BY <1>1
  <2>3. \A j \in DOMAIN items : slug(j) = slug(i) => j \in alike
    OBVIOUS
  <2> HIDE DEF alike, slug
  <2>4. IsFiniteSet(alike)
    BY <1>1, <2>1, <2>2, PartOfInterval
  <2>5. PICK m \in alike : \A j \in alike : m <= j
    BY <2>1, <2>2, <2>4, FirstMember
  <2>6. \A j \in 1 .. m - 1 : slug(j) # slug(m)
    <3> SUFFICES ASSUME NEW j \in 1 .. m - 1, slug(j) = slug(m) PROVE FALSE
      OBVIOUS
    <3>1. m \in 1 .. Len(items) /\ j \in Int /\ j < m /\ j \in 1 .. Len(items)
      BY <1>1, <2>1, <2>5
    <3>2. j \in alike
      BY <1>1, <2>2, <2>3, <2>5, <3>1
    <3>3. m <= j
      BY <2>5, <3>2
    <3> QED BY <3>1, <3>3
  <2>7. m \in first
    BY <1>4, <2>2, <2>5, <2>6
  <2> QED BY <2>2, <2>5, <2>7
<1>5. IsFiniteSet(first) /\ \A x \in first : x \in Int
  <2>1. first \in SUBSET (1 .. Len(items))
    BY <1>1
  <2> HIDE DEF first
  <2>2. \A x \in first : x \in Int
    BY <1>1, <2>1
  <2> QED BY <1>1, <2>1, <2>2, PartOfInterval
<1> HIDE DEF first
<1> DEFINE k == Cardinality(first)
<1>6. /\ DOMAIN order = 1 .. k /\ order \in Seq(first) /\ Len(order) = k /\ Range(order) = first
      /\ k \in Nat /\ \A i, j \in 1 .. k : order[i] < order[j] <=> i < j
  BY <1>5, IndexOrder
<1>7. (\A n \in DOMAIN order : order[n] \in first) /\ \A i \in first : \E n \in DOMAIN order : order[n] = i
  BY <1>6 DEF Range
<1> HIDE DEF order, mention, name, slug
<1>8. DOMAIN mention = DOMAIN order /\ \A n \in DOMAIN order : mention[n] = name(order[n])
  BY <1>2
<1>9. ASSUME NEW x \in Range(mention) PROVE x \in Mentioned(items)
  <2>1. PICK n \in DOMAIN order : x = name(order[n])
    BY <1>8 DEF Range
  <2>2. order[n] \in DOMAIN items /\ slug(order[n]) # {}
    BY <1>3, <1>7
  <2> DEFINE i == order[n]
  <2>3. i \in {j \in DOMAIN items : slug(j) # {}} /\ x = name(i)
    BY <2>1, <2>2
  <2> HIDE DEF i
  <2> QED BY <2>3 DEF Mentioned, name, slug
<1>10. ASSUME NEW x \in Mentioned(items) PROVE x \in Range(mention)
  <2>1. PICK i \in {j \in DOMAIN items : slug(j) # {}} : x = CHOOSE s \in slug(i) : TRUE
    BY DEF Mentioned, slug
  <2>2. PICK j \in first : slug(j) = slug(i)
    BY <1>4, <2>1
  <2>3. PICK n \in DOMAIN order : order[n] = j
    BY <1>7
  <2>4. mention[n] = name(j)
    BY <1>8, <2>3
  <2>5. name(j) = x
    BY <2>1, <2>2 DEF name
  <2> QED BY <1>8, <2>4, <2>5 DEF Range
<1>11. \A i, j \in DOMAIN mention : mention[i] = mention[j] => i = j
  <2> SUFFICES ASSUME NEW i \in DOMAIN mention, NEW j \in DOMAIN mention, mention[i] = mention[j]
               PROVE  i = j
    OBVIOUS
  <2> DEFINE x == order[i]
             y == order[j]
  <2>1. x \in first /\ y \in first /\ name(x) = name(y)
    BY <1>7, <1>8
  <2> HIDE DEF x, y
  <2>2. slug(x) = {name(x)} /\ slug(y) = {name(y)}
    <3>1. ASSUME NEW z \in first PROVE slug(z) = {name(z)}
      <4>1. z \in DOMAIN items /\ slug(z) # {}
        BY <1>3
      <4>2. \A u, v \in slug(z) : u = v
        BY <4>1 DEF slug, Resolved
      <4> QED BY <4>1, <4>2 DEF name
    <3> QED BY <2>1, <3>1
  <2>3. slug(x) = slug(y)
    BY <2>1, <2>2
  <2>4. x = y
    <3>1. x \in 1 .. Len(items) /\ y \in 1 .. Len(items)
      BY <1>1, <1>3, <2>1
    <3>2. ~ (x < y) /\ ~ (y < x)
      <4>1. ASSUME NEW u \in first, NEW v \in first, slug(u) = slug(v) PROVE ~ (u < v)
        <5>1. \A w \in 1 .. v - 1 : slug(w) # slug(v)
          BY DEF first, slug
        <5>2. u \in 1 .. Len(items) /\ v \in 1 .. Len(items)
          BY <1>1, <1>3
        <5>3. u < v => u \in 1 .. v - 1
          BY <1>1, <5>2
        <5> QED BY <4>1, <5>1, <5>3
      <4> QED BY <2>1, <2>3, <4>1
    <3> QED BY <1>1, <3>1, <3>2
  <2>5. i \in 1 .. k /\ j \in 1 .. k
    BY <1>6, <1>8
  <2>6. ~ (order[i] < order[j]) /\ ~ (order[j] < order[i])
    <3>1. x \in 1 .. Len(items)
      BY <1>1, <1>3, <2>1
    <3>2. x \in Int
      BY <1>1, <3>1
    <3> QED BY <2>4, <3>2 DEF x, y
  <2>7. ~ (i < j) /\ ~ (j < i)
    BY <1>6, <2>5, <2>6
  <2> HIDE DEF k
  <2> QED BY <1>6, <2>5, <2>7
<1>12. Range(mention) = Mentioned(items)
  BY <1>9, <1>10
<1>13. DOMAIN mention = 1 .. k
  BY <1>6, <1>8
<1> HIDE DEF k
<1>14. Cardinality(Mentioned(items)) = k
  <2> DEFINE f == [i \in 1 .. k |-> mention[i]]
             T == Mentioned(items)
  <2>1. \A i \in 1 .. k : mention[i] \in Range(mention)
    BY <1>13 DEF Range
  <2>2. \A x \in Range(mention) : \E i \in 1 .. k : mention[i] = x
    BY <1>13 DEF Range
  <2>3. /\ f \in [1 .. k -> T] /\ \A x, y \in 1 .. k : f[x] = f[y] => x = y
        /\ \A x \in T : \E i \in 1 .. k : f[i] = x
    BY <1>11, <1>12, <1>13, <2>1, <2>2
  <2> HIDE DEF f, T
  <2>4. IsFiniteSet(1 .. k) /\ Cardinality(1 .. k) = k
    <3>1. 1 \in Int /\ k \in Int
      BY <1>6
    <3>2. IsFiniteSet(1 .. k) /\ Cardinality(1 .. k) = IF 1 > k THEN 0 ELSE k - 1 + 1
      BY <3>1, FS_Interval
    <3> QED BY <1>6, <3>2
  <2>5. Cardinality(T) = Cardinality(1 .. k)
    BY <2>3, <2>4, SameCount
  <2> QED BY <2>4, <2>5 DEF T
<1> QED BY <1>6, <1>12, <1>13, <1>14 DEF mention

LEMMA MentionedReversed ==
    ASSUME NEW items, IsSeq(items) PROVE Mentioned(Reverse(items)) = Mentioned(items)
<1> DEFINE r == Reverse(items)
           n == Len(items)
           m == Mirrored(n)
<1>1. /\ DOMAIN items = 1 .. n /\ DOMAIN r = 1 .. n
      /\ \A i \in 1 .. n : m[i] \in 1 .. n /\ r[i] = items[m[i]] /\ m[m[i]] = i
  BY MirrorFacts
<1> HIDE DEF r, n, m
<1>2. \A i \in 1 .. n : items[i] = r[m[i]]
  BY <1>1
<1>3. Mentioned(r) \subseteq Mentioned(items)
  <2> SUFFICES ASSUME NEW x \in Mentioned(r) PROVE x \in Mentioned(items)
    OBVIOUS
  <2>1. PICK i \in {j \in DOMAIN r : Resolved(CATEGORIES, r[j].category) # {}} :
            x = CHOOSE s \in Resolved(CATEGORIES, r[i].category) : TRUE
    BY DEF Mentioned
  <2> DEFINE k == m[i]
  <2>2. k \in DOMAIN items /\ items[k] = r[i]
    BY <1>1
  <2> HIDE DEF k
  <2>3. k \in {j \in DOMAIN items : Resolved(CATEGORIES, items[j].category) # {}}
    BY <2>1, <2>2
  <2>4. x = CHOOSE s \in Resolved(CATEGORIES, items[k].category) : TRUE
    BY <2>1, <2>2
  <2> QED BY <2>3, <2>4 DEF Mentioned
<1>4. Mentioned(items) \subseteq Mentioned(r)
  <2> SUFFICES ASSUME NEW x \in Mentioned(items) PROVE x \in Mentioned(r)
    OBVIOUS
  <2>1. PICK i \in {j \in DOMAIN items : Resolved(CATEGORIES, items[j].category) # {}} :
            x = CHOOSE s \in Resolved(CATEGORIES, items[i].category) : TRUE
    BY DEF Mentioned
  <2> DEFINE k == m[i]
  <2>2. k \in DOMAIN r /\ r[k] = items[i]
    BY <1>1, <1>2
  <2> HIDE DEF k
  <2>3. k \in {j \in DOMAIN r : Resolved(CATEGORIES, r[j].category) # {}}
    BY <2>1, <2>2
  <2>4. x = CHOOSE s \in Resolved(CATEGORIES, r[k].category) : TRUE
    BY <2>1, <2>2
  <2> QED BY <2>3, <2>4 DEF Mentioned
<1> QED BY <1>3, <1>4 DEF r

\* A slot, of what goes into it.
SlotWith(slug, quantity, materials, styles, room, colours, budget) ==
    [category |-> slug, quantity |-> quantity,
     hard |-> [NoHard EXCEPT !.category = {slug}, !.materials = materials],
     soft |-> [NoSoft EXCEPT !.styles = styles, !.room = room, !.colours = colours],
     budget |-> budget]

\* One slot, with other materials and colours, is the other.
With(o, materials, colours) == [o EXCEPT !.hard.materials = materials, !.soft.colours = colours]

LEMMA SlotWithFacts ==
    ASSUME NEW slug, NEW quantity, NEW styles, NEW room, NEW budget,
           NEW m1, NEW m2, NEW c1, NEW c2,
           NEW s, s = SlotWith(slug, quantity, m1, styles, room, c1, budget),
           NEW o, o = SlotWith(slug, quantity, m2, styles, room, c2, budget)
    PROVE  /\ With(o, s.hard.materials, s.soft.colours) = s
           /\ s.category = slug /\ s.hard.materials = m1 /\ o.hard.materials = m2
           /\ s.soft.colours = c1 /\ o.soft.colours = c2
           /\ s.quantity = quantity /\ o.quantity = quantity
<1>1. /\ s.category = slug /\ s.quantity = quantity /\ o.quantity = quantity
      /\ s.hard.materials = m1 /\ o.hard.materials = m2
      /\ s.soft.colours = c1 /\ o.soft.colours = c2
  BY DEF SlotWith, NoHard, NoSoft
<1> DEFINE H(m) == [NoHard EXCEPT !.category = {slug}, !.materials = m]
           S(c) == [NoSoft EXCEPT !.styles = styles, !.room = room, !.colours = c]
           of(h, t) == [category |-> slug, quantity |-> quantity, hard |-> h, soft |-> t, budget |-> budget]
<1>2. s = of(H(m1), S(c1)) /\ o = of(H(m2), S(c2))
  BY DEF SlotWith
<1>3. [H(m2) EXCEPT !.materials = m1] = H(m1) /\ [S(c2) EXCEPT !.colours = c1] = S(c1)
  BY DEF NoHard, NoSoft
<1> HIDE DEF H, S
<1>4. [o EXCEPT !.hard.materials = m1, !.soft.colours = c1]
          = [o EXCEPT !.hard = [o.hard EXCEPT !.materials = m1], !.soft = [o.soft EXCEPT !.colours = c1]]
  OBVIOUS
<1>5. o.hard = H(m2) /\ o.soft = S(c2)
  BY <1>2
<1> DEFINE r == [o EXCEPT !.hard = H(m1), !.soft = S(c1)]
           columns == {"category", "quantity", "hard", "soft", "budget"}
<1>6. /\ DOMAIN r = columns /\ r = [k \in DOMAIN r |-> r[k]]
      /\ r.category = slug /\ r.quantity = quantity /\ r.budget = budget
      /\ r.hard = H(m1) /\ r.soft = S(c1)
  <2>1. DOMAIN o = columns
    BY <1>2
  <2>2. o.category = slug /\ o.quantity = quantity /\ o.budget = budget
    BY <1>2
  <2>3. DOMAIN r = DOMAIN o /\ r = [k \in DOMAIN r |-> r[k]]
    OBVIOUS
  <2>4. r.category = o.category /\ r.quantity = o.quantity /\ r.budget = o.budget
    BY <2>1
  <2>5. r.hard = H(m1) /\ r.soft = S(c1)
    BY <2>1
  <2> HIDE DEF r
  <2> QED BY <2>1, <2>2, <2>3, <2>4, <2>5
<1> HIDE DEF r
<1>7. r = of(H(m1), S(c1))
  BY <1>6
<1> HIDE DEF of
<1>8. r = s
  BY <1>2, <1>7
<1>9. [o EXCEPT !.hard.materials = m1, !.soft.colours = c1] = r
  BY <1>3, <1>4, <1>5 DEF r
<1> QED BY <1>1, <1>8, <1>9 DEF With

\* The first terms are named, and are all of them when those are few.
LEMMA FirstTermsFacts ==
    ASSUME NEW V, IsFiniteSet(V), NEW lists,
           NEW all, all = Resolved(V, UNION {Range(lists[i]) : i \in DOMAIN lists})
    PROVE  /\ FirstTerms(V, lists) \subseteq all
           /\ Cardinality(all) <= MAX_TERMS => FirstTerms(V, lists) = all
<1> DEFINE labels == Spread(lists)
           slug(p) == Lookup(V, labels[p])
           named == {p \in DOMAIN labels : slug(p) # Unmapped}
           earlier(p) == {slug(q) : q \in {r \in named : r[1] < p[1] \/ (r[1] = p[1] /\ r[2] < p[2])}}
           few(p) == Cardinality(earlier(p) \ {slug(p)}) < MAX_TERMS
           S == {slug(p) : p \in named}
<1>1. FirstTerms(V, lists) = {slug(p) : p \in {q \in named : few(q)}}
  BY DEF FirstTerms
<1>2. all = S
  <2>1. /\ DOMAIN labels = UNION {{i} \X DOMAIN lists[i] : i \in DOMAIN lists}
        /\ \A p \in DOMAIN labels : labels[p] = lists[p[1]][p[2]]
    BY DEF Spread
  <2> HIDE DEF labels
  <2>2. ASSUME NEW x \in all PROVE x \in S
    <3>1. PICK l \in UNION {Range(lists[i]) : i \in DOMAIN lists} : x = Lookup(V, l) /\ x # Unmapped
      BY DEF Resolved
    <3>2. PICK i \in DOMAIN lists : l \in Range(lists[i])
      OBVIOUS
    <3>3. PICK j \in DOMAIN lists[i] : l = lists[i][j]
      BY <3>2 DEF Range
    <3>4. <<i, j>> \in DOMAIN labels /\ labels[<<i, j>>] = l
      BY <2>1, <3>3
    <3> QED BY <3>1, <3>4
  <2>3. ASSUME NEW x \in S PROVE x \in all
    <3>1. PICK p \in DOMAIN labels : x = Lookup(V, labels[p]) /\ x # Unmapped
      OBVIOUS
    <3>2. PICK i \in DOMAIN lists : p \in {i} \X DOMAIN lists[i]
      BY <2>1
    <3>3. labels[p] \in Range(lists[i])
      BY <2>1, <3>2 DEF Range
    <3>4. labels[p] \in UNION {Range(lists[k]) : k \in DOMAIN lists}
      BY <3>3
    <3> QED BY <3>1, <3>4 DEF Resolved
  <2> QED BY <2>2, <2>3
<1>3. IsFiniteSet(S)
  BY <1>2, ResolvedFinite
<1>4. \A p \in named : slug(p) \in S /\ earlier(p) \ {slug(p)} \subseteq S \ {slug(p)}
  OBVIOUS
<1>5. ASSUME Cardinality(S) <= MAX_TERMS, NEW p \in named PROVE few(p)
  <2> DEFINE x == slug(p)
             E == earlier(p) \ {x}
  <2>1. x \in S /\ E \subseteq S \ {x}
    BY <1>4
  <2> HIDE DEF x, E, S
  <2>2. IsFiniteSet(S \ {x}) /\ Cardinality(S \ {x}) = Cardinality(S) - 1 /\ Cardinality(S) \in Nat
    BY <1>3, <2>1, FS_RemoveElement, FS_CardinalityType
  <2>3. Cardinality(E) <= Cardinality(S \ {x}) /\ Cardinality(E) \in Nat
    BY <2>1, <2>2, FS_Subset, FS_CardinalityType
  <2>4. MAX_TERMS \in Int
    BY TermsAssumption
  <2>5. Cardinality(E) < MAX_TERMS
    BY <1>5, <2>2, <2>3, <2>4
  <2> QED BY <2>5 DEF E, x
<1> HIDE DEF few, slug, named
<1> QED BY <1>1, <1>2, <1>5

\* What is kept of the terms that were named.
Kept(part, other, named) == IF Cardinality(named) <= MAX_TERMS THEN other = part ELSE other \subseteq named

LEMMA FirstTermsKept ==
    ASSUME NEW V, IsFiniteSet(V), NEW A, NEW B, NEW m,
           NEW f, DOMAIN f = A, NEW g, DOMAIN g = B,
           \A i \in A : m[i] \in B /\ f[i] = g[m[i]],
           \A i \in B : m[i] \in A /\ g[i] = f[m[i]]
    PROVE  Kept(FirstTerms(V, f), FirstTerms(V, g), Resolved(V, UNION {Range(f[i]) : i \in DOMAIN f}))
<1> DEFINE u == UNION {Range(f[i]) : i \in DOMAIN f}
           w == UNION {Range(g[i]) : i \in DOMAIN g}
<1>1. ASSUME NEW x \in u PROVE x \in w
  <2>1. PICK i \in A : x \in Range(f[i])
    OBVIOUS
  <2>2. m[i] \in DOMAIN g /\ x \in Range(g[m[i]])
    BY <2>1
  <2> QED BY <2>2
<1>2. ASSUME NEW x \in w PROVE x \in u
  <2>1. PICK i \in B : x \in Range(g[i])
    OBVIOUS
  <2>2. m[i] \in DOMAIN f /\ x \in Range(f[m[i]])
    BY <2>1
  <2> QED BY <2>2
<1>3. u = w
  BY <1>1, <1>2
<1> DEFINE all == Resolved(V, u)
<1>4. /\ FirstTerms(V, f) \subseteq all
      /\ Cardinality(all) <= MAX_TERMS => FirstTerms(V, f) = all
  BY FirstTermsFacts
<1>5. all = Resolved(V, w)
  BY <1>3
<1>6. /\ FirstTerms(V, g) \subseteq all
      /\ Cardinality(all) <= MAX_TERMS => FirstTerms(V, g) = all
  <2> HIDE DEF all
  <2> QED BY <1>5, FirstTermsFacts
<1> HIDE DEF all, u
<1>7. Kept(FirstTerms(V, f), FirstTerms(V, g), all)
  BY <1>4, <1>6 DEF Kept
<1> QED BY <1>7 DEF all, u

\* The materials and the colours that the mentions of one kind name.
NamedMaterials(slug, items) ==
    Resolved(MATERIALS, UNION {Range(items[i].materials) : i \in Mentions(slug, items)})
NamedColours(slug, items, common) ==
    Resolved(COLOURS, Range(common) \cup UNION {Range(items[i].colours) : i \in Mentions(slug, items)})

Alike(s, o, items, common) ==
    /\ With(o, s.hard.materials, s.soft.colours) = s
    /\ Kept(s.hard.materials, o.hard.materials, NamedMaterials(s.category, items))
    /\ Kept(s.soft.colours, o.soft.colours, NamedColours(s.category, items, common))

\* The mentions of one kind, counted from the end, make the same slot but for
\* the terms that are cut.
LEMMA SlotReversed ==
    ASSUME NEW d, NEW e, IsSeq(d.items), e.items = Reverse(d.items),
           e.styles = d.styles, e.room = d.room, e.colours = d.colours,
           NEW slug,
           \A i \in DOMAIN d.items : d.items[i].quantity \in Int,
           \A i \in DOMAIN d.items :
               Resolved(CATEGORIES, d.items[i].category) = {slug} =>
                   \A b \in d.items[i].budget : b \in Int
    PROVE  /\ Alike(SlotOf(slug, d.items, d), SlotOf(slug, e.items, e), d.items, d.colours)
           /\ SlotOf(slug, e.items, e).quantity = SlotOf(slug, d.items, d).quantity
<1> DEFINE s == d.items
           r == Reverse(s)
           n == Len(s)
           m == Mirrored(n)
           A == Mentions(slug, s)
           B == Mentions(slug, r)
<1>0. /\ A = {i \in DOMAIN s : Resolved(CATEGORIES, s[i].category) = {slug}}
      /\ B = {i \in DOMAIN r : Resolved(CATEGORIES, r[i].category) = {slug}}
  BY DEF Mentions
<1>1. /\ n \in Nat /\ DOMAIN s = 1 .. n /\ DOMAIN r = 1 .. n /\ Len(r) = n
      /\ \A i \in 1 .. n : m[i] \in 1 .. n /\ r[i] = s[m[i]] /\ m[m[i]] = i
  BY MirrorFacts
<1> HIDE DEF r, n, m, A, B
<1>2. \A i \in B : m[i] \in A /\ r[i] = s[m[i]] /\ m[m[i]] = i
  BY <1>0, <1>1
<1>3. \A i \in A : m[i] \in B /\ s[i] = r[m[i]] /\ m[m[i]] = i
  BY <1>0, <1>1
<1>4. IsFiniteSet(A) /\ IsFiniteSet(B) /\ A \in SUBSET (1 .. n) /\ B \in SUBSET (1 .. n)
  <2>1. A \in SUBSET (1 .. n) /\ B \in SUBSET (1 .. n)
    BY <1>0, <1>1
  <2> QED BY <1>1, <2>1, PartOfInterval
<1>5. /\ \A i \in A : s[i].quantity \in Int
      /\ \A i \in A : \A b \in s[i].budget : b \in Int
  BY <1>0
<1> DEFINE fA == [i \in A |-> s[i].quantity]
           fB == [i \in B |-> r[i].quantity]
           gA == [i \in A |-> s[i]]
           gB == [i \in B |-> r[i]]
           lA == [i \in A |-> s[i].materials]
           lB == [i \in B |-> r[i].materials]
           last == n + 1
           kA == [i \in A \cup {last} |-> IF i \in A THEN s[i].colours ELSE d.colours]
           kB == [i \in B \cup {last} |-> IF i \in B THEN r[i].colours ELSE d.colours]
           mA == FirstTerms(MATERIALS, lA)
           mB == FirstTerms(MATERIALS, lB)
           cA == FirstTerms(COLOURS, kA)
           cB == FirstTerms(COLOURS, kB)
           styles == Resolved(STYLES, d.styles)
           room == Resolved(ROOM_TYPES, d.room)
<1>6. SlotOf(slug, d.items, d) = SlotWith(slug, SumOf(fA), mA, styles, room, cA, MergedBudget(gA))
  BY DEF SlotOf, SlotWith, A, n
<1>7. SlotOf(slug, e.items, e) = SlotWith(slug, SumOf(fB), mB, styles, room, cB, MergedBudget(gB))
  <2>1. e.items = r
    BY DEF r
  <2>2. [i \in B \cup {Len(r) + 1} |-> IF i \in B THEN r[i].colours ELSE e.colours] = kB
    BY <1>1
  <2>3. SlotOf(slug, r, e) = SlotWith(slug, SumOf(fB), mB, styles, room,
            FirstTerms(COLOURS, [i \in B \cup {Len(r) + 1} |-> IF i \in B THEN r[i].colours ELSE e.colours]),
            MergedBudget(gB))
    BY DEF SlotOf, SlotWith, B
  <2> HIDE DEF kB, lB, gB, fB
  <2> QED BY <2>1, <2>2, <2>3
<1>8. {m[i] : i \in B} = A /\ \A i, j \in B : m[i] = m[j] => i = j
  BY <1>2, <1>3
<1>9. Kept(mA, mB, NamedMaterials(slug, s))
  <2>1. /\ DOMAIN lA = A /\ DOMAIN lB = B /\ \A i \in A : lA[i] = s[i].materials
        /\ \A i \in A : m[i] \in B /\ lA[i] = lB[m[i]]
        /\ \A i \in B : m[i] \in A /\ lB[i] = lA[m[i]]
    BY <1>2, <1>3
  <2>2. {Range(lA[i]) : i \in DOMAIN lA} = {Range(s[i].materials) : i \in A}
    <3> HIDE DEF lA
    <3> QED BY <2>1
  <2> HIDE DEF lA, lB
  <2>3. IsFiniteSet(MATERIALS)
    BY ThreeAreFinite DEF MATERIALS
  <2>4. Kept(mA, mB, Resolved(MATERIALS, UNION {Range(lA[i]) : i \in DOMAIN lA}))
    BY <2>1, <2>3, FirstTermsKept
  <2> QED BY <2>2, <2>4 DEF NamedMaterials, A
<1>10. Kept(cA, cB, NamedColours(slug, s, d.colours))
  <2> DEFINE A2 == A \cup {last}
             B2 == B \cup {last}
             m2 == [i \in 1 .. n + 1 |-> IF i = last THEN last ELSE m[i]]
  <2>1. last \notin A /\ last \notin B
    BY <1>1, <1>4
  <2>2. A2 \subseteq 1 .. n + 1 /\ B2 \subseteq 1 .. n + 1
    BY <1>1, <1>4
  <2>3. /\ DOMAIN kA = A2 /\ DOMAIN kB = B2
        /\ kA[last] = d.colours /\ kB[last] = d.colours
        /\ \A i \in A : kA[i] = s[i].colours
        /\ \A i \in B : kB[i] = r[i].colours
    BY <2>1
  <2>4. m2[last] = last /\ (\A i \in A : m2[i] = m[i]) /\ \A i \in B : m2[i] = m[i]
    BY <2>1, <2>2
  <2> HIDE DEF m2, last, kA, kB
  <2>5. /\ \A i \in A2 : m2[i] \in B2 /\ kA[i] = kB[m2[i]]
        /\ \A i \in B2 : m2[i] \in A2 /\ kB[i] = kA[m2[i]]
    BY <1>2, <1>3, <2>3, <2>4
  <2>6. IsFiniteSet(COLOURS)
    BY ThreeAreFinite DEF COLOURS
  <2> DEFINE W == UNION {Range(kA[i]) : i \in DOMAIN kA}
             U == Range(d.colours) \cup UNION {Range(s[i].colours) : i \in A}
  <2>7. Kept(cA, cB, Resolved(COLOURS, W))
    <3> HIDE DEF A2, B2
    <3> QED BY <2>3, <2>5, <2>6, FirstTermsKept
  <2>8. ASSUME NEW x \in W PROVE x \in U
    <3>1. PICK i \in A2 : x \in Range(kA[i])
      BY <2>3
    <3> QED BY <2>3, <3>1
  <2>9. ASSUME NEW x \in U PROVE x \in W
    <3>1. CASE x \in Range(d.colours)
      BY <2>3, <3>1
    <3>2. ASSUME NEW i \in A, x \in Range(s[i].colours) PROVE x \in W
      BY <2>3, <3>2
    <3> QED BY <2>9, <3>1, <3>2
  <2>10. W = U
    BY <2>8, <2>9
  <2> HIDE DEF W, cA, cB
  <2> QED BY <2>7, <2>10 DEF NamedColours, A
<1> HIDE DEF fA, fB, gA, gB, lA, lB, kA, kB, mA, mB, cA, cB, styles, room
<1>11. ASSUME NEW f, DOMAIN f = B, NEW g, DOMAIN g = A,
              \A i \in B : f[i] = g[m[i]], \A i \in A : g[i] \in Int
       PROVE  SumOf(f) = SumOf(g)
  <2>1. SumOf(f) = Sum(f, B) /\ SumOf(g) = Sum(g, A)
    BY <1>4, <1>11, SumOfIs
  <2>2. \A i \in B : f[i] = g[m[i]] /\ g[m[i]] \in Int
    BY <1>2, <1>11
  <2>3. \A i, j \in B : m[i] = m[j] => i = j
    BY <1>8
  <2>4. Sum(f, B) = Sum(g, {m[i] : i \in B})
    <3>1. IsFiniteSet(B)
      BY <1>4
    <3> QED BY <2>2, <2>3, <3>1, SumRenamed
  <2> QED BY <1>8, <2>1, <2>4
<1>12. SumOf(fB) = SumOf(fA)
  <2>1. DOMAIN fB = B /\ DOMAIN fA = A
    BY DEF fA, fB
  <2>2. \A i \in B : fB[i] = fA[m[i]]
    BY <1>2 DEF fA, fB
  <2>3. \A i \in A : fA[i] \in Int
    BY <1>5 DEF fA
  <2> HIDE DEF fA, fB
  <2> QED BY <1>11, <2>1, <2>2, <2>3
<1>13. MergedBudget(gB) = MergedBudget(gA)
  <2> DEFINE hA == [i \in A |-> CHOOSE b \in s[i].budget : TRUE]
             hB == [i \in B |-> CHOOSE b \in r[i].budget : TRUE]
             all(S, q) == \A i \in S : q[i].budget # {}
  <2>1. MergedBudget(gA) = IF all(A, s) THEN {SumOf(hA)} ELSE {}
    <3> DEFINE hG == [i \in DOMAIN gA |-> CHOOSE b \in gA[i].budget : TRUE]
    <3>1. DOMAIN gA = A /\ \A i \in A : gA[i] = s[i]
      BY DEF gA
    <3>2. MergedBudget(gA) = IF all(DOMAIN gA, gA) THEN {SumOf(hG)} ELSE {}
      BY Zenon DEF MergedBudget
    <3> HIDE DEF gA
    <3>3. hG = hA
      BY <3>1
    <3>4. all(DOMAIN gA, gA) <=> all(A, s)
      BY <3>1
    <3> HIDE DEF all, hA, hG
    <3> QED BY <3>2, <3>3, <3>4
  <2>2. MergedBudget(gB) = IF all(B, r) THEN {SumOf(hB)} ELSE {}
    <3> DEFINE hG == [i \in DOMAIN gB |-> CHOOSE b \in gB[i].budget : TRUE]
    <3>1. DOMAIN gB = B /\ \A i \in B : gB[i] = r[i]
      BY DEF gB
    <3>2. MergedBudget(gB) = IF all(DOMAIN gB, gB) THEN {SumOf(hG)} ELSE {}
      BY Zenon DEF MergedBudget
    <3> HIDE DEF gB
    <3>3. hG = hB
      BY <3>1
    <3>4. all(DOMAIN gB, gB) <=> all(B, r)
      BY <3>1
    <3> HIDE DEF all, hB, hG
    <3> QED BY <3>2, <3>3, <3>4
  <2>3. all(A, s) <=> all(B, r)
    BY <1>2, <1>3
  <2>4. ASSUME all(A, s) PROVE SumOf(hB) = SumOf(hA)
    <3>1. DOMAIN hB = B /\ DOMAIN hA = A
      OBVIOUS
    <3>2. \A i \in B : hB[i] = hA[m[i]]
      BY <1>2
    <3>3. \A i \in A : hA[i] \in Int
      <4> TAKE i \in A
      <4>1. s[i].budget # {} /\ \A b \in s[i].budget : b \in Int
        BY <1>5, <2>4
      <4>2. hA[i] = CHOOSE b \in s[i].budget : TRUE
        OBVIOUS
      <4> HIDE DEF hA
      <4> QED BY <4>1, <4>2
    <3> HIDE DEF hA, hB
    <3> QED BY <1>11, <3>1, <3>2, <3>3
  <2> HIDE DEF all, hA, hB
  <2> QED BY <2>1, <2>2, <2>3, <2>4
<1> DEFINE q == SumOf(fA)
           b == MergedBudget(gA)
           sD == SlotOf(slug, d.items, d)
           sE == SlotOf(slug, e.items, e)
<1>14. /\ sD = SlotWith(slug, q, mA, styles, room, cA, b)
       /\ sE = SlotWith(slug, q, mB, styles, room, cB, b)
  BY <1>6, <1>7, <1>12, <1>13
<1> HIDE DEF q, b, sD, sE
<1>15. /\ With(sE, sD.hard.materials, sD.soft.colours) = sD
       /\ sD.category = slug /\ sD.hard.materials = mA /\ sE.hard.materials = mB
       /\ sD.soft.colours = cA /\ sE.soft.colours = cB
       /\ sD.quantity = q /\ sE.quantity = q
  BY <1>14, SlotWithFacts
<1>16. Alike(sD, sE, s, d.colours)
  BY <1>9, <1>10, <1>15 DEF Alike
<1> QED BY <1>15, <1>16 DEF sD, sE

\* The slots of a draft, and why a draft is refused.
SlotsFor(x) == [n \in DOMAIN MentionOrder(x.items) |-> SlotOf(MentionOrder(x.items)[n], x.items, x)]

Refused(x) ==
    \/ ~ ValidRoomDraft(x)
    \/ ~ UsableBudget(x.budget)
    \/ \E i \in DOMAIN x.items : /\ Resolved(CATEGORIES, x.items[i].category) # {}
                                  /\ ~ UsableBudget(x.items[i].budget)
    \/ \E n \in DOMAIN SlotsFor(x) : SlotsFor(x)[n].quantity > MAX_QUANTITY

SpecOf(x, words) == [slots |-> SlotsFor(x), budget |-> x.budget, query |-> ScoringQuery(words)]

LEMMA SpecificationIs ==
    ASSUME NEW x, NEW words
    PROVE  SpecificationFromRoomDraft(x, words) = IF Refused(x) THEN {} ELSE {SpecOf(x, words)}
<1> QED BY SMT DEF SpecificationFromRoomDraft, Refused, SpecOf, SlotsFor

\* The draft is accepted with its pieces named the other way round, and gives
\* as many slots, each like one of the others.
LEMMA OrderImmaterial == ASSUME Planned PROVE MentionOrderImmaterial
<1> SUFFICES ASSUME Answered("room"), NEW v \in Turns
             PROVE  LET reordered == [request.draft EXCEPT !.items = Reverse(@)]
                    IN  \E other \in SpecificationFromRoomDraft(reordered, v.query) :
                            /\ Len(other.slots) = Len(answer.spec.slots)
                            /\ \A s \in Range(answer.spec.slots) : \E o \in Range(other.slots) :
                                   Alike(s, o, request.draft.items, request.draft.colours)
  BY DEF MentionOrderImmaterial, Alike, With, Kept, NamedMaterials, NamedColours
<1>1. PICK t \in Turns : \E s \in SpecificationFromRoomDraft(request.draft, t.query) :
              answer = RoomReply(PlanRoom(Candidates, s), s)
  BY DEF Planned
<1>2. PICK s \in SpecificationFromRoomDraft(request.draft, t.query) :
              answer = RoomReply(PlanRoom(Candidates, s), s)
  BY <1>1
<1>3. answer.spec = s
  BY <1>2 DEF RoomReply
<1> DEFINE d == request.draft
           e == [d EXCEPT !.items = Reverse(@)]
           items == d.items
           r == Reverse(items)
           M == Mentioned(items)
<1>4. IsSeq(items) /\ {"items", "styles", "colours", "room", "budget"} \subseteq DOMAIN d
  BY RequestAssumption DEF IsSeq, Planned, Answered
<1>4a. \A i \in DOMAIN items : \A x, y \in items[i].category : x = y
  <2>1. \A item \in Range(items) : \A x, y \in item.category : x = y
    BY RequestAssumption DEF Planned, Answered
  <2> HIDE DEF items
  <2> QED BY <2>1 DEF Range
<1>5. /\ e.items = r /\ e.styles = d.styles /\ e.colours = d.colours
      /\ e.room = d.room /\ e.budget = d.budget
  BY <1>4
<1> DEFINE slotsD == SlotsFor(d)
           slotsE == SlotsFor(e)
           specE == SpecOf(e, v.query)
<1>6. ~ Refused(d) /\ s = SpecOf(d, t.query)
  <2>1. s \in SpecificationFromRoomDraft(d, t.query)
    OBVIOUS
  <2> HIDE DEF d
  <2> QED BY <2>1, SpecificationIs
<1>7. slotsD = [i \in DOMAIN MentionOrder(items) |-> SlotOf(MentionOrder(items)[i], items, d)]
  BY DEF SlotsFor
<1> HIDE DEF slotsD, slotsE, specE, d, e, items, r
<1>8. slotsE = [i \in DOMAIN MentionOrder(r) |-> SlotOf(MentionOrder(r)[i], r, e)]
  BY <1>5 DEF SlotsFor, slotsE
<1>9. specE.slots = slotsE /\ s.slots = slotsD
  BY <1>6 DEF SpecOf, specE, slotsE, slotsD
<1>10. /\ ValidRoomDraft(d) /\ UsableBudget(d.budget)
       /\ \A i \in DOMAIN items : Resolved(CATEGORIES, items[i].category) # {} => UsableBudget(items[i].budget)
       /\ \A i \in DOMAIN slotsD : ~ (slotsD[i].quantity > MAX_QUANTITY)
  BY <1>6 DEF Refused, items, slotsD
<1> DEFINE n == Len(items)
           m == Mirrored(n)
<1>11. /\ DOMAIN items = 1 .. n /\ DOMAIN r = 1 .. n /\ Len(r) = n /\ IsSeq(r)
       /\ \A i \in 1 .. n : m[i] \in 1 .. n /\ r[i] = items[m[i]] /\ m[m[i]] = i
  BY <1>4, MirrorFacts DEF r
<1>12. Mentioned(r) = M
  BY <1>4, MentionedReversed DEF r, M
<1>12a. \A i \in DOMAIN r : \A x, y \in r[i].category : x = y
  BY <1>4a, <1>11
<1>13. /\ Range(MentionOrder(items)) = M /\ Range(MentionOrder(r)) = M
       /\ Cardinality(M) \in Nat
       /\ DOMAIN MentionOrder(items) = 1 .. Cardinality(M) /\ DOMAIN MentionOrder(r) = 1 .. Cardinality(M)
  BY <1>4, <1>4a, <1>11, <1>12, <1>12a, MentionRange DEF M
<1>14. ASSUME NEW slug
       PROVE  /\ Alike(SlotOf(slug, items, d), SlotOf(slug, r, e), items, d.colours)
              /\ SlotOf(slug, r, e).quantity = SlotOf(slug, items, d).quantity
  <2>1. \A i \in DOMAIN d.items : d.items[i].quantity \in Int
    BY <1>10 DEF ValidRoomDraft, MAX_QUANTITY, items
  <2>2. \A i \in DOMAIN d.items :
            Resolved(CATEGORIES, d.items[i].category) = {slug} =>
                \A b \in d.items[i].budget : b \in Int
    <3> SUFFICES ASSUME NEW i \in DOMAIN d.items, Resolved(CATEGORIES, d.items[i].category) = {slug},
                        NEW b \in d.items[i].budget
                 PROVE  b \in Int
      OBVIOUS
    <3>1. UsableBudget(d.items[i].budget)
      BY <1>10 DEF items
    <3>2. b \in 1 .. MAX_PRICE
      BY <3>1 DEF UsableBudget
    <3> QED BY <3>2
  <2>3. e.items = Reverse(d.items) /\ IsSeq(d.items)
    BY <1>4, <1>5 DEF r, items
  <2>4. /\ Alike(SlotOf(slug, d.items, d), SlotOf(slug, e.items, e), d.items, d.colours)
        /\ SlotOf(slug, e.items, e).quantity = SlotOf(slug, d.items, d).quantity
    BY <1>5, <2>1, <2>2, <2>3, SlotReversed
  <2> QED BY <1>5, <2>4 DEF items
<1> HIDE DEF n, m, M
<1>15. ASSUME NEW x \in Range(slotsD) PROVE \E o \in Range(slotsE) : Alike(x, o, items, d.colours)
  <2>1. PICK i \in DOMAIN MentionOrder(items) : x = SlotOf(MentionOrder(items)[i], items, d)
    BY <1>7 DEF Range
  <2>2. MentionOrder(items)[i] \in Range(MentionOrder(r))
    BY <1>13, <2>1 DEF Range
  <2>3. PICK j \in DOMAIN MentionOrder(r) : MentionOrder(r)[j] = MentionOrder(items)[i]
    BY <2>2 DEF Range
  <2>4. slotsE[j] = SlotOf(MentionOrder(items)[i], r, e) /\ slotsE[j] \in Range(slotsE)
    BY <1>8, <2>3 DEF Range
  <2>5. Alike(x, slotsE[j], items, d.colours)
    BY <1>14, <2>1, <2>4
  <2> QED BY <2>4, <2>5
<1>16. ASSUME NEW j \in DOMAIN slotsE PROVE \E i \in DOMAIN slotsD : slotsE[j].quantity = slotsD[i].quantity
  <2>1. j \in DOMAIN MentionOrder(r) /\ slotsE[j] = SlotOf(MentionOrder(r)[j], r, e)
    BY <1>8
  <2>2. MentionOrder(r)[j] \in Range(MentionOrder(items))
    BY <1>13, <2>1 DEF Range
  <2>3. PICK i \in DOMAIN MentionOrder(items) : MentionOrder(items)[i] = MentionOrder(r)[j]
    BY <2>2 DEF Range
  <2>4. i \in DOMAIN slotsD /\ slotsD[i] = SlotOf(MentionOrder(r)[j], items, d)
    BY <1>7, <2>3
  <2> QED BY <1>14, <2>1, <2>4
<1>17. Len(slotsE) = Len(slotsD)
  <2>1. DOMAIN slotsE = 1 .. Cardinality(M) /\ DOMAIN slotsD = 1 .. Cardinality(M)
    BY <1>7, <1>8, <1>13
  <2>2. ASSUME NEW q, q = [i \in DOMAIN q |-> q[i]], NEW k \in Nat, DOMAIN q = 1 .. k PROVE Len(q) = k
    <3>1. q \in [1 .. k -> Range(q)]
      BY <2>2 DEF Range
    <3> QED BY <2>2, <3>1, FunIsSeq
  <2>3. slotsE = [i \in DOMAIN slotsE |-> slotsE[i]] /\ slotsD = [i \in DOMAIN slotsD |-> slotsD[i]]
    BY <1>7, <1>8
  <2> QED BY <1>13, <2>1, <2>2, <2>3
<1>18. ~ Refused(e)
  <2>1. ValidRoomDraft(e)
    <3>1. /\ Len(e.items) <= MAX_ITEMS
          /\ Surfaces(e.styles) /\ Len(e.colours) <= MAX_TERMS /\ Cardinality(e.room) <= 1
      BY <1>5, <1>10, <1>11 DEF ValidRoomDraft, n, items
    <3>2. \A i \in DOMAIN items : /\ items[i].quantity \in 1 .. MAX_QUANTITY
                                  /\ Len(items[i].colours) <= MAX_TERMS
                                  /\ Len(items[i].materials) <= MAX_TERMS
      BY <1>10 DEF ValidRoomDraft, items
    <3>3. \A i \in DOMAIN e.items : /\ e.items[i].quantity \in 1 .. MAX_QUANTITY
                                    /\ Len(e.items[i].colours) <= MAX_TERMS
                                    /\ Len(e.items[i].materials) <= MAX_TERMS
      <4> TAKE i \in DOMAIN e.items
      <4>1. m[i] \in DOMAIN items /\ e.items[i] = items[m[i]]
        BY <1>5, <1>11
      <4> QED BY <3>2, <4>1
    <3> QED BY <3>1, <3>3 DEF ValidRoomDraft
  <2>2. UsableBudget(e.budget)
    BY <1>5, <1>10
  <2>3. \A i \in DOMAIN r : Resolved(CATEGORIES, r[i].category) # {} => UsableBudget(r[i].budget)
    <3> TAKE i \in DOMAIN r
    <3>1. m[i] \in DOMAIN items /\ r[i] = items[m[i]]
      BY <1>11
    <3> QED BY <1>10, <3>1
  <2>4. \A i \in DOMAIN slotsE : ~ (slotsE[i].quantity > MAX_QUANTITY)
    <3> TAKE i \in DOMAIN slotsE
    <3>1. PICK j \in DOMAIN slotsD : slotsE[i].quantity = slotsD[j].quantity
      BY <1>16
    <3> QED BY <1>10, <3>1
  <2> QED BY <1>5, <2>1, <2>2, <2>3, <2>4 DEF Refused, slotsE
<1>19. specE \in SpecificationFromRoomDraft(e, v.query)
  BY <1>18, SpecificationIs DEF specE
<1>20. /\ Len(specE.slots) = Len(answer.spec.slots)
       /\ \A x \in Range(answer.spec.slots) : \E o \in Range(specE.slots) : Alike(x, o, items, d.colours)
  BY <1>3, <1>9, <1>15, <1>17
<1> HIDE DEF specE
<1> QED BY <1>19, <1>20 DEF e, d, items

-----------------------------------------------------------------------------
(* What every answer keeps                                                  *)

\* A page shows no more than matched, every score shown lies between none and
\* the whole, and an answer has one of the statuses of the endpoints
\* (search/ranking.py, search/router.py).
THEOREM AnswerTypes == Spec => []TypeOK
<1> QED BY AlwaysServed, ServedTypes, PTL

\* A product whose seller confirmed everything that was wished for comes before
\* one for which some of it is only guessed, when the rest of their scores is
\* alike: however sure the guess, and whatever the prices (search/ranking.py,
\* INFERRED_CEILING).
THEOREM ConfirmedBeatsAGuess == Spec => []ConfirmedBeatsGuessed
<1> QED BY AlwaysServed, ConfirmedWins, PTL

\* Neither the page of a search nor the alternatives to an empty one depend on
\* the order in which the database returned the candidates (search/router.py,
\* search/ranking.py, recommendations/alternatives.py).
THEOREM PageIsTheSame == Spec => []SamePageInAnyOrder
<1> QED BY AlwaysServed, SamePages, PTL

\* An empty page comes with a question, with a constraint that excluded
\* something, or from a catalogue with nothing for sale (search/responses.py,
\* search/clarification.py).
THEOREM EmptyPagesAreExplained == Spec => []EmptyPageExplained
<1> QED BY AlwaysServed, EmptyPagesExplained, PTL

\* The reasons an alternative is offered with are the way to it: without the
\* constraints they name, the same search finds it
\* (recommendations/alternatives.py).
THEOREM ShortfallsLeadBack == Spec => []ShortfallsAreTheWayBack
<1> QED BY AlwaysServed, ShortfallsHold, PTL

\* No product on a page breaks a limit that the model's draft states
\* (ai/guardrails.py, search/filters.py).
THEOREM StatedLimitsAlwaysHold == Spec => []StatedLimitsHold
<1> QED BY AlwaysServed, StatedLimitsHeld, PTL

\* The pages of the catalogue and of the reviews of a target leave none out and
\* show none twice (catalog/gateway.py, reviews/gateway.py).
THEOREM PagesAlwaysTile == Spec => []PagesTile
<1> QED BY AlwaysServed, PagesHeld, PTL

\* Naming the pieces of a room the other way round asks for the same slots,
\* with the same quantities and budgets; only of more than MAX_TERMS materials
\* or colours, which are cut in the order of mention, may others remain
\* (rooms/parser.py).
THEOREM OrderOfMentionsImmaterial == Spec => []MentionOrderImmaterial
<1> QED BY AlwaysPlanned, OrderImmaterial, PTL
===================================================================================
