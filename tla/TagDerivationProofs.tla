--------------------------- MODULE TagDerivationProofs ---------------------------
(***************************************************************************)
(* What the table of inferred tags holds, for any products, vocabulary,    *)
(* answers of the model, numbers of answers and sizes of pages: for every  *)
(* product what the last file that lists it says, and nothing that was not *)
(* agreed on.                                                              *)
(***************************************************************************)
EXTENDS TagDerivation, CollectionFacts

(* What one answer and a consensus keep                                    *)

\* The tags of a kind, as they are stored.
TagsOf(kind) == [kind : {kind}, slug : VOCABULARY[kind], confidence : MIN_CONFIDENCE .. 100]

\* The answers that are sure enough of a tag, and that they are most of them.
Sure(drafts, t) ==
  {i \in DOMAIN drafts : \E g \in drafts[i][t.kind] : g.term = t.slug /\ Usable(g.confidence)}
Backed(drafts, t) == 2 * Cardinality(Sure(drafts, t)) > Len(drafts)

FewOfEach(tags) ==
  \A kind \in Kinds : Cardinality({t \in tags : t.kind = kind}) <= MAX_TAGS_PER_KIND

\* A set of tags of a kind names each slug once.
SlugsOnce(X) == \A s, t \in X : s.slug = t.slug => s = t

LEMMA RoundBound ==
  ASSUME NEW n \in Int, NEW d \in Int, d > 0, n <= 100 * d
  PROVE  RoundHalfEven(n, d) \in Int /\ RoundHalfEven(n, d) <= 100
<1> DEFINE q == n \div d
           r == n % d
<1>1. q \in Int /\ r \in Int /\ n = d * q + r /\ 0 <= r /\ r < d
  OBVIOUS
<1> HIDE DEF q, r
<1>2. q <= 100
  <2>1. CASE q >= 101
    <3>1. d * q >= d * 101
      BY <1>1, <2>1
    <3> QED BY <1>1, <3>1
  <2> QED BY <1>1, <2>1
<1>3. q = 100 => r = 0
  BY <1>1
<1>4. RoundHalfEven(n, d) = IF 2 * r > d \/ (2 * r = d /\ q % 2 = 1) THEN q + 1 ELSE q
  BY DEF RoundHalfEven, q, r
<1> QED BY <1>1, <1>2, <1>3, <1>4

\* No more than three of distinct tags of a kind have less than three before them.
LEMMA TopIsShort ==
  ASSUME NEW kind \in Kinds, NEW X, X \subseteq TagsOf(kind), SlugsOnce(X)
  PROVE  Top(X) \subseteq X /\ IsFiniteSet(Top(X)) /\ Cardinality(Top(X)) <= MAX_TAGS_PER_KIND
<1>1. ASSUME NEW t \in X
      PROVE  t.slug \in Int /\ t.confidence \in Int /\ t.slug \in VOCABULARY[kind]
  <2>1. t \in TagsOf(kind)
    OBVIOUS
  <2> QED BY <2>1, TagAssumption DEF TagsOf, MIN_CONFIDENCE
<1>2. IsFiniteSet(X)
  <2> DEFINE f == [t \in X |-> t.slug]
  <2>1. f \in Injection(X, VOCABULARY[kind])
    BY <1>1 DEF Injection, IsInjective, SlugsOnce
  <2> HIDE DEF f
  <2> QED BY <2>1, FS_Injection, TagAssumption
<1> DEFINE T == Top(X)
<1>3. T \subseteq X /\ IsFiniteSet(T) /\ Cardinality(T) \in Nat
  BY <1>2, FS_Subset, FS_CardinalityType DEF Top
<1>4. SUFFICES ASSUME Cardinality(T) > MAX_TAGS_PER_KIND PROVE FALSE
  BY <1>3 DEF MAX_TAGS_PER_KIND
<1> DEFINE R == {p \in X \X X : Before(p[1], p[2])}
<1>5. PICK m \in T : \A n \in T : n = m \/ Before(n, m)
  <2>1. T # {}
    BY <1>4, FS_EmptySet DEF MAX_TAGS_PER_KIND
  <2>2. ASSUME NEW x \in X, NEW y \in X PROVE <<x, y>> \in R <=> Before(x, y)
    OBVIOUS
  <2>3. ASSUME NEW x \in X, NEW y \in X PROVE x = y \/ Before(x, y) \/ Before(y, x)
    BY <1>1 DEF Before, SlugsOnce
  <2>4. ASSUME NEW x \in X, NEW y \in X, NEW z \in X, Before(x, y), Before(y, z)
        PROVE  Before(x, z)
    BY <1>1, <2>4 DEF Before
  <2> HIDE DEF R, T
  <2>5. \A x, y \in T : x = y \/ <<x, y>> \in R \/ <<y, x>> \in R
    BY <1>3, <2>2, <2>3
  <2>6. \A x, y, z \in T : <<x, y>> \in R /\ <<y, z>> \in R => <<x, z>> \in R
    BY <1>3, <2>2, <2>4
  <2>7. \E m \in T : \A n \in T : n = m \/ <<n, m>> \in R
    BY <1>3, <2>1, <2>5, <2>6, LastMember
  <2> QED BY <1>3, <2>2, <2>7
<1> DEFINE B == {s \in X : Before(s, m)}
<1>6. Cardinality(B) < MAX_TAGS_PER_KIND
  BY <1>5 DEF Top
<1>7. IsFiniteSet(B) /\ Cardinality(B) \in Nat
  BY <1>2, FS_Subset, FS_CardinalityType
<1>8. Cardinality(T \ {m}) = Cardinality(T) - 1
  <2> HIDE DEF T
  <2> QED BY <1>3, <1>5, FS_RemoveElement
<1>9. T \ {m} \in SUBSET B
  BY <1>3, <1>5
<1>10. Cardinality(T \ {m}) <= Cardinality(B)
  <2> HIDE DEF T, B
  <2> QED BY <1>7, <1>9, FS_Subset
<1> QED
  <2> HIDE DEF T, B
  <2> QED BY <1>3, <1>4, <1>6, <1>7, <1>8, <1>10 DEF MAX_TAGS_PER_KIND

LEMMA GuessedTags ==
  ASSUME NEW draft \in Drafts, NEW kind \in Kinds, NEW t \in Guessed(draft, kind)
  PROVE  t \in TagsOf(kind) /\ \E g \in draft[kind] : g.term = t.slug /\ Usable(g.confidence)
<1>1. PICK g \in draft[kind] :
        /\ g.term \in VOCABULARY[kind] /\ Usable(g.confidence)
        /\ t = [kind |-> kind, slug |-> g.term, confidence |-> RoundHalfEven(g.confidence, 10)]
  BY DEF Guessed
<1>2. g.confidence \in Int /\ g.confidence <= 1000
  BY <1>1, TagAssumption DEF Usable
<1>3. RoundHalfEven(g.confidence, 10) \in Int /\ RoundHalfEven(g.confidence, 10) <= 100
  BY <1>2, RoundBound
<1>4. RoundHalfEven(g.confidence, 10) \in MIN_CONFIDENCE .. 100
  BY <1>1, <1>3 DEF Usable, MIN_CONFIDENCE
<1> QED BY <1>1, <1>4 DEF TagsOf

\* The tags of one kind in a set that is made up of each kind's best.
LEMMA KindsApart ==
  ASSUME NEW parts, \A kind \in Kinds : parts[kind] \subseteq TagsOf(kind) /\ SlugsOnce(parts[kind])
  PROVE  LET tags == UNION {Top(parts[kind]) : kind \in Kinds}
         IN  /\ \A t \in tags : t.kind \in Kinds /\ t \in parts[t.kind] /\ t \in TagsOf(t.kind)
             /\ FewOfEach(tags)
<1> DEFINE tags == UNION {Top(parts[kind]) : kind \in Kinds}
<1>1. ASSUME NEW kind \in Kinds
      PROVE  /\ Top(parts[kind]) \subseteq parts[kind] /\ IsFiniteSet(Top(parts[kind]))
             /\ Cardinality(Top(parts[kind])) <= MAX_TAGS_PER_KIND
  BY TopIsShort
<1>2. ASSUME NEW kind \in Kinds, NEW t \in Top(parts[kind])
      PROVE  t.kind = kind /\ t \in parts[kind] /\ t \in TagsOf(kind)
  BY <1>1 DEF TagsOf
<1>3. ASSUME NEW t \in tags PROVE t.kind \in Kinds /\ t \in parts[t.kind] /\ t \in TagsOf(t.kind)
  BY <1>2
<1>4. ASSUME NEW kind \in Kinds PROVE {t \in tags : t.kind = kind} = Top(parts[kind])
  BY <1>2
<1> HIDE DEF tags
<1>5. FewOfEach(tags)
  BY <1>1, <1>4 DEF FewOfEach
<1> QED BY <1>3, <1>5 DEF tags

LEMMA DraftTags ==
  ASSUME NEW draft \in Drafts
  PROVE  /\ \A t \in TagsFromDraft(draft) :
               /\ t.kind \in Kinds /\ t \in TagsOf(t.kind)
               /\ \E g \in draft[t.kind] : g.term = t.slug /\ Usable(g.confidence)
         /\ FewOfEach(TagsFromDraft(draft))
<1> DEFINE parts == [kind \in Kinds |-> Best(Guessed(draft, kind))]
           tags == UNION {Top(parts[kind]) : kind \in Kinds}
<1>1. tags = TagsFromDraft(draft)
  BY DEF TagsFromDraft
<1>2. ASSUME NEW kind \in Kinds
      PROVE  parts[kind] \subseteq Guessed(draft, kind) /\ parts[kind] \subseteq TagsOf(kind)
             /\ SlugsOnce(parts[kind])
  <2>1. parts[kind] \subseteq Guessed(draft, kind)
    BY DEF Best
  <2>2. parts[kind] \subseteq TagsOf(kind)
    BY <2>1, GuessedTags
  <2>3. ASSUME NEW s \in parts[kind], NEW t \in parts[kind], s.slug = t.slug PROVE s = t
    <3>1. s.confidence <= t.confidence /\ t.confidence <= s.confidence
      BY <2>3 DEF Best
    <3>2. s \in TagsOf(kind) /\ t \in TagsOf(kind)
      BY <2>2
    <3>3. s.confidence \in Int /\ t.confidence \in Int
      BY <3>2 DEF TagsOf, MIN_CONFIDENCE
    <3>4. s.confidence = t.confidence
      BY <3>1, <3>3
    <3> QED BY <3>2, <3>4, <2>3 DEF TagsOf
  <2> QED BY <2>1, <2>2, <2>3 DEF SlugsOnce
<1>3. /\ \A t \in tags : t.kind \in Kinds /\ t \in parts[t.kind] /\ t \in TagsOf(t.kind)
      /\ FewOfEach(tags)
  <2> HIDE DEF parts
  <2> QED BY <1>2, KindsApart
<1>4. ASSUME NEW t \in tags
      PROVE  /\ t.kind \in Kinds /\ t \in TagsOf(t.kind)
             /\ \E g \in draft[t.kind] : g.term = t.slug /\ Usable(g.confidence)
  <2>1. t.kind \in Kinds /\ t \in parts[t.kind] /\ t \in TagsOf(t.kind)
    BY <1>3
  <2>2. t \in Guessed(draft, t.kind)
    BY <2>1, <1>2
  <2> QED BY <2>1, <2>2, GuessedTags
<1> HIDE DEF tags
<1> QED BY <1>1, <1>3, <1>4

\* The mean is taken of the sum of the confidences of the answers that give the tag.
LEMMA MeanOfSum ==
  ASSUME NEW answers, NEW kind, NEW slug, IsFiniteSet(Saying(answers, kind, slug))
  PROVE  LET S == Saying(answers, kind, slug)
             f == [i \in S |-> ConfidenceOf(answers[i], kind, slug)]
         IN  Mean(answers, kind, slug) = RoundHalfEven(Sum(f, S), Cardinality(S))
<1> DEFINE S == Saying(answers, kind, slug)
           f == [i \in S |-> ConfidenceOf(answers[i], kind, slug)]
           Eqn(h) == h = [s \in SUBSET S |->
                             IF s = {} THEN 0
                             ELSE ConfidenceOf(answers[Pick(s)], kind, slug) + h[s \ {Pick(s)}]]
           k == CHOOSE h : Eqn(h)
<1> HIDE DEF S
<1>1. Mean(answers, kind, slug) = RoundHalfEven(k[S], Cardinality(S))
  BY DEF Mean, MapThenSumSet, MapThenFoldSet, Pick, S
<1>2. ASSUME NEW h PROVE Eqn(h) <=> IsSum(h, f, S)
  <2>1. ASSUME NEW s \in SUBSET S, s # {}
        PROVE  ConfidenceOf(answers[Pick(s)], kind, slug) = f[Pick(s)]
    BY <2>1 DEF Pick
  <2> HIDE DEF f
  <2> QED BY <2>1 DEF IsSum
<1>3. \E h : IsSum(h, f, S)
  <2> HIDE DEF IsSum, f
  <2> QED BY SumExists DEF S
<1>4. IsSum(k, f, S)
  <2> HIDE DEF Eqn, IsSum, f
  <2> QED BY <1>2, <1>3
<1>5. k[S] = Sum(f, S)
  <2> HIDE DEF IsSum, f, k
  <2> QED BY <1>4, SumIs DEF S
<1> QED BY <1>1, <1>5 DEF S

\* A mean of confidences of at most 100, over at least one answer.
LEMMA MeanBound ==
  ASSUME NEW n \in Nat, NEW answers, Len(answers) = n,
         NEW kind, NEW slug, Saying(answers, kind, slug) # {},
         \A i \in 1 .. n : \A t \in answers[i] :
            t.kind = kind => t.confidence \in MIN_CONFIDENCE .. 100
  PROVE  Mean(answers, kind, slug) \in Int /\ Mean(answers, kind, slug) <= 100
<1> DEFINE S == Saying(answers, kind, slug)
           f == [i \in S |-> ConfidenceOf(answers[i], kind, slug)]
<1>1. S \in SUBSET (1 .. n)
  BY DEF Saying
<1>2. IsFiniteSet(S) /\ Cardinality(S) \in Nat /\ Cardinality(S) # 0
  <2> HIDE DEF S
  <2>1. IsFiniteSet(S) /\ Cardinality(S) \in Nat
    BY <1>1, PartOfInterval
  <2>2. Cardinality(S) # 0
    BY <2>1, FS_EmptySet DEF S
  <2> QED BY <2>1, <2>2
<1>3. ASSUME NEW i \in S PROVE f[i] \in Int /\ 0 <= f[i] /\ f[i] <= 100
  <2> DEFINE t == CHOOSE u \in answers[i] : u.kind = kind /\ u.slug = slug
  <2>1. t \in answers[i] /\ t.kind = kind
    BY DEF Saying
  <2>2. i \in 1 .. n /\ f[i] = t.confidence
    BY <1>1 DEF ConfidenceOf
  <2> HIDE DEF t, f, S
  <2> DEFINE x == f[i]
  <2>3. x \in 40 .. 100
    BY <2>1, <2>2 DEF MIN_CONFIDENCE
  <2> HIDE DEF x
  <2>4. x \in Int /\ 0 <= x /\ x <= 100
    BY <2>3
  <2> QED BY <2>4 DEF x
<1> HIDE DEF f
<1>4. Sum(f, S) \in Int /\ Sum(f, S) <= 100 * Cardinality(S)
  <2> HIDE DEF S
  <2> QED BY <1>2, <1>3, SumBounds
<1>5. Mean(answers, kind, slug) = RoundHalfEven(Sum(f, S), Cardinality(S))
  BY <1>2, MeanOfSum DEF f
<1> HIDE DEF S
<1>6. Cardinality(S) \in Int /\ Cardinality(S) > 0
  BY <1>2
<1> QED BY <1>4, <1>5, <1>6, RoundBound

\* What is kept of the answers about a product: words of the vocabulary, sure
\* enough, given by most of the answers, and few of each kind.
LEMMA ConsensusTags ==
  ASSUME NEW n \in RUNS, NEW drafts \in [1 .. n -> Drafts]
  PROVE  LET tags == Consensus([i \in 1 .. n |-> TagsFromDraft(drafts[i])])
         IN  /\ \A t \in tags : t.kind \in Kinds /\ t \in TagsOf(t.kind) /\ Backed(drafts, t)
             /\ FewOfEach(tags)
<1> DEFINE answers == [i \in 1 .. n |-> TagsFromDraft(drafts[i])]
           tags == Consensus(answers)
<1>1. n \in Nat \ {0} /\ Len(answers) = n /\ DOMAIN drafts = 1 .. n /\ Len(drafts) = n
  BY TagAssumption
<1>2. ASSUME NEW i \in 1 .. n
      PROVE  /\ drafts[i] \in Drafts /\ answers[i] = TagsFromDraft(drafts[i])
             /\ FewOfEach(answers[i])
             /\ \A t \in answers[i] :
                   /\ t.kind \in Kinds /\ t \in TagsOf(t.kind)
                   /\ \E g \in drafts[i][t.kind] : g.term = t.slug /\ Usable(g.confidence)
  BY DraftTags
<1>3. CASE n = 1
  <2>1. tags = answers[1]
    BY <1>1, <1>3 DEF Consensus
  <2>2. ASSUME NEW t \in answers[1] PROVE Backed(drafts, t)
    <3>1. Sure(drafts, t) = {1}
      BY <1>1, <1>2, <1>3 DEF Sure
    <3>2. Cardinality(Sure(drafts, t)) = 1
      BY <3>1, FS_Singleton
    <3> QED BY <3>2, <1>1, <1>3 DEF Backed
  <2> HIDE DEF answers, tags
  <2>3. 1 \in 1 .. n
    BY <1>3
  <2> QED BY <1>2, <2>1, <2>2, <2>3 DEF answers, tags
<1>4. CASE n # 1
  <2> DEFINE parts == [kind \in Kinds |-> Agreed(answers, kind)]
  <2>1. tags = UNION {Top(parts[kind]) : kind \in Kinds}
    <3>1. tags = UNION {Top(Agreed(answers, kind)) : kind \in Kinds}
      BY <1>1, <1>4 DEF Consensus
    <3> HIDE DEF tags, answers
    <3> QED BY <3>1
  <2> HIDE DEF answers
  <2>2. ASSUME NEW kind \in Kinds, NEW t \in parts[kind]
        PROVE  /\ t.kind = kind /\ t \in TagsOf(kind)
               /\ t = [kind |-> kind, slug |-> t.slug, confidence |-> Mean(answers, kind, t.slug)]
               /\ 2 * Cardinality(Saying(answers, kind, t.slug)) > n
    <3>1. PICK s \in {u.slug : u \in {v \in UNION Range(answers) : v.kind = kind}} :
            /\ 2 * Cardinality(Saying(answers, kind, s)) > n
            /\ Mean(answers, kind, s) >= MIN_CONFIDENCE
            /\ t = [kind |-> kind, slug |-> s, confidence |-> Mean(answers, kind, s)]
      BY <1>1 DEF Agreed, InMoreThanHalf
    <3>2. Saying(answers, kind, s) # {}
      <4>1. ~(2 * 0 > n)
        BY <1>1
      <4>2. Cardinality(Saying(answers, kind, s)) # 0
        BY <3>1, <4>1
      <4> QED BY <4>2, FS_EmptySet
    <3>3. PICK i \in 1 .. n : \E u \in answers[i] : u.kind = kind /\ u.slug = s
      BY <3>2, <1>1 DEF Saying
    <3>4. s \in VOCABULARY[kind]
      BY <3>3, <1>2 DEF TagsOf
    <3>5. \A j \in 1 .. n : \A u \in answers[j] :
              u.kind = kind => u.confidence \in MIN_CONFIDENCE .. 100
      BY <1>2 DEF TagsOf
    <3>6. Mean(answers, kind, s) \in Int /\ Mean(answers, kind, s) <= 100
      BY <1>1, <3>2, <3>5, MeanBound
    <3>7. Mean(answers, kind, s) \in MIN_CONFIDENCE .. 100
      <4> DEFINE x == Mean(answers, kind, s)
      <4>1. x \in Int /\ x <= 100 /\ x >= 40
        BY <3>1, <3>6 DEF MIN_CONFIDENCE
      <4> HIDE DEF x
      <4>2. x \in 40 .. 100
        BY <4>1
      <4> QED BY <4>2 DEF x, MIN_CONFIDENCE
    <3> QED BY <3>1, <3>4, <3>7 DEF TagsOf
  <2>3. ASSUME NEW kind \in Kinds PROVE parts[kind] \subseteq TagsOf(kind) /\ SlugsOnce(parts[kind])
    <3> HIDE DEF parts
    <3> QED BY <2>2 DEF SlugsOnce
  <2>4. /\ \A t \in tags : t.kind \in Kinds /\ t \in parts[t.kind] /\ t \in TagsOf(t.kind)
        /\ FewOfEach(tags)
    <3> HIDE DEF parts, tags
    <3> QED BY <2>1, <2>3, KindsApart
  <2>5. ASSUME NEW t \in tags PROVE Backed(drafts, t)
    <3>1. t.kind \in Kinds /\ t \in parts[t.kind]
      BY <2>4
    <3> DEFINE S == Saying(answers, t.kind, t.slug)
               D == Sure(drafts, t)
    <3>2. 2 * Cardinality(S) > n
      BY <3>1, <2>2
    <3>3. S \subseteq D
      <4>1. ASSUME NEW i \in S PROVE i \in D
        <5>1. i \in 1 .. n /\ \E u \in answers[i] : u.kind = t.kind /\ u.slug = t.slug
          BY <1>1 DEF Saying
        <5>2. PICK u \in answers[i] : u.kind = t.kind /\ u.slug = t.slug
          BY <5>1
        <5>3. \E g \in drafts[i][t.kind] : g.term = t.slug /\ Usable(g.confidence)
          BY <5>1, <5>2, <1>2
        <5> QED BY <5>1, <5>3, <1>1 DEF Sure
      <4> QED BY <4>1
    <3>4. IsFiniteSet(D)
      <4>1. D \in SUBSET (1 .. n)
        BY <1>1 DEF Sure
      <4> HIDE DEF D
      <4> QED BY <4>1, <1>1, PartOfInterval
    <3>5. Cardinality(S) <= Cardinality(D) /\ Cardinality(S) \in Nat /\ Cardinality(D) \in Nat
      <4> HIDE DEF S, D
      <4> QED BY <3>3, <3>4, FS_Subset, FS_CardinalityType
    <3> HIDE DEF S
    <3> QED BY <3>2, <3>5, <1>1 DEF Backed
  <2> HIDE DEF tags, parts
  <2> QED BY <2>4, <2>5 DEF tags, answers
<1> QED BY <1>3, <1>4

-----------------------------------------------------------------------------
(* The job, its files and the table                                        *)

JobFields == {"stage", "model", "runs", "limit", "offset", "products", "tagged"}

\* What is listed for a product, in a job or in a file.
EntryOk(e) ==
  /\ \A t \in e.tags : t.kind \in Kinds /\ t \in TagsOf(t.kind) /\ Backed(e.drafts, t)
  /\ FewOfEach(e.tags)

EntriesOk(tagged) == IsSeq(tagged) /\ \A e \in Range(tagged) : EntryOk(e)

JobOk == job.stage # "idle" =>
           DOMAIN job = JobFields /\ job.runs \in RUNS /\ EntriesOk(job.tagged)

FilesOk == IsSeq(files) /\ \A n \in 1 .. Len(files) : EntriesOk(files[n].tagged)

\* Only files that exist have decided, and only existing products have rows.
RowsPlaced ==
  /\ decided \in [Products -> 0 .. Len(files)]
  /\ exists \subseteq Products
  /\ \A r \in table : r.product \in exists

KeysUnique == \A r, s \in table : SameKey(r, s) => r = s

TagInv == JobOk /\ FilesOk /\ RowsPlaced /\ KeysUnique /\ LastFileDecides

LEMMA InitTagInv == Init => TagInv
<1> SUFFICES ASSUME Init PROVE TagInv
  OBVIOUS
<1>1. files = <<>> /\ IsSeq(files) /\ Len(files) = 0
  BY EmptySeqFacts DEF Init
<1>2. JobOk
  BY DEF Init, JobOk, Idle
<1>3. FilesOk
  BY <1>1 DEF FilesOk
<1>4. RowsPlaced /\ KeysUnique /\ LastFileDecides
  BY <1>1 DEF Init, RowsPlaced, KeysUnique, LastFileDecides, RowsOf
<1> QED BY <1>2, <1>3, <1>4 DEF TagInv

\* The job's own steps keep what it has labelled, or add a consensus.
LEMMA NextJobOk == TagInv /\ [Next]_vars => JobOk'
<1> SUFFICES ASSUME TagInv, [Next]_vars PROVE JobOk'
  OBVIOUS
<1>j. JobOk
  BY DEF TagInv
<1>1. ASSUME NEW m, NEW r \in RUNS, NEW l, StartJob(m, r, l) PROVE JobOk'
  <2>1. IsSeq(<<>>) /\ Range(<<>>) = {}
    BY EmptySeqFacts
  <2>2. job' = [stage |-> "paging", model |-> m, runs |-> r, limit |-> l,
                offset |-> 0, products |-> <<>>, tagged |-> <<>>]
    BY <1>1 DEF StartJob
  <2>3. DOMAIN job' = JobFields /\ job'.runs = r /\ job'.tagged = <<>>
    BY <2>2 DEF JobFields
  <2> QED BY <2>1, <2>3 DEF JobOk, EntriesOk
<1>2. ASSUME job.stage # "idle", DOMAIN job' = DOMAIN job, job'.runs = job.runs,
             job'.tagged = job.tagged
      PROVE  JobOk'
  BY <1>2, <1>j DEF JobOk
<1>3. CASE ReadPage
  <2>1. DOMAIN job = JobFields /\ job.stage # "idle"
    BY <1>3, <1>j DEF ReadPage, JobOk
  <2>2. PICK products, stage, offset :
          \/ job' = [job EXCEPT !.stage = stage, !.products = products]
          \/ job' = [job EXCEPT !.products = products, !.offset = offset]
    BY <1>3 DEF ReadPage
  <2>3. DOMAIN job' = DOMAIN job /\ job'.runs = job.runs /\ job'.tagged = job.tagged
    BY <2>1, <2>2 DEF JobFields
  <2> QED BY <2>1, <2>3, <1>2
<1>4. CASE SkipProduct
  <2>1. DOMAIN job = JobFields /\ job.stage # "idle"
    BY <1>4, <1>j DEF SkipProduct, JobOk
  <2>2. DOMAIN job' = DOMAIN job /\ job'.runs = job.runs /\ job'.tagged = job.tagged
    BY <1>4, <2>1 DEF SkipProduct, JobFields
  <2> QED BY <2>1, <2>2, <1>2
<1>5. CASE LabelProduct
  <2>1. DOMAIN job = JobFields /\ job.runs \in RUNS /\ EntriesOk(job.tagged)
    BY <1>5, <1>j DEF LabelProduct, JobOk
  <2>2. PICK drafts \in [1 .. job.runs -> Drafts] :
          job' = [job EXCEPT
                   !.products = Tail(@),
                   !.tagged = Append(@, [product |-> Head(job.products), drafts |-> drafts,
                     tags |-> Consensus([i \in 1 .. job.runs |-> TagsFromDraft(drafts[i])])])]
    BY <1>5 DEF LabelProduct
  <2> DEFINE tags == Consensus([i \in 1 .. job.runs |-> TagsFromDraft(drafts[i])])
             e == [product |-> Head(job.products), drafts |-> drafts, tags |-> tags]
  <2>3. /\ \A t \in tags : t.kind \in Kinds /\ t \in TagsOf(t.kind) /\ Backed(drafts, t)
        /\ FewOfEach(tags)
    BY <2>1, ConsensusTags
  <2> HIDE DEF tags
  <2>4. EntryOk(e)
    BY <2>3 DEF EntryOk
  <2>5. job' = [job EXCEPT !.products = Tail(@), !.tagged = Append(@, e)]
    BY <2>2 DEF tags
  <2> HIDE DEF e
  <2>6. DOMAIN job' = JobFields /\ job'.runs = job.runs /\ job'.tagged = Append(job.tagged, e)
    BY <2>1, <2>5 DEF JobFields
  <2>7. IsSeq(job'.tagged) /\ Range(job'.tagged) = Range(job.tagged) \cup {e}
    BY <2>1, <2>6, AppendFacts DEF EntriesOk
  <2>8. EntriesOk(job'.tagged)
    BY <2>1, <2>4, <2>7 DEF EntriesOk
  <2> QED BY <2>1, <2>6, <2>8 DEF JobOk
<1>6. CASE JobFails \/ WriteFile
  BY <1>6 DEF JobFails, WriteFile, Idle, JobOk
<1>7. ASSUME job' = job PROVE JobOk'
  BY <1>7, <1>j DEF JobOk
<1>8. ASSUME \/ \E n \in DOMAIN files : ApplyFile(n) \/ FileRolledBack(n)
             \/ \E p \in Products : Publish(p) \/ Withdraw(p) \/ DeleteProduct(p)
             \/ UNCHANGED vars
      PROVE  JobOk'
  BY <1>7, <1>8 DEF ApplyFile, FileRolledBack, Publish, Withdraw, DeleteProduct, Change, vars
<1> QED BY <1>1, <1>3, <1>4, <1>5, <1>6, <1>8 DEF Next

\* Files are only added: those written before stay as they are.
LEMMA NextFilesOk ==
  TagInv /\ [Next]_vars =>
    /\ FilesOk'
    /\ Len(files) \in Nat /\ Len(files)' \in Nat /\ Len(files) <= Len(files)'
    /\ \A n \in 1 .. Len(files) : files'[n] = files[n]
<1> SUFFICES ASSUME TagInv, [Next]_vars
             PROVE  /\ FilesOk'
                    /\ Len(files) \in Nat /\ Len(files)' \in Nat /\ Len(files) <= Len(files)'
                    /\ \A n \in 1 .. Len(files) : files'[n] = files[n]
  OBVIOUS
<1>f. FilesOk /\ Len(files) \in Nat
  BY SeqFacts DEF TagInv, FilesOk, IsSeq
<1>1. CASE files' = files
  BY <1>1, <1>f DEF FilesOk
<1>2. CASE WriteFile /\ files' # files
  <2> DEFINE file == [model |-> job.model, tagged |-> job.tagged]
  <2>1. files' = Append(files, file) /\ EntriesOk(file.tagged)
    BY <1>2 DEF WriteFile, TagInv, JobOk
  <2> HIDE DEF file
  <2>2. IsSeq(files)
    BY <1>f DEF FilesOk
  <2>3. /\ IsSeq(files') /\ Len(files') = Len(files) + 1
        /\ \A n \in 1 .. Len(files) : files'[n] = files[n]
        /\ files'[Len(files) + 1] = file
    BY <2>1, <2>2, AppendFacts
  <2>4. ASSUME NEW n \in 1 .. Len(files') PROVE EntriesOk(files'[n].tagged)
    <3>1. CASE n = Len(files) + 1
      BY <3>1, <2>1, <2>3
    <3>2. CASE n \in 1 .. Len(files)
      <4>1. files'[n] = files[n] /\ EntriesOk(files[n].tagged)
        BY <3>2, <2>3, <1>f DEF FilesOk
      <4> QED BY <4>1
    <3> QED BY <3>1, <3>2, <2>3, <1>f
  <2> QED BY <2>3, <2>4, <1>f DEF FilesOk
<1>3. files' = files \/ WriteFile
  BY DEF Next, StartJob, ReadPage, JobFails, LabelProduct, SkipProduct, ApplyFile,
     FileRolledBack, Publish, Withdraw, DeleteProduct, Change, vars
<1> QED BY <1>1, <1>2, <1>3
\* A row of a file: an entry's product, a tag of that entry, the file's model.
LEMMA InsertedRows ==
  ASSUME NEW file, IsSeq(file.tagged), NEW r
  PROVE  r \in Inserted(file) <=>
           \E e \in Range(file.tagged) : \E t \in e.tags :
             r = [product |-> e.product, kind |-> t.kind, slug |-> t.slug,
                  confidence |-> t.confidence, model |-> file.model]
<1> DEFINE tagged == file.tagged
           row(e, t) == [product |-> e.product, kind |-> t.kind, slug |-> t.slug,
                         confidence |-> t.confidence, model |-> file.model]
<1>1. DOMAIN tagged = 1 .. Len(tagged)
      /\ \A e : e \in Range(tagged) <=> \E i \in 1 .. Len(tagged) : e = tagged[i]
  BY SeqFacts DEF IsSeq
<1>2. ASSUME r \in Inserted(file)
      PROVE  \E e \in Range(tagged) : \E t \in e.tags : r = row(e, t)
  <2>0. PICK i \in DOMAIN tagged : \E t \in tagged[i].tags : r = RowOf(file, [entry |-> i, tag |-> t])
    BY <1>2 DEF Inserted, Inserts
  <2>1. PICK t \in tagged[i].tags : r = RowOf(file, [entry |-> i, tag |-> t])
    BY <2>0
  <2>2. r = row(tagged[i], t)
    BY <2>1 DEF RowOf
  <2>3. tagged[i] \in Range(tagged)
    BY <1>1, <2>1
  <2> HIDE DEF row, tagged
  <2> QED BY <2>1, <2>2, <2>3
<1>3. ASSUME NEW e \in Range(tagged), NEW t \in e.tags, r = row(e, t)
      PROVE  r \in Inserted(file)
  <2>1. PICK i \in DOMAIN tagged : e = tagged[i]
    BY <1>1
  <2>2. [entry |-> i, tag |-> t] \in Inserts(file)
    BY <2>1 DEF Inserts
  <2>3. r = RowOf(file, [entry |-> i, tag |-> t])
    BY <1>3, <2>1 DEF RowOf
  <2> QED BY <2>2, <2>3 DEF Inserted
<1> HIDE DEF row
<1>4. r \in Inserted(file) <=> \E e \in Range(tagged) : \E t \in e.tags : r = row(e, t)
  BY <1>2, <1>3
<1> QED BY <1>4 DEF row

\* The file a person runs is one that was written, with entries in order.
LEMMA AppliedFile ==
  ASSUME TagInv, NEW n \in DOMAIN files
  PROVE  n \in 1 .. Len(files) /\ Len(files) \in Nat /\ EntriesOk(files[n].tagged)
BY SeqFacts DEF TagInv, FilesOk, IsSeq

LEMMA NextRowsPlaced == TagInv /\ [Next]_vars => RowsPlaced'
<1> SUFFICES ASSUME TagInv, [Next]_vars PROVE RowsPlaced'
  OBVIOUS
<1>r. /\ decided \in [Products -> 0 .. Len(files)]
      /\ exists \subseteq Products
      /\ \A r \in table : r.product \in exists
  BY DEF TagInv, RowsPlaced
<1>f. Len(files) \in Nat /\ Len(files)' \in Nat /\ Len(files) <= Len(files)'
  BY NextFilesOk
<1>1. ASSUME UNCHANGED <<exists, table, decided>> PROVE RowsPlaced'
  <2>1. 0 .. Len(files) \subseteq 0 .. Len(files)'
    BY <1>f
  <2> QED BY <1>1, <1>r, <2>1 DEF RowsPlaced
<1>2. ASSUME NEW n \in DOMAIN files, ApplyFile(n) PROVE RowsPlaced'
  <2> DEFINE file == files[n]
  <2>1. n \in 0 .. Len(files) /\ IsSeq(file.tagged)
    BY AppliedFile DEF EntriesOk
  <2>2. /\ ProductsExist(file)
        /\ table' = Remaining(file) \cup Inserted(file)
        /\ decided' = [p \in Products |-> IF p \in Listed(file) THEN n ELSE decided[p]]
        /\ exists' = exists /\ files' = files
    BY <1>2 DEF ApplyFile, catalogue
  <2>3. decided' \in [Products -> 0 .. Len(files)']
    BY <1>r, <2>1, <2>2
  <2>4. ASSUME NEW r \in table' PROVE r.product \in exists'
    BY <1>r, <2>2 DEF Remaining, ProductsExist
  <2> QED BY <1>r, <2>2, <2>3, <2>4 DEF RowsPlaced
<1>3. ASSUME NEW p \in Products, DeleteProduct(p) PROVE RowsPlaced'
  <2>1. /\ exists' = exists \ {p} /\ table' = {r \in table : r.product # p}
        /\ decided' = [decided EXCEPT ![p] = 0] /\ files' = files
    BY <1>3 DEF DeleteProduct, Change
  <2>2. 0 \in 0 .. Len(files)
    BY <1>f
  <2>3. decided' \in [Products -> 0 .. Len(files)']
    BY <1>r, <2>1, <2>2
  <2> QED BY <1>r, <2>1, <2>3 DEF RowsPlaced
<1>4. ASSUME ~ \E n \in DOMAIN files : ApplyFile(n), ~ \E p \in Products : DeleteProduct(p)
      PROVE  UNCHANGED <<exists, table, decided>>
  BY <1>4 DEF Next, StartJob, ReadPage, JobFails, LabelProduct, SkipProduct, WriteFile,
     FileRolledBack, Publish, Withdraw, catalogue, vars
<1> QED BY <1>1, <1>2, <1>3, <1>4

\* The primary key of the table is checked by every transaction.
LEMMA NextKeysUnique == TagInv /\ [Next]_vars => KeysUnique'
<1> SUFFICES ASSUME TagInv, [Next]_vars PROVE KeysUnique'
  OBVIOUS
<1>k. KeysUnique
  BY DEF TagInv
<1>1. ASSUME table' \subseteq table PROVE KeysUnique'
  BY <1>1, <1>k DEF KeysUnique
<1>2. ASSUME NEW n \in DOMAIN files, ApplyFile(n) PROVE KeysUnique'
  <2> DEFINE file == files[n]
  <2>1. table' = Remaining(file) \cup Inserted(file) /\ KeysDistinct(file)
    BY <1>2 DEF ApplyFile
  <2> SUFFICES ASSUME NEW r \in table', NEW s \in table', SameKey(r, s)
               PROVE  r = s
    BY DEF KeysUnique
  <2>2. CASE r \in Remaining(file) /\ s \in Remaining(file)
    BY <2>2, <1>k DEF KeysUnique, Remaining
  <2>3. CASE r \in Inserted(file) /\ s \in Inserted(file)
    <3>1. PICK i \in Inserts(file), j \in Inserts(file) : r = RowOf(file, i) /\ s = RowOf(file, j)
      BY <2>3 DEF Inserted
    <3>2. i = j
      BY <3>1, <2>1 DEF KeysDistinct
    <3> QED BY <3>1, <3>2
  <2>4. SameKey(s, r)
    BY DEF SameKey
  <2> QED BY <2>1, <2>2, <2>3, <2>4 DEF KeysDistinct
<1>3. ASSUME ~ \E n \in DOMAIN files : ApplyFile(n)
      PROVE  table' \subseteq table
  BY <1>3 DEF Next, StartJob, ReadPage, JobFails, LabelProduct, SkipProduct, WriteFile,
     FileRolledBack, Publish, Withdraw, DeleteProduct, Change, catalogue, vars
<1> QED BY <1>1, <1>2, <1>3

\* After a file is run, a product it lists has what the file says, and every
\* other product has what it had.
LEMMA NextLastFileDecides == TagInv /\ [Next]_vars => LastFileDecides'
<1> SUFFICES ASSUME TagInv, [Next]_vars, NEW p \in Products
             PROVE  RowsOf(p)' = IF decided'[p] = 0 THEN {} ELSE UNION {e.tags : e \in EntriesOf(p)'}
  BY DEF LastFileDecides
<1>l. RowsOf(p) = IF decided[p] = 0 THEN {} ELSE UNION {e.tags : e \in EntriesOf(p)}
  BY DEF TagInv, LastFileDecides
<1>d. decided \in [Products -> 0 .. Len(files)]
  BY DEF TagInv, RowsPlaced
<1>f. \A n \in 1 .. Len(files) : files'[n] = files[n]
  BY NextFilesOk
<1>n. Len(files) \in Nat
  BY NextFilesOk
<1>1. ASSUME decided'[p] = decided[p], RowsOf(p)' = RowsOf(p)
      PROVE  RowsOf(p)' = IF decided'[p] = 0 THEN {} ELSE UNION {e.tags : e \in EntriesOf(p)'}
  <2>1. CASE decided[p] = 0
    BY <1>1, <1>l, <2>1
  <2>2. CASE decided[p] # 0
    <3>1. decided[p] \in 1 .. Len(files)
      <4>1. decided[p] \in 0 .. Len(files)
        BY <1>d
      <4> QED BY <4>1, <2>2, <1>n
    <3>2. EntriesOf(p)' = EntriesOf(p)
      BY <3>1, <1>1, <1>f DEF EntriesOf
    <3> QED BY <3>2, <1>1, <1>l
  <2> QED BY <2>1, <2>2
<1>2. ASSUME NEW n \in DOMAIN files, ApplyFile(n)
      PROVE  RowsOf(p)' = IF decided'[p] = 0 THEN {} ELSE UNION {e.tags : e \in EntriesOf(p)'}
  <2> DEFINE file == files[n]
  <2>1. n \in 1 .. Len(files) /\ EntriesOk(file.tagged) /\ IsSeq(file.tagged)
    BY AppliedFile DEF EntriesOk
  <2>2. /\ table' = Remaining(file) \cup Inserted(file)
        /\ decided'[p] = IF p \in Listed(file) THEN n ELSE decided[p]
        /\ files' = files
    BY <1>2 DEF ApplyFile, catalogue
  <2>3. ASSUME NEW r \in Inserted(file)
        PROVE  \E e \in Range(file.tagged) : \E t \in e.tags :
                 /\ r.product = e.product
                 /\ t = [kind |-> r.kind, slug |-> r.slug, confidence |-> r.confidence]
    <3>0. PICK e \in Range(file.tagged) : \E t \in e.tags :
             r = [product |-> e.product, kind |-> t.kind, slug |-> t.slug,
                  confidence |-> t.confidence, model |-> file.model]
      BY <2>1, InsertedRows
    <3>1. PICK t \in e.tags :
             r = [product |-> e.product, kind |-> t.kind, slug |-> t.slug,
                  confidence |-> t.confidence, model |-> file.model]
      BY <3>0
    <3>2. t \in TagsOf(t.kind)
      BY <3>1, <2>1 DEF EntriesOk, EntryOk
    <3>3. t = [kind |-> t.kind, slug |-> t.slug, confidence |-> t.confidence]
      BY <3>2 DEF TagsOf
    <3> QED BY <3>1, <3>3
  <2>4. CASE p \in Listed(file)
    <3>1. n # 0 /\ decided'[p] = n
      BY <2>1, <2>2, <2>4
    <3>2. EntriesOf(p)' = {e \in Range(file.tagged) : e.product = p}
      BY <2>2, <3>1 DEF EntriesOf
    <3>3. ASSUME NEW x \in RowsOf(p)' PROVE x \in UNION {e.tags : e \in EntriesOf(p)'}
      <4>1. PICK r \in table' : r.product = p
                /\ x = [kind |-> r.kind, slug |-> r.slug, confidence |-> r.confidence]
        BY <3>3 DEF RowsOf
      <4>2. r \in Inserted(file)
        BY <4>1, <2>2, <2>4 DEF Remaining, ToDelete
      <4>3. PICK e \in Range(file.tagged) : r.product = e.product /\ x \in e.tags
        BY <4>1, <4>2, <2>3
      <4> QED BY <4>1, <4>3, <3>2
    <3>4. ASSUME NEW x \in UNION {e.tags : e \in EntriesOf(p)'} PROVE x \in RowsOf(p)'
      <4>1. PICK e \in Range(file.tagged) : e.product = p /\ x \in e.tags
        BY <3>2, <3>4
      <4> DEFINE r == [product |-> e.product, kind |-> x.kind, slug |-> x.slug,
                       confidence |-> x.confidence, model |-> file.model]
      <4>2. r \in Inserted(file)
        BY <4>1, <2>1, InsertedRows
      <4>3. x \in TagsOf(x.kind)
        BY <4>1, <2>1 DEF EntriesOk, EntryOk
      <4>4. x = [kind |-> r.kind, slug |-> r.slug, confidence |-> r.confidence] /\ r.product = p
        BY <4>1, <4>3 DEF TagsOf
      <4> HIDE DEF r
      <4>5. r \in table'
        BY <4>2, <2>2
      <4> QED BY <4>4, <4>5 DEF RowsOf
    <3> QED BY <3>1, <3>3, <3>4
  <2>5. CASE p \notin Listed(file)
    <3>1. decided'[p] = decided[p]
      BY <2>2, <2>5
    <3>2. ASSUME NEW r, r.product = p PROVE r \in table' <=> r \in table
      <4>1. r \notin Inserted(file)
        BY <3>2, <2>3, <2>5 DEF Listed
      <4> QED BY <4>1, <3>2, <2>2, <2>5 DEF Remaining, ToDelete
    <3>3. {r \in table' : r.product = p} = {r \in table : r.product = p}
      BY <3>2
    <3>4. RowsOf(p)' = RowsOf(p)
      BY <3>3 DEF RowsOf
    <3> QED BY <3>1, <3>4, <1>1
  <2> QED BY <2>4, <2>5
<1>3. ASSUME NEW q \in Products, DeleteProduct(q)
      PROVE  RowsOf(p)' = IF decided'[p] = 0 THEN {} ELSE UNION {e.tags : e \in EntriesOf(p)'}
  <2>1. table' = {r \in table : r.product # q} /\ decided' = [decided EXCEPT ![q] = 0]
    BY <1>3 DEF DeleteProduct
  <2>2. CASE p = q
    <3>1. RowsOf(p)' = {}
      BY <2>1, <2>2 DEF RowsOf
    <3> QED BY <3>1, <2>1, <2>2, <1>d
  <2>3. CASE p # q
    <3>1. {r \in table' : r.product = p} = {r \in table : r.product = p}
      BY <2>1, <2>3
    <3>2. RowsOf(p)' = RowsOf(p)
      BY <3>1 DEF RowsOf
    <3> QED BY <3>2, <2>1, <2>3, <1>d, <1>1
  <2> QED BY <2>2, <2>3
<1>4. ASSUME ~ \E n \in DOMAIN files : ApplyFile(n), ~ \E q \in Products : DeleteProduct(q)
      PROVE  UNCHANGED <<table, decided>>
  BY <1>4 DEF Next, StartJob, ReadPage, JobFails, LabelProduct, SkipProduct, WriteFile,
     FileRolledBack, Publish, Withdraw, vars
<1>5. ASSUME UNCHANGED <<table, decided>>
      PROVE  RowsOf(p)' = IF decided'[p] = 0 THEN {} ELSE UNION {e.tags : e \in EntriesOf(p)'}
  <2>1. RowsOf(p)' = RowsOf(p)
    BY <1>5 DEF RowsOf
  <2> QED BY <2>1, <1>5, <1>1
<1> QED BY <1>2, <1>3, <1>4, <1>5

LEMMA NextTagInv == TagInv /\ [Next]_vars => TagInv'
BY NextJobOk, NextFilesOk, NextRowsPlaced, NextKeysUnique, NextLastFileDecides DEF TagInv

LEMMA SpecTagInv == Spec => []TagInv
<1>1. Init => TagInv
  BY InitTagInv
<1>2. TagInv /\ [Next]_vars => TagInv'
  BY NextTagInv
<1> QED BY <1>1, <1>2, PTL DEF Spec

\* Whatever the files say and in whatever order, and however often, they are
\* run, while products are withdrawn, published and deleted: a product's rows
\* are those of the last file that listed it.
THEOREM LastFileWins == Spec => []LastFileDecides
<1>1. TagInv => LastFileDecides
  BY DEF TagInv
<1> QED BY <1>1, SpecTagInv, PTL

\* What the invariant says of a stored tag.
LEMMA StoredTags == TagInv => TagsAreAgreed
<1> SUFFICES ASSUME TagInv PROVE TagsAreAgreed
  OBVIOUS
<1>1. \A r, s \in table : SameKey(r, s) => r = s
  BY DEF TagInv, KeysUnique
<1>2. ASSUME NEW r \in table
      PROVE  /\ r.slug \in VOCABULARY[r.kind] /\ r.confidence \in MIN_CONFIDENCE .. 100
             /\ \E e \in EntriesOf(r.product) :
                  LET sure == {i \in DOMAIN e.drafts : \E g \in e.drafts[i][r.kind] :
                                 g.term = r.slug /\ Usable(g.confidence)}
                  IN  2 * Cardinality(sure) > Len(e.drafts)
  <2> DEFINE p == r.product
             t == [kind |-> r.kind, slug |-> r.slug, confidence |-> r.confidence]
  <2>1. p \in Products
    BY DEF TagInv, RowsPlaced
  <2>2. t \in RowsOf(p)
    BY DEF RowsOf
  <2>3. decided[p] # 0 /\ t \in UNION {e.tags : e \in EntriesOf(p)}
    <3> HIDE DEF t, p
    <3> QED BY <2>1, <2>2 DEF TagInv, LastFileDecides
  <2>4. PICK e \in EntriesOf(p) : t \in e.tags
    BY <2>3
  <2>5. decided[p] \in 1 .. Len(files)
    <3>1. decided[p] \in 0 .. Len(files)
      BY <2>1 DEF TagInv, RowsPlaced
    <3>2. Len(files) \in Nat
      BY SeqFacts DEF TagInv, FilesOk, IsSeq
    <3> QED BY <3>1, <3>2, <2>3
  <2>6. EntryOk(e)
    BY <2>4, <2>5 DEF EntriesOf, EntriesOk, TagInv, FilesOk
  <2>7. t \in TagsOf(t.kind) /\ Backed(e.drafts, t)
    BY <2>4, <2>6 DEF EntryOk
  <2>8. r.slug \in VOCABULARY[r.kind] /\ r.confidence \in MIN_CONFIDENCE .. 100
    BY <2>7 DEF TagsOf
  <2>9. 2 * Cardinality({i \in DOMAIN e.drafts : \E g \in e.drafts[i][r.kind] :
                           g.term = r.slug /\ Usable(g.confidence)}) > Len(e.drafts)
    BY <2>7 DEF Backed, Sure
  <2> QED BY <2>4, <2>8, <2>9
<1>3. ASSUME NEW n \in DOMAIN files, NEW e \in Range(files[n].tagged), NEW kind \in Kinds
      PROVE  Cardinality({t \in e.tags : t.kind = kind}) <= MAX_TAGS_PER_KIND
  <2>1. EntryOk(e)
    BY AppliedFile DEF EntriesOk
  <2> QED BY <2>1 DEF EntryOk, FewOfEach
<1> QED BY <1>1, <1>2, <1>3 DEF TagsAreAgreed

\* Every stored tag is of the vocabulary, sure enough and given by more than
\* half of the answers about its product, once per product, kind and slug, and
\* no product has more of a kind than is kept, for any vocabulary and whatever
\* the model answers.
THEOREM OnlyAgreedTags == Spec => []TagsAreAgreed
BY SpecTagInv, StoredTags, PTL
==================================================================================
