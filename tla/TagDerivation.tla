----------------------------- MODULE TagDerivation -----------------------------
(***************************************************************************)
(* Inferred search tags, from the model's guesses to the table.  A job of  *)
(* scripts/derive_search_tags.py pages through the catalogue, has every    *)
(* product labelled several times, keeps what most of the answers agree on *)
(* and writes a SQL file.  A person runs the files by hand, whenever and   *)
(* in whatever order; meanwhile products come, go and change.              *)
(*                                                                         *)
(* Products and slugs are numbers: their order is the one the catalogue    *)
(* and the ranking of tags use.  Confidences of the model are thousandths, *)
(* those kept are hundredths.                                              *)
(***************************************************************************)
EXTENDS Integers, Sequences, FiniteSets, SequencesExt, FiniteSetsExt

CONSTANTS Products, Models, Kinds,
          VOCABULARY,            \* the slugs of each kind
          Drafts,                \* what the model may answer: guesses per kind
          RUNS,                  \* how often a job may label each product
          LIMITS, NoLimit,       \* how many products a job may be told to label
          PAGE_SIZE,
          MaxJobs, MaxChanges    \* bounds of the model

ASSUME TagAssumption ==
  /\ RUNS \subseteq Nat \ {0}
  /\ \A kind \in Kinds : IsFiniteSet(VOCABULARY[kind]) /\ VOCABULARY[kind] \subseteq Nat
  /\ \A draft \in Drafts, kind \in Kinds : \A g \in draft[kind] : g.confidence \in Int

VARIABLES live,       \* the products the catalogue lists, all of them eligible
          exists,     \* the products that have not been deleted
          job,        \* the labelling job that is running
          files,      \* the SQL files written so far
          table,      \* public.product_search_tag
          decided,    \* the last file applied that lists a product (0: none)
          refused,    \* the files whose transaction was rolled back
          changes     \* how often the catalogue changed

catalogue == <<live, exists, changes>>
vars == <<live, exists, changes, job, files, table, decided, refused>>
-----------------------------------------------------------------------------
(* app/ai/tagging.py                                                       *)

MAX_TAGS_PER_KIND == 3
MIN_CONFIDENCE == 40

RoundHalfEven(n, d) ==
  LET q == n \div d
      twice == 2 * (n % d)
  IN  IF twice > d \/ (twice = d /\ q % 2 = 1) THEN q + 1 ELSE q

\* A usable confidence, rounded to the two decimals the table stores.
Usable(c) == c > 0 /\ c <= 1000 /\ RoundHalfEven(c, 10) >= MIN_CONFIDENCE

Guessed(draft, kind) ==
  {[kind |-> kind, slug |-> g.term, confidence |-> RoundHalfEven(g.confidence, 10)] :
     g \in {h \in draft[kind] : h.term \in VOCABULARY[kind] /\ Usable(h.confidence)}}

Before(s, t) == \/ s.confidence > t.confidence
                \/ s.confidence = t.confidence /\ s.slug < t.slug

Top(tags) == {t \in tags : Cardinality({s \in tags : Before(s, t)}) < MAX_TAGS_PER_KIND}

\* Every slug at its highest confidence.
Best(tags) == {t \in tags : \A s \in tags : s.slug = t.slug => s.confidence <= t.confidence}

\* The best few of each kind; what is outside the vocabulary is dropped.
TagsFromDraft(draft) == UNION {Top(Best(Guessed(draft, kind))) : kind \in Kinds}

InMoreThanHalf_OrHalf(count, runs) == 2 * count >= runs
InMoreThanHalf(count, runs) == 2 * count > runs

\* The answers that give a tag, and the confidences they give it.
Saying(answers, kind, slug) ==
  {i \in 1 .. Len(answers) : \E t \in answers[i] : t.kind = kind /\ t.slug = slug}
ConfidenceOf(answer, kind, slug) ==
  (CHOOSE t \in answer : t.kind = kind /\ t.slug = slug).confidence
Mean(answers, kind, slug) ==
  RoundHalfEven(MapThenSumSet(LAMBDA i : ConfidenceOf(answers[i], kind, slug),
                              Saying(answers, kind, slug)),
                Cardinality(Saying(answers, kind, slug)))

\* The tags of a kind that most answers give, at their average confidence.
Agreed(answers, kind) ==
  {[kind |-> kind, slug |-> slug, confidence |-> Mean(answers, kind, slug)] :
     slug \in {s \in {t.slug : t \in {u \in UNION Range(answers) : u.kind = kind}} :
                 /\ InMoreThanHalf(Cardinality(Saying(answers, kind, s)), Len(answers))
                 /\ Mean(answers, kind, s) >= MIN_CONFIDENCE}}

Consensus(answers) ==
  IF Len(answers) = 1 THEN answers[1] ELSE UNION {Top(Agreed(answers, kind)) : kind \in Kinds}
-----------------------------------------------------------------------------
(* scripts/derive_search_tags.py: one job at a time.                       *)

Idle == [stage |-> "idle"]

StartJob(model, runs, limit) ==
  /\ job.stage = "idle" /\ Len(files) < MaxJobs
  /\ job' = [stage |-> "paging", model |-> model, runs |-> runs, limit |-> limit,
             offset |-> 0, products |-> <<>>, tagged |-> <<>>]
  /\ UNCHANGED <<catalogue, files, table, decided, refused>>

\* The catalogue in the order of the ids, from the offset, with one row more
\* than the page to tell whether there is another.
Page(offset) ==
  LET listed == SetToSortSeq(live, <)
  IN  SubSeq(listed, offset + 1, IF offset + PAGE_SIZE + 1 < Len(listed)
                                 THEN offset + PAGE_SIZE + 1 ELSE Len(listed))

Cut(products, limit) ==
  IF limit = NoLimit \/ Len(products) <= limit THEN products ELSE SubSeq(products, 1, limit)

\* Each page is a request of its own: the catalogue may change between two.
ReadPage ==
  LET page == Page(job.offset)
      read == job.products \o SubSeq(page, 1, IF Len(page) < PAGE_SIZE THEN Len(page) ELSE PAGE_SIZE)
      last == Len(page) <= PAGE_SIZE \/ (job.limit # NoLimit /\ Len(read) >= job.limit)
  IN  /\ job.stage = "paging"
      /\ job' = IF last
                THEN [job EXCEPT !.stage = "labelling", !.products = Cut(read, job.limit)]
                ELSE [job EXCEPT !.products = read, !.offset = @ + PAGE_SIZE]
      /\ UNCHANGED <<catalogue, files, table, decided, refused>>

\* The catalogue cannot be read, or sign-in fails: no file is written.
JobFails == /\ job.stage = "paging"
            /\ job' = Idle
            /\ UNCHANGED <<catalogue, files, table, decided, refused>>

\* drafts: what the model answered for this product, kept for the properties.
LabelProduct ==
  /\ job.stage = "labelling" /\ job.products # <<>>
  /\ \E drafts \in [1 .. job.runs -> Drafts] :
       job' = [job EXCEPT
                 !.products = Tail(@),
                 !.tagged = Append(@, [product |-> Head(job.products), drafts |-> drafts,
                   tags |-> Consensus([i \in 1 .. job.runs |-> TagsFromDraft(drafts[i])])])]
  /\ UNCHANGED <<catalogue, files, table, decided, refused>>

\* One of the answers failed: the product is not listed in the file at all.
SkipProduct == /\ job.stage = "labelling" /\ job.products # <<>>
               /\ job' = [job EXCEPT !.products = Tail(@)]
               /\ UNCHANGED <<catalogue, files, table, decided, refused>>

WriteFile ==
  /\ job.stage = "labelling" /\ job.products = <<>>
  /\ files' = IF job.tagged = <<>> THEN files
              ELSE Append(files, [model |-> job.model, tagged |-> job.tagged])
  /\ job' = Idle
  /\ UNCHANGED <<catalogue, table, decided, refused>>
-----------------------------------------------------------------------------
(* The file render_sql writes, run as one transaction.                     *)

Listed(file) == {e.product : e \in Range(file.tagged)}

\* What the DELETE of the file names.
ToDelete_Labelled(file) == {e.product : e \in {d \in Range(file.tagged) : d.tags # {}}}
ToDelete(file) == Listed(file)

\* The VALUES of its INSERT: one row per entry and tag.
Inserts(file) ==
  UNION {{[entry |-> i, tag |-> t] : t \in file.tagged[i].tags} : i \in DOMAIN file.tagged}

RowOf(file, insert) ==
  [product |-> file.tagged[insert.entry].product, kind |-> insert.tag.kind, slug |-> insert.tag.slug,
   confidence |-> insert.tag.confidence, model |-> file.model]

Remaining(file) == {r \in table : r.product \notin ToDelete(file)}
Inserted(file) == {RowOf(file, i) : i \in Inserts(file)}

SameKey(r, s) == r.product = s.product /\ r.kind = s.kind /\ r.slug = s.slug

\* The primary key, against the other rows of the file and what was not deleted.
KeysDistinct(file) ==
  /\ \A i, j \in Inserts(file) : SameKey(RowOf(file, i), RowOf(file, j)) => i = j
  /\ \A r \in Inserted(file), s \in Remaining(file) : ~SameKey(r, s)

ProductsExist(file) == {r.product : r \in Inserted(file)} \subseteq exists

\* The check at the end counts the rows of the model in the whole table.
CountChecks(file) ==
  Cardinality({r \in Remaining(file) \cup Inserted(file) : r.model = file.model})
    = Cardinality(Inserts(file))

ApplyFile(n) ==
  LET file == files[n] IN
  /\ KeysDistinct(file) /\ ProductsExist(file) /\ CountChecks(file)
  /\ table' = Remaining(file) \cup Inserted(file)
  /\ decided' = [p \in Products |-> IF p \in Listed(file) THEN n ELSE decided[p]]
  /\ UNCHANGED <<catalogue, job, files, refused>>

\* An error rolls the transaction back.
FileRolledBack(n) ==
  LET file == files[n] IN
  /\ ~(KeysDistinct(file) /\ ProductsExist(file) /\ CountChecks(file))
  /\ refused' = refused \cup {[file |-> n, keys |-> KeysDistinct(file), known |-> ProductsExist(file)]}
  /\ UNCHANGED <<catalogue, job, files, table, decided>>
-----------------------------------------------------------------------------
(* The catalogue's own life.                                               *)

Change == /\ changes < MaxChanges /\ changes' = changes + 1
          /\ UNCHANGED <<job, files, refused>>

Publish(p) == /\ p \in exists \ live /\ Change
              /\ live' = live \cup {p}
              /\ UNCHANGED <<exists, table, decided>>

Withdraw(p) == /\ p \in live /\ Change
               /\ live' = live \ {p}
               /\ UNCHANGED <<exists, table, decided>>

\* ON DELETE CASCADE takes the product's tags with it.
DeleteProduct(p) == /\ p \in exists /\ Change
                    /\ live' = live \ {p} /\ exists' = exists \ {p}
                    /\ table' = {r \in table : r.product # p}
                    /\ decided' = [decided EXCEPT ![p] = 0]

Init == /\ live \in SUBSET Products
        /\ exists = Products
        /\ job = Idle
        /\ files = <<>>
        /\ table = {}
        /\ decided = [p \in Products |-> 0]
        /\ refused = {}
        /\ changes = 0

Next ==
  \/ \E m \in Models, r \in RUNS, l \in LIMITS : StartJob(m, r, l)
  \/ ReadPage \/ JobFails \/ LabelProduct \/ SkipProduct \/ WriteFile
  \/ \E n \in DOMAIN files : ApplyFile(n) \/ FileRolledBack(n)
  \/ \E p \in Products : Publish(p) \/ Withdraw(p) \/ DeleteProduct(p)

Spec == Init /\ [][Next]_vars
-----------------------------------------------------------------------------
RowsOf(p) == {[kind |-> r.kind, slug |-> r.slug, confidence |-> r.confidence] :
                r \in {s \in table : s.product = p}}

EntriesOf(p) == {e \in Range(files[decided[p]].tagged) : e.product = p}

\* The table holds for every product exactly what the last file that lists it
\* says, whatever files were run before, in whatever order, over and over: no
\* second opinion piles up, and a tag no longer believed is gone, also when
\* the model declined to label the product this time.
LastFileDecides ==
  \A p \in Products :
    RowsOf(p) = IF decided[p] = 0 THEN {} ELSE UNION {e.tags : e \in EntriesOf(p)}

\* Every stored tag is a word of the vocabulary that more than half of the
\* answers about the product gave with enough confidence, and no product has
\* more of a kind than is kept; once per product, kind and slug.
TagsAreAgreed ==
  /\ \A r, s \in table : SameKey(r, s) => r = s
  /\ \A r \in table :
       /\ r.slug \in VOCABULARY[r.kind] /\ r.confidence \in MIN_CONFIDENCE .. 100
       /\ \E e \in EntriesOf(r.product) :
            LET sure == {i \in DOMAIN e.drafts : \E g \in e.drafts[i][r.kind] :
                           g.term = r.slug /\ Usable(g.confidence)}
            IN  2 * Cardinality(sure) > Len(e.drafts)
  /\ \A n \in DOMAIN files : \A e \in Range(files[n].tagged) : \A kind \in Kinds :
       Cardinality({t \in e.tags : t.kind = kind}) <= MAX_TAGS_PER_KIND

\* "Render one reviewable, re-runnable file": a file whose products still
\* exist and are listed once is never refused.
FilesAreRerunnable == \A f \in refused : ~f.keys \/ ~f.known
=============================================================================
