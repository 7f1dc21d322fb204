----------------------------- MODULE Catalogue -----------------------------
(***************************************************************************)
(* What app/catalog makes of an upstream product row: the vocabulary       *)
(* lookup, the normalised form that search ranks, the eligibility recheck, *)
(* inferred tags, and the page the catalogue endpoint returns.             *)
(*                                                                         *)
(* A surface form is a word; a bilingual label is the set of its halves.   *)
(* An optional value is a set with at most one element. The vocabularies   *)
(* keep two or three terms of each table. Prices and lengths are integers; *)
(* a confidence is in hundredths, a score in ten-thousandths.              *)
(***************************************************************************)
EXTENDS Naturals, FiniteSets, Sequences, SequencesExt

(* The members of a set in the order `before`: each comes after as many as  *)
(* are before it.                                                           *)
InOrder(S, before(_, _)) ==
    [n \in 1 .. Cardinality(S) |->
        CHOOSE x \in S : Cardinality({y \in S : before(y, x)}) = n - 1]

(* The elements of a sequence that pass, in their order.                    *)
Passing(s, Test(_)) ==
    LET kept == InOrder({i \in DOMAIN s : Test(s[i])}, <)
    IN  [n \in DOMAIN kept |-> s[kept[n]]]

(* A stable sort: what `before` does not separate keeps its order.          *)
Sorted(s, before(_, _)) ==
    LET first(i, j) == \/ before(s[i], s[j])
                       \/ ~ before(s[j], s[i]) /\ i < j
        order == InOrder(DOMAIN s, first)
    IN  [n \in DOMAIN order |-> s[order[n]]]

(* The entries of several lists, each under its list and its place in it.   *)
Spread(lists) ==
    [p \in UNION {{i} \X DOMAIN lists[i] : i \in DOMAIN lists} |-> lists[p[1]][p[2]]]

(* The fields of one record and those of another.                           *)
Joined(f, g) == [x \in DOMAIN f \cup DOMAIN g |-> IF x \in DOMAIN f THEN f[x] ELSE g[x]]

Unmapped == "unmapped"

(* A term's two labels, English and Arabic, and its other surface forms.    *)
Term(slug, labels, synonyms) ==
    [slug |-> slug, labels |-> labels, surfaces |-> labels \cup synonyms]
CATEGORIES == {Term("sofas", {"sofas", "kanab"}, {"sofa", "couch"}),
               Term("beds", {"beds", "sereer"}, {"bed"}),
               Term("tables", {"tables", "tarabeza"}, {"table"})}
COLOURS    == {Term("grey", {"grey", "ramady"}, {"gray"}), Term("beige", {"beige", "bej"}, {}),
               Term("brown", {"brown", "bonny"}, {})}
MATERIALS  == {Term("wood", {"wood", "khashab"}, {}), Term("leather", {"leather", "geld"}, {}),
               Term("metal", {"metal", "maadan"}, {})}
STYLES     == {Term("modern", {"modern", "modrn"}, {"asry"}), Term("classic", {"classic", "klasik"}, {})}
ROOM_TYPES == {Term("bedroom", {"bedroom", "nom"}, {}), Term("office", {"office", "maktab"}, {"study"})}
FEELS      == {Term("cosy", {"cosy", "dafy"}, {"cozy"}), Term("calm", {"calm", "hady"}, {})}

(* The three dimensions no seller states, with the vocabulary of each.      *)
TAG_VOCABULARIES == [style |-> STYLES, room_type |-> ROOM_TYPES, feel |-> FEELS]
TagKinds == DOMAIN TAG_VOCABULARIES
Slugs(vocabulary) == {t.slug : t \in vocabulary}

(* The constructor of a vocabulary refuses an ambiguous synonym or slug.    *)
WellFormed(vocabulary) ==
    \A t, u \in vocabulary : t # u => t.slug # u.slug /\ t.surfaces \cap u.surfaces = {}
ASSUME VocabulariesWellFormed ==
    \A v \in {CATEGORIES, COLOURS, MATERIALS, STYLES, ROOM_TYPES, FEELS} : WellFormed(v)

(* What a row of the database must be to be read at all.                    *)
UpstreamProduct(row) ==
    /\ row.lifecycle_state \in {"draft", "published", "hidden", "archived"}
    /\ row.approval_state \in {"pending", "approved", "rejected", "suspended"}
    /\ \A c \in row.colours : c.stock \in Nat
    /\ \A a \in row.enrichment : a.state \in {"ai_proposed", "party_confirmed"}

(* A label resolves when its halves name exactly one term between them.     *)
Lookup(vocabulary, label) ==
    LET named == {t \in vocabulary : t.surfaces \cap label # {}}
    IN  IF Cardinality(named) = 1 THEN (CHOOSE t \in named : TRUE).slug ELSE Unmapped

(* A discount counts only when it lowers the price.                         *)
EffectivePrice(row) ==
    IF \E d \in row.discount : d < row.price THEN CHOOSE d \in row.discount : TRUE ELSE row.price

Confirmed(row) == {a \in row.enrichment : a.state = "party_confirmed"}

(* The words a query is matched with: of every label the row carries, of    *)
(* the slugs and both labels of the terms they resolve to, of the confirmed *)
(* attributes with their kinds, and of the name and the description.        *)
SearchTerms(row) ==
    LET words(vocabulary, label) ==
            label \cup UNION {{t.slug} \cup t.labels :
                               t \in {u \in vocabulary : u.slug = Lookup(vocabulary, label)}}
    IN  UNION ({words(CATEGORIES, row.category), row.text}
               \cup {words(COLOURS, c.label) : c \in row.colours}
               \cup {words(MATERIALS, m) : m \in row.materials}
               \cup {{a.kind} \cup a.label : a \in Confirmed(row)})

NormalizeProduct(row) ==
    [id |-> row.id,
     category   |-> Lookup(CATEGORIES, row.category), category_id |-> row.category,
     colours    |-> {[slug |-> Lookup(COLOURS, c.label), stock |-> c.stock] : c \in row.colours},
     materials  |-> {Lookup(MATERIALS, m) : m \in row.materials} \ {Unmapped},
     attributes |-> {[kind |-> a.kind, label |-> a.label] : a \in Confirmed(row)},
     price      |-> EffectivePrice(row),
     width      |-> row.width, height |-> row.height, depth |-> row.depth,
     words      |-> SearchTerms(row),
     tags       |-> {}]

---------------------------------------------------------------------------
(* Inferred tags                                                            *)

(* A row of product_search_tag becomes a tag, or is dropped: never repaired. *)
ValidTag(row) == /\ row.kind \in TagKinds
                 /\ row.slug \in Slugs(TAG_VOCABULARIES[row.kind])
                 /\ row.confidence \in 1 .. 100

(* One tag per kind and slug, the surest.                                   *)
WithTags(product, tags) ==
    [product EXCEPT !.tags = {t \in tags : \A u \in tags :
        u.kind = t.kind /\ u.slug = t.slug => u.confidence <= t.confidence}]

(* The rows of one upstream answer, in the order they came.                 *)
ParseTagRows(rows) ==
    [id \in {r.product : r \in Range(Passing(rows, ValidTag))} |->
        {[kind |-> r.kind, slug |-> r.slug, confidence |-> r.confidence] :
            r \in {q \in Range(Passing(rows, ValidTag)) : q.product = id}}]

WantsInferredTags(soft) == soft.styles # {} \/ soft.feels # {} \/ soft.room # {}

(* One request for all the candidates, cut at `maximum` rows. A failed one  *)
(* and an unparsable one answer with no rows.                               *)
AttachInferredTags(products, soft, stored, maximum) ==
    LET asked(r) == r.product \in {p.id : p \in Range(products)}
        answer   == Passing(stored, asked)
        tags     == ParseTagRows(SubSeq(answer, 1, IF Len(answer) < maximum THEN Len(answer) ELSE maximum))
    IN  IF products = <<>> \/ ~ WantsInferredTags(soft) THEN products
        ELSE [i \in DOMAIN products |-> IF products[i].id \in DOMAIN tags
                                        THEN WithTags(products[i], tags[products[i].id])
                                        ELSE products[i]]

---------------------------------------------------------------------------
(* Eligibility and pages                                                    *)

IsRecommendationEligible(row) ==
    /\ row.lifecycle_state = "published"
    /\ row.approval_state = "approved"
    /\ row.category_active
    /\ \E c \in row.colours : c.stock > 0

(* What a client sees of a row: nothing, or the row without its colours     *)
(* that are out of stock and without unconfirmed attributes.                *)
BuildProductResponse(row) ==
    IF IsRecommendationEligible(row)
    THEN {[id |-> row.id, price |-> row.price, discount |-> row.discount,
           colours |-> {c \in row.colours : c.stock > 0}, attributes |-> Confirmed(row)]}
    ELSE {}

ById(a, b) == a.id < b.id

(* What the filters of the catalogue query leave: eligible rows, each with  *)
(* its colours in stock and its confirmed attributes only.                  *)
CatalogueQuery(rows) ==
    {[r EXCEPT !.colours = {c \in r.colours : c.stock > 0}, !.enrichment = Confirmed(r)] :
        r \in {q \in rows : IsRecommendationEligible(q)}}

ListProducts_NoLookAhead(rows, limit, offset) ==
    LET found == InOrder(CatalogueQuery(rows), ById)
        last  == IF Len(found) < offset + limit THEN Len(found) ELSE offset + limit
    IN  SubSeq(found, offset + 1, last)
(* PostgREST's answer: by id, from offset, with one row beyond the page.    *)
ListProducts(rows, limit, offset) ==
    LET found == InOrder(CatalogueQuery(rows), ById)
        last  == IF Len(found) < offset + limit + 1 THEN Len(found) ELSE offset + limit + 1
    IN  SubSeq(found, offset + 1, last)

(* At most one row; nothing when the caller may not see the product.        *)
GetProduct(rows, id) == {r \in CatalogueQuery(rows) : r.id = id}
ListByIds(rows, ids) == InOrder({r \in CatalogueQuery(rows) : r.id \in ids}, ById)

BuildProductListResponse(products, limit) ==
    LET kept == Passing(products, IsRecommendationEligible)
    IN  [items |-> [i \in 1 .. (IF Len(kept) < limit THEN Len(kept) ELSE limit) |->
                       CHOOSE r \in BuildProductResponse(kept[i]) : TRUE],
         has_more |-> Len(kept) > limit]
=============================================================================
