-------------------------- MODULE Recommendations --------------------------
(***************************************************************************)
(* What is recommended beside a search (app/recommendations): the nearest  *)
(* alternatives when nothing matched, similar products, the comparison of  *)
(* two to four products, sellers' offerings, and the reasons given for     *)
(* each. A reason is a code and the fact it states; its wording is left    *)
(* out.                                                                    *)
(***************************************************************************)
EXTENDS Search

---------------------------------------------------------------------------
(* Nearest alternatives                                                     *)

MAX_ALTERNATIVES == 3
MAX_MISSED == 2
NEVER_RELAXED == {"in_stock", "category"}

NearMiss(product, hard) ==
    LET missed == Missed(product, hard)
    IN  missed # {} /\ missed \cap NEVER_RELAXED = {} /\ Cardinality(missed) <= MAX_MISSED

(* Fewest misses, then cheapest, then lowest id.                            *)
NearestAlternatives(products, hard) ==
    LET missed(p) == Cardinality(Missed(p, hard))
        nearer(p, q) == \/ missed(p) < missed(q)
                        \/ missed(p) = missed(q) /\ p.price < q.price
                        \/ missed(p) = missed(q) /\ p.price = q.price /\ p.id < q.id
        ordered == Sorted(Passing(products, LAMBDA p : NearMiss(p, hard)), nearer)
    IN  SubSeq(ordered, 1, MinOf(Len(ordered), MAX_ALTERNATIVES))

---------------------------------------------------------------------------
(* Reasons                                                                  *)

Reason(code, fact, basis) == [code |-> code, fact |-> fact, basis |-> basis]

(* Each stated constraint, read back with what the product offers for it.   *)
(* A measure gets a reason only against a maximum the customer gave.        *)
MatchReasons(product, hard) ==
    LET offered == ColourSlugs(IF hard.in_stock_only THEN InStock(product) ELSE product.colours)
        fits(d) == {Reason(d, v, "catalogue") : v \in
                       {w \in product[d] : \E r \in hard[d] : r.maximum # {}}}
    IN  {Reason("category", c, "catalogue") : c \in hard.category}
        \cup {Reason("colours", c, "catalogue") : c \in hard.colours \cap offered}
        \cup {Reason("materials", m, "catalogue") : m \in hard.materials}
        \cup {Reason("price", product.price, "catalogue") : r \in hard.price}
        \cup (UNION {fits(d) : d \in Dimensions})
        \cup (IF hard.in_stock_only THEN {Reason("in_stock", TRUE, "catalogue")} ELSE {})

(* A style, room or feel the product answers, on the seller's word or as    *)
(* the platform's guess; nothing is said of a slug it does not carry.       *)
PreferenceReasons(product, soft) ==
    LET of(code, kind, wanted) ==
            {Reason(code, s, IF Strength(product, kind, s) >= One THEN "catalogue" ELSE "inferred") :
                s \in {w \in wanted : Strength(product, kind, w) > 0}}
    IN  of("styles", "style", soft.styles) \cup of("feels", "feel", soft.feels)
        \cup of("room_type", "room_type", soft.room)

(* What an alternative fails, and by how much where that is a number.       *)
Excess(values, range) ==
    {v - m : v \in values, m \in UNION {r.maximum : r \in range}} \cap (Nat \ {0})
ShortfallReasons_Measured(product, hard) ==
    {Reason(n, "off", "catalogue") : n \in Missed(product, hard) \cap ({"price"} \cup Dimensions)}
ShortfallReasons(product, hard) ==
    LET excess(n) == IF n = "price" THEN Excess({product.price}, hard.price)
                     ELSE IF n \in Dimensions THEN Excess(product[n], hard[n]) ELSE {}
        said(n)   == IF excess(n) # {} THEN excess(n)
                     ELSE IF n \in Dimensions /\ product[n] = {} THEN {"not recorded"}
                     ELSE {"does not match"}
    IN  UNION {{Reason(n, f, "catalogue") : f \in said(n)} : n \in Missed(product, hard)}

---------------------------------------------------------------------------
(* Similar products                                                         *)

NEAR_WIDTH_CM == 10
ConfirmedStyles(product) == {a.label : a \in {b \in product.attributes : b.kind = "style"}}

SameKind(target, other) ==
    IF target.category # Unmapped THEN other.category = target.category
    ELSE other.category_id = target.category_id

(* 2 per material, 1 per colour, 2 per style, up to 3 for a close price and *)
(* 1 for a width within ten centimetres.                                    *)
SimilarScore(target, other) ==
    LET colours == ColourSlugs(InStock(target)) \cap ColourSlugs(InStock(other))
        near    == \E w \in target.width, v \in other.width : Distance(w, v) <= NEAR_WIDTH_CM
        off     == MinOf(target.price, Distance(target.price, other.price))
    IN  One * (2 * Cardinality(target.materials \cap other.materials) + Cardinality(colours)
               + 2 * Cardinality(ConfirmedStyles(target) \cap ConfirmedStyles(other))
               + (IF near THEN 1 ELSE 0))
        + (IF target.price = 0 THEN 0
           ELSE RoundHalfEven(3 * (target.price - off) * One, target.price))

FindSimilar(target, candidates, limit) ==
    LET wanted(p) == p.id # target.id /\ SameKind(target, p) /\ InStock(p) # {}
        off(p)    == Distance(p.price, target.price)
        closer(p, q) == LET a == SimilarScore(target, p) b == SimilarScore(target, q)
                        IN  \/ a > b
                            \/ a = b /\ off(p) < off(q)
                            \/ a = b /\ off(p) = off(q) /\ p.id < q.id
        ordered == Sorted(Passing(candidates, wanted), closer)
    IN  SubSeq(ordered, 1, MinOf(Len(ordered), limit))

SimilarReasons(target, other) ==
    {Reason("material", m, "catalogue") : m \in target.materials \cap other.materials}
    \cup {Reason("colour", c, "catalogue") :
            c \in ColourSlugs(InStock(target)) \cap ColourSlugs(InStock(other))}
    \cup {Reason("style", s, "catalogue") : s \in ConfirmedStyles(target) \cap ConfirmedStyles(other)}
    \cup {Reason("price", other.price - target.price, "catalogue")}

---------------------------------------------------------------------------
(* Comparison                                                               *)

MIN_COMPARED == 2
MAX_COMPARED == 4

Stock(product) == MapThenSumSet(LAMBDA c : c.stock, InStock(product))
Footprint(product) == {w * d : w \in product.width, d \in product.depth}
Measures == {"price", "footprint", "stock"}
Measure(product, row) == CASE row = "price"     -> {product.price}
                           [] row = "footprint" -> Footprint(product)
                           [] row = "stock"     -> {Stock(product)}

(* The products holding a row's notable value: the lowest price, the least  *)
(* floor space, the most units; none unless every value is known and they   *)
(* differ.                                                                  *)
Extreme(products, row) ==
    LET values == UNION {Measure(products[i], row) : i \in DOMAIN products}
        target == IF row = "stock" THEN Max(values) ELSE Min(values)
    IN  IF (\E i \in DOMAIN products : Measure(products[i], row) = {}) \/ Cardinality(values) < 2
        THEN <<>> ELSE Passing(products, LAMBDA p : target \in Measure(p, row))

(* The summary names the first of the highlighted products of each row.     *)
Summary(products) ==
    [row \in {r \in Measures : Extreme(products, r) # <<>>} |-> Extreme(products, row)[1].id]

(* The columns a comparison marks, and its summary.                         *)
BuildComparison(products) ==
    [products |-> products, summary |-> Summary(products),
     highlight |-> [m \in Measures |-> Extreme(products, m)]]

---------------------------------------------------------------------------
(* Sellers' offerings: rows are shown as they are or dropped.               *)

MAX_OFFERS == 3
ParseOfferingRows(rows) ==
    Passing(rows, LAMBDA r : r.titled /\ r.identified /\ r.price \subseteq Nat)
(* The newest published ones; the rows are in that order.                   *)
PublishedOfferings(rows) ==
    LET published == Passing(rows, LAMBDA r : r.published)
    IN  ParseOfferingRows(SubSeq(published, 1, MinOf(Len(published), MAX_OFFERS)))

---------------------------------------------------------------------------
(* The answer to a search                                                   *)

(* The specification that was executed, in the customer's own words.        *)
BuildInterpretation(spec) ==
    [hard |-> spec.hard,
     soft |-> [n \in {"colours", "materials", "styles", "feels", "room"} |-> spec.soft[n]]]

(* A row that the catalogue would withhold is dropped, whatever its rank.   *)
Shippable(rows, id) == UNION {BuildProductResponse(r) : r \in {q \in Range(rows) : q.id = id}}
SearchItem(scored, rows, spec) ==
    Joined(scored, [shown   |-> Shippable(rows, scored.product.id),
                    matched |-> CheckNames \ Missed(scored.product, spec.hard),
                    reasons |-> MatchReasons(scored.product, spec.hard)
                                \cup PreferenceReasons(scored.product, spec.soft)])
AlternativeItem(product, rows, spec) ==
    [product |-> product, shown |-> Shippable(rows, product.id),
     missed  |-> ShortfallReasons(product, spec.hard)]
Shipped(items) == Passing(items, LAMBDA item : item.shown # {})

(* A sentence that asked for nothing is answered with the question, when    *)
(* there is one, and not with the catalogue.                                *)
BuildSearchResponse(rows, results, spec, unclear, nearest, offers) ==
    LET page     == [i \in DOMAIN results.items |-> results.items[i].product]
        items    == [i \in DOMAIN results.items |-> SearchItem(results.items[i], rows, spec)]
        asked    == FollowUp(spec, page, results.match_count, unclear)
        awaiting == ~ StatesARequirement(spec) /\ (asked # NoQuestion \/ unclear)
        tasted   == \E i \in DOMAIN items : \E v \in items[i].parts.taste : v > 0
    IN  [items           |-> IF awaiting THEN <<>> ELSE Shipped(items),
         match_count     |-> IF awaiting THEN 0 ELSE results.match_count,
         candidate_count |-> results.candidate_count,
         has_more        |-> results.has_more,
         interpretation  |-> BuildInterpretation(spec),
         excluded_by     |-> results.rejections,
         alternatives    |-> Shipped([i \in DOMAIN nearest |-> AlternativeItem(nearest[i], rows, spec)]),
         seller_offers   |-> offers,
         personalized    |-> tasted /\ ~ awaiting,
         follow_up       |-> asked, clarification |-> unclear, awaiting_answer |-> awaiting]
=============================================================================
