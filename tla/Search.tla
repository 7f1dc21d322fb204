------------------------------- MODULE Search -------------------------------
(***************************************************************************)
(* Structured search over normalised products (app/search): the typed      *)
(* specification, the hard filters, the transparent score, the order and   *)
(* the page, the follow-up question and the response; and the customer's   *)
(* taste profile (app/personalization/profile.py) that the score may use.  *)
(*                                                                         *)
(* Sets of slugs stand for the tuples of distinct slugs; optional values   *)
(* are sets with at most one element. Scores are in ten-thousandths and    *)
(* weights in quarters, so that every rounding of the code is exact here.  *)
(***************************************************************************)
EXTENDS Catalogue, Integers, TLC

CONSTANTS MIN_BROAD_MATCHES, \* matches worth a question: 8 in the code
          MAX_TERMS          \* words of one kind in a list: 10 in the code

ASSUME TermsAssumption == MAX_TERMS \in 1 .. 10

One == 10000
InferredCeiling == 8000

(* Decimal.quantize(..., ROUND_HALF_UP) of a fraction of natural numbers.   *)
RoundHalfUp(numerator, denominator) == (2 * numerator + denominator) \div (2 * denominator)
(* Decimal.quantize without a mode rounds halves to even.                   *)
RoundHalfEven(numerator, denominator) ==
    LET whole == numerator \div denominator
        twice == 2 * (numerator % denominator)
    IN  IF twice > denominator \/ (twice = denominator /\ whole % 2 = 1) THEN whole + 1 ELSE whole
MinOf(a, b) == IF a < b THEN a ELSE b
Distance(a, b) == IF a < b THEN b - a ELSE a - b
SumOf(f) == FoldFunction(+, 0, f)

---------------------------------------------------------------------------
(* The specification                                                        *)

MAX_RESULTS == 50
MAX_PRICE == 100000000
MAX_DIMENSION_CM == 100000

(* A stated range has at least one bound, in the domain and in order.       *)
ValidRange(range, low, high) ==
    \A r \in range : /\ r.minimum \cup r.maximum # {}
                     /\ r.minimum \cup r.maximum \subseteq low .. high
                     /\ \A a \in r.minimum, b \in r.maximum : a <= b
ValidSlugs(slugs, vocabulary) == slugs \subseteq Slugs(vocabulary) /\ Cardinality(slugs) <= MAX_TERMS

NoHard == [category |-> {}, colours |-> {}, materials |-> {}, price |-> {},
           width |-> {}, height |-> {}, depth |-> {}, in_stock_only |-> TRUE]
NoSoft == [colours |-> {}, materials |-> {}, styles |-> {}, feels |-> {}, room |-> {},
           width |-> {}, height |-> {}, depth |-> {}, price |-> {}]
Dimensions == {"width", "height", "depth"}

ValidHard(hard) ==
    /\ ValidSlugs(hard.category, CATEGORIES)
    /\ ValidSlugs(hard.colours, COLOURS)
    /\ ValidSlugs(hard.materials, MATERIALS)
    /\ ValidRange(hard.price, 0, MAX_PRICE)
    /\ \A d \in Dimensions : ValidRange(hard[d], 1, MAX_DIMENSION_CM)
ValidSoft(soft) ==
    /\ ValidSlugs(soft.colours, COLOURS) /\ ValidSlugs(soft.materials, MATERIALS)
    /\ ValidSlugs(soft.styles, STYLES) /\ ValidSlugs(soft.feels, FEELS)
    /\ ValidSlugs(soft.room, ROOM_TYPES)
    /\ soft.price \subseteq 1 .. MAX_PRICE
    /\ \A d \in Dimensions : soft[d] \subseteq 1 .. MAX_DIMENSION_CM

(* Whether the sentence asked for something: being in stock is the default  *)
(* and says nothing; giving that up is a statement.                         *)
StatesARequirement(spec) ==
    \/ [spec.hard EXCEPT !.in_stock_only = TRUE] # NoHard
    \/ spec.soft # NoSoft
    \/ ~ spec.hard.in_stock_only

ValidSpecification(spec) ==
    /\ ValidHard(spec.hard) /\ ValidSoft(spec.soft) /\ spec.limit \in 1 .. MAX_RESULTS
    /\ \/ [spec.hard EXCEPT !.in_stock_only = TRUE] # NoHard
       \/ spec.soft # NoSoft
       \/ spec.query # {}

(* Surface forms are resolved or reported, never guessed.                   *)
Resolved(vocabulary, labels)   == {Lookup(vocabulary, l) : l \in labels} \ {Unmapped}
Unresolved(vocabulary, labels) == {l \in labels : Lookup(vocabulary, l) = Unmapped}

(* build_specification: vocabulary words become slugs or are reported; the  *)
(* ranges, the targets and the limit pass through.                          *)
BuildSpecification(asked, query, limit) ==
    [specification |->
        [hard |-> [category  |-> Resolved(CATEGORIES, asked.category),
                   colours   |-> Resolved(COLOURS, asked.colours),
                   materials |-> Resolved(MATERIALS, asked.materials),
                   price |-> asked.price, width |-> asked.width, height |-> asked.height,
                   depth |-> asked.depth, in_stock_only |-> asked.in_stock_only],
         soft |-> [colours   |-> Resolved(COLOURS, asked.preferred_colours),
                   materials |-> Resolved(MATERIALS, asked.preferred_materials),
                   styles    |-> Resolved(STYLES, asked.styles),
                   feels     |-> Resolved(FEELS, asked.feels),
                   room      |-> Resolved(ROOM_TYPES, asked.room),
                   width |-> asked.near_width, height |-> asked.near_height,
                   depth |-> asked.near_depth, price |-> asked.near_price],
         query |-> query, limit |-> limit],
     unresolved |->
        UNION {Unresolved(CATEGORIES, asked.category), Unresolved(COLOURS, asked.colours),
               Unresolved(MATERIALS, asked.materials), Unresolved(STYLES, asked.styles),
               Unresolved(FEELS, asked.feels), Unresolved(ROOM_TYPES, asked.room),
               Unresolved(COLOURS, asked.preferred_colours),
               Unresolved(MATERIALS, asked.preferred_materials)}]

---------------------------------------------------------------------------
(* From the model's draft                                                   *)

(* What the model answered must have the shape it was asked for.            *)
Surfaces(labels) == Cardinality(labels) <= MAX_TERMS
ValidRequirementDraft(draft) ==
    /\ \A n \in {"colours", "materials", "preferred_colours", "preferred_materials", "styles", "feels"} :
          Surfaces(draft[n])
    /\ \A n \in {"category", "room"} : Cardinality(draft[n]) <= 1

(* A bad preference is dropped, a bad constraint refuses the whole draft.   *)
SoftValue(value, high) == value \cap (1 .. high)
UsablePreferences(draft) ==
    [draft EXCEPT !.near_width  = SoftValue(@, MAX_DIMENSION_CM),
                  !.near_height = SoftValue(@, MAX_DIMENSION_CM),
                  !.near_depth  = SoftValue(@, MAX_DIMENSION_CM),
                  !.near_price  = SoftValue(@, MAX_PRICE)]
SpecificationFromDraft_Lenient(draft, query, limit) ==
    LET kept  == [draft EXCEPT !.height = IF ValidRange(@, 1, MAX_DIMENSION_CM) THEN @ ELSE {}]
        build == BuildSpecification(UsablePreferences(kept), query, limit)
    IN  [build EXCEPT !.specification = IF ValidSpecification(@) THEN {@} ELSE {}]
SpecificationFromDraft(draft, query, limit) ==
    LET build == BuildSpecification(UsablePreferences(draft), query, limit)
    IN  [build EXCEPT !.specification =
            IF ValidRequirementDraft(draft) /\ ValidSpecification(@) THEN {@} ELSE {}]

MAX_TEXT_LENGTH == 500
MAX_HISTORY == 4
ValidateQuery(message) == message.size \in 1 .. MAX_TEXT_LENGTH

(* One turn of a conversation: all messages are read, and the words scored  *)
(* are the latest message's and as many earlier ones' as fit, newest first. *)
(* A word said twice is there twice.                                        *)
Conversation(latest, history) ==
    LET messages == Append(history, latest)
        size(k)  == SumOf([i \in k .. Len(messages) |-> messages[i].size + 1]) - 1
        first    == Min({k \in DOMAIN messages : size(k) <= MAX_TEXT_LENGTH})
    IN  IF Len(history) > MAX_HISTORY \/ \E i \in DOMAIN messages : ~ ValidateQuery(messages[i])
        THEN {}
        ELSE {[prompt |-> messages,
               query  |-> Spread([i \in first .. Len(messages) |-> messages[i].words])]}

---------------------------------------------------------------------------
(* Hard filters                                                             *)

InStock(product) == {c \in product.colours : c.stock > 0}
ColourSlugs(colours) == {c.slug : c \in colours} \ {Unmapped}

(* A missing value fails a stated range.                                    *)
Within(values, range) ==
    \A r \in range : \E v \in values : /\ \A a \in r.minimum : a <= v
                                       /\ \A b \in r.maximum : v <= b

(* Any of the colours, all of the materials, everything else exactly.       *)
ConstraintChecks(product, hard) ==
    LET considered == IF hard.in_stock_only THEN InStock(product) ELSE product.colours
    IN  [category  |-> hard.category \subseteq {product.category},
         colours   |-> hard.colours = {} \/ hard.colours \cap ColourSlugs(considered) # {},
         materials |-> hard.materials \subseteq product.materials,
         price     |-> Within({product.price}, hard.price),
         width     |-> Within(product.width, hard.width),
         height    |-> Within(product.height, hard.height),
         depth     |-> Within(product.depth, hard.depth),
         in_stock  |-> hard.in_stock_only => InStock(product) # {}]
CheckNames_NoMaterials == (DOMAIN NoHard \ {"in_stock_only", "materials"}) \cup {"in_stock"}
CheckNames == (DOMAIN NoHard \ {"in_stock_only"}) \cup {"in_stock"}
Missed(product, hard) ==
    LET checks == ConstraintChecks(product, hard) IN {n \in DOMAIN checks : ~ checks[n]}
Matches(product, hard) == Missed(product, hard) = {}

---------------------------------------------------------------------------
(* The taste profile                                                        *)

MIN_PURCHASES == 2
MAX_SLUGS == 3
NoProfile == [categories |-> {}, colours |-> {}, materials |-> {}, price |-> {}, purchases |-> 0]

(* Any choice of the most common slugs: the code breaks ties by first seen. *)
Tops(products, slugsOf(_)) ==
    LET count(s) == Cardinality({i \in DOMAIN products : s \in slugsOf(products[i])})
        all      == UNION {slugsOf(products[i]) : i \in DOMAIN products}
    IN  {top \in SUBSET all : /\ Cardinality(top) = MinOf(Cardinality(all), MAX_SLUGS)
                              /\ \A s \in top, u \in all \ top : count(s) >= count(u)}

(* The median price paid, rounded down to the model's unit.                 *)
Median(prices) ==
    LET ordered == Sorted(prices, <)
        middle  == Len(ordered) \div 2
    IN  IF ordered = <<>> THEN {}
        ELSE IF Len(ordered) % 2 = 1 THEN {ordered[middle + 1]}
        ELSE {(ordered[middle] + ordered[middle + 1]) \div 2}

BuildProfiles(products, paid) ==
    LET usable == Passing(paid, LAMBDA p : p > 0)
    IN  {[categories |-> c, colours |-> o, materials |-> m, price |-> Median(usable),
          purchases |-> IF Len(products) > Len(usable) THEN Len(products) ELSE Len(usable)] :
            c \in Tops(products, LAMBDA p : {p.category} \ {Unmapped}),
            o \in Tops(products, LAMBDA p : ColourSlugs(p.colours)),
            m \in Tops(products, LAMBDA p : p.materials)}
IsUseful(profile) ==
    /\ profile.purchases >= MIN_PURCHASES
    /\ UNION {profile.categories, profile.colours, profile.materials} # {} \/ profile.price # {}

---------------------------------------------------------------------------
(* The score                                                                *)

(* In quarters: the code has 2, 2, 1.5, 1.25, 1, 1, 1, 1, 1.5, 1 and 0.5.   *)
WEIGHTS == [colours |-> 8, materials |-> 8, styles |-> 6, feels |-> 5, room |-> 4,
            width |-> 4, height |-> 4, depth |-> 4, price |-> 6, query |-> 4, taste |-> 2]

Strength_NoCeiling(product, kind, slug) ==
    LET stated  == {a \in product.attributes :
                        a.kind = kind /\ Lookup(TAG_VOCABULARIES[kind], a.label) = slug}
        guesses == {t.confidence * 100 : t \in {u \in product.tags : u.kind = kind /\ u.slug = slug}}
    IN  IF stated # {} THEN One ELSE Max(guesses \cup {0})
(* What the seller confirmed counts in full, a guess its confidence, capped.*)
Strength(product, kind, slug) ==
    LET stated  == {a \in product.attributes :
                        a.kind = kind /\ Lookup(TAG_VOCABULARIES[kind], a.label) = slug}
        guesses == {MinOf(t.confidence * 100, InferredCeiling) :
                        t \in {u \in product.tags : u.kind = kind /\ u.slug = slug}}
    IN  IF stated # {} THEN One ELSE Max(guesses \cup {0})
PreferenceValue(product, kind, wanted) ==
    RoundHalfUp(SumOf([s \in wanted |-> Strength(product, kind, s)]), Cardinality(wanted))

Closeness_Unclamped(actual, target) ==
    RoundHalfUp((target - Distance(actual, target)) * One, target)
(* Ten thousand at the target, falling linearly to 0 at 100 percent away.   *)
Closeness(actual, target) ==
    RoundHalfUp((target - MinOf(target, Distance(actual, target))) * One, target)
Fraction(hits, total) == IF total = 0 THEN 0 ELSE RoundHalfUp(hits * One, total)

QueryStopwords == {"in", "the", "for", "budget"}
(* The places of the words that count, and of those the product's text has. *)
TokenPlaces(words) == {p \in DOMAIN words : words[p] \notin QueryStopwords}
MatchedPlaces(product, words) == {p \in TokenPlaces(words) : words[p] \in product.words}
QueryOverlap(product, words) ==
    Fraction(Cardinality(MatchedPlaces(product, words)), Cardinality(TokenPlaces(words)))
MatchedQueryWords(product, query) ==
    UNION {{words[p] : p \in MatchedPlaces(product, words)} : words \in query}

(* Only the dimensions the profile has an opinion about count.              *)
TasteSignals(product, profile) ==
    [colours   |-> IF profile.colours = {} THEN {}
                   ELSE {IF profile.colours \cap ColourSlugs(InStock(product)) # {} THEN One ELSE 0},
     materials |-> IF profile.materials = {} THEN {}
                   ELSE {IF profile.materials \cap product.materials # {} THEN One ELSE 0},
     price     |-> {Closeness(product.price, t) : t \in profile.price \ {0}}]
TasteValue(product, profile) ==
    LET signals == TasteSignals(product, profile)
        given   == {n \in DOMAIN signals : signals[n] # {}}
    IN  IF given = {} THEN {}
        ELSE {RoundHalfUp(SumOf([n \in given |-> CHOOSE v \in signals[n] : TRUE]), Cardinality(given))}

(* The parts that apply: preferences the caller expressed, of which an      *)
(* unrecorded measurement is left out rather than counted as zero.          *)
ScoreParts(product, soft, query, profile) ==
    LET close(dimension) == IF soft[dimension] = {} THEN {}
                            ELSE {Closeness(v, t) : v \in product[dimension], t \in soft[dimension]}
        preferred(kind, wanted) == IF wanted = {} THEN {} ELSE {PreferenceValue(product, kind, wanted)}
    IN  [colours   |-> IF soft.colours = {} THEN {}
                       ELSE {IF soft.colours \cap ColourSlugs(InStock(product)) # {} THEN One ELSE 0},
         materials |-> IF soft.materials = {} THEN {}
                       ELSE {Fraction(Cardinality(soft.materials \cap product.materials),
                                      Cardinality(soft.materials))},
         styles    |-> preferred("style", soft.styles),
         feels     |-> preferred("feel", soft.feels),
         room      |-> preferred("room_type", soft.room),
         width     |-> close("width"), height |-> close("height"), depth |-> close("depth"),
         price     |-> {Closeness(product.price, t) : t \in soft.price},
         query     |-> {QueryOverlap(product, words) : words \in query},
         taste     |-> IF IsUseful(profile) THEN TasteValue(product, profile) ELSE {}]

(* The weighted mean of the parts, or 0 when no preference applied.         *)
Combine(parts) ==
    LET given  == {n \in DOMAIN parts : parts[n] # {}}
        weight == SumOf([n \in given |-> WEIGHTS[n]])
    IN  IF given = {} THEN 0
        ELSE RoundHalfUp(SumOf([n \in given |-> WEIGHTS[n] * CHOOSE v \in parts[n] : TRUE]), weight)

---------------------------------------------------------------------------
(* Results                                                                  *)

MAX_CANDIDATES == 10000
Distinct(products) == \A i, j \in DOMAIN products : products[i].id = products[j].id => i = j

(* search_products refuses duplicates and too many candidates.              *)
Searchable(products) == Len(products) <= MAX_CANDIDATES /\ Distinct(products)

RanksBefore_ScoreOnly(a, b) == a.score > b.score
(* Best score, then cheapest, then lowest id.                               *)
RanksBefore(a, b) ==
    \/ a.score > b.score
    \/ a.score = b.score /\ a.product.price < b.product.price
    \/ a.score = b.score /\ a.product.price = b.product.price /\ a.product.id < b.product.id

SearchProducts(products, spec, profile) ==
    LET scored(p)  == LET parts == ScoreParts(p, spec.soft, spec.query, profile)
                      IN  [product |-> p, parts |-> parts, score |-> Combine(parts)]
        matches(p) == Matches(p, spec.hard)
        ranked     == Sorted([i \in DOMAIN Passing(products, matches) |->
                                  scored(Passing(products, matches)[i])], RanksBefore)
        rejected(n) == Cardinality({i \in DOMAIN products : n \in Missed(products[i], spec.hard)})
    IN  [items           |-> SubSeq(ranked, 1, MinOf(Len(ranked), spec.limit)),
         has_more        |-> Len(ranked) > spec.limit,
         match_count     |-> Len(ranked),
         candidate_count |-> Len(products),
         rejections      |-> [n \in {m \in CheckNames : rejected(m) > 0} |-> rejected(n)]]

---------------------------------------------------------------------------
(* The follow-up question                                                   *)

MAX_OPTIONS == 5
NoQuestion == [field |-> "none", options |-> <<>>]

(* Something a person would say.                                            *)
RoundMoney(value) ==
    LET step == IF value >= 10000 THEN 1000 ELSE IF value >= 1000 THEN 500 ELSE 100
    IN  RoundHalfUp(value, step) * step

(* The most frequent categories on the page, at most MAX_OPTIONS; the code  *)
(* breaks ties by slug, the model does not say how.                         *)
CategoryOptions(page) ==
    LET slugs    == {page[i].category : i \in DOMAIN page} \ {Unmapped}
        count(s) == Cardinality({i \in DOMAIN page : page[i].category = s})
        rank     == SetToSortSeq({[slug |-> s, count |-> count(s)] : s \in slugs},
                                 LAMBDA a, b : a.count > b.count)
    IN  [i \in 1 .. MinOf(Len(rank), MAX_OPTIONS) |-> rank[i].slug]

(* Under, between and over two rounded prices, a third and two thirds up    *)
(* the page; none when the range is narrow or the rounding collapses it.    *)
PriceOptions(page) ==
    LET prices   == SortSeq([i \in DOMAIN page |-> page[i].price], <)
        n        == Len(prices)
        low      == RoundMoney(prices[n \div 3 + 1])
        high     == RoundMoney(prices[(2 * n) \div 3 + 1])
    IN  IF \/ n < 3
           \/ prices[1] <= 0 \/ 2 * prices[n] < 3 * prices[1]
           \/ ~ (prices[1] < low /\ low < high /\ high < prices[n])
        THEN <<>>
        ELSE << [minimum |-> {}, maximum |-> {low}], [minimum |-> {low}, maximum |-> {high}],
                [minimum |-> {high}, maximum |-> {}] >>

FollowUp(spec, page, match_count, unclear) ==
    IF spec.hard.category = {}
    THEN IF page = <<>> \/ (~ unclear /\ match_count < MIN_BROAD_MATCHES)
            \/ Len(CategoryOptions(page)) < 2
         THEN NoQuestion
         ELSE [field |-> "category", options |-> CategoryOptions(page)]
    ELSE IF spec.hard.price = {} /\ match_count >= MIN_BROAD_MATCHES /\ PriceOptions(page) # <<>>
         THEN [field |-> "price", options |-> PriceOptions(page)]
         ELSE NoQuestion
=============================================================================
