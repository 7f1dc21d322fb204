---------------------------- MODULE RoomPlanner ----------------------------
(***************************************************************************)
(* A room of real products from one request (app/rooms): the draft that    *)
(* the model returned becomes slots, each slot's candidates are scored and *)
(* shortlisted, every combination of the shortlists is costed, and the     *)
(* plan is reported with what it costs against each budget and with better *)
(* options for a little more.                                              *)
(*                                                                         *)
(* BestPerSlot and CheapestPerSlot are 4 and 3 in the code.                *)
(***************************************************************************)
EXTENDS Recommendations

CONSTANTS BestPerSlot, CheapestPerSlot

ASSUME PlannerAssumption == BestPerSlot \in Nat /\ CheapestPerSlot \in Nat \ {0}

UpgradesPerItem == 2
MAX_QUANTITY == 10

---------------------------------------------------------------------------
(* From the draft to slots                                                  *)

MAX_ITEMS == 6
ValidRoomDraft(draft) ==
    /\ Len(draft.items) <= MAX_ITEMS
    /\ \A i \in DOMAIN draft.items : /\ draft.items[i].quantity \in 1 .. MAX_QUANTITY
                                      /\ Len(draft.items[i].colours) <= MAX_TERMS
                                      /\ Len(draft.items[i].materials) <= MAX_TERMS
    /\ Surfaces(draft.styles) /\ Len(draft.colours) <= MAX_TERMS /\ Cardinality(draft.room) <= 1

(* A stated budget must be usable, or the whole draft is refused.           *)
UsableBudget(budget) == budget \subseteq 1 .. MAX_PRICE

(* The budget of merged mentions is known only when every one had one.      *)
MergedBudget_First(mentions) == LET first == Min(DOMAIN mentions) IN mentions[first].budget
MergedBudget(mentions) ==
    IF \A i \in DOMAIN mentions : mentions[i].budget # {}
    THEN {SumOf([i \in DOMAIN mentions |-> CHOOSE b \in mentions[i].budget : TRUE])} ELSE {}

(* The slugs that several lists of labels name, one list after the other:   *)
(* the first MAX_TERMS of them.                                             *)
FirstTerms(vocabulary, lists) ==
    LET labels  == Spread(lists)
        slug(p) == Lookup(vocabulary, labels[p])
        named   == {p \in DOMAIN labels : slug(p) # Unmapped}
        earlier(p) == {slug(q) : q \in {r \in named : r[1] < p[1] \/ (r[1] = p[1] /\ r[2] < p[2])}}
    IN  {slug(p) : p \in {q \in named : Cardinality(earlier(q) \ {slug(q)}) < MAX_TERMS}}

(* Mentions of one kind of furniture are one slot; the colours of the room  *)
(* come after those of its mentions.                                        *)
Mentions(slug, items) == {i \in DOMAIN items : Resolved(CATEGORIES, items[i].category) = {slug}}
SlotOf(slug, items, draft) ==
    LET same    == Mentions(slug, items)
        colours == [i \in same \cup {Len(items) + 1} |->
                       IF i \in same THEN items[i].colours ELSE draft.colours]
    IN  [category |-> slug,
         quantity |-> SumOf([i \in same |-> items[i].quantity]),
         hard |-> [NoHard EXCEPT !.category = {slug},
                     !.materials = FirstTerms(MATERIALS, [i \in same |-> items[i].materials])],
         soft |-> [NoSoft EXCEPT !.styles = Resolved(STYLES, draft.styles),
                     !.room = Resolved(ROOM_TYPES, draft.room),
                     !.colours = FirstTerms(COLOURS, colours)],
         budget |-> MergedBudget([i \in same |-> items[i]])]

CountWords == {"one", "two", "four", "pair"}
(* The words without those that say how many, unless nothing else was said. *)
ScoringQuery(words) ==
    LET kept == {p \in DOMAIN words : words[p] \notin CountWords}
    IN  IF kept = {} THEN {words} ELSE {Restrict(words, kept)}

(* The slots in the order in which their kinds are first mentioned.         *)
MentionOrder(items) ==
    LET slug(i) == Resolved(CATEGORIES, items[i].category)
        first   == {i \in DOMAIN items : slug(i) # {} /\ \A j \in 1 .. i - 1 : slug(j) # slug(i)}
        order   == InOrder(first, <)
    IN  [n \in DOMAIN order |-> CHOOSE s \in slug(order[n]) : TRUE]

SpecificationFromRoomDraft(draft, words) ==
    LET items == draft.items
        slots == [n \in DOMAIN MentionOrder(items) |-> SlotOf(MentionOrder(items)[n], items, draft)]
    IN  IF \/ ~ ValidRoomDraft(draft)
           \/ ~ UsableBudget(draft.budget)
           \/ \E i \in DOMAIN items : /\ Resolved(CATEGORIES, items[i].category) # {}
                                      /\ ~ UsableBudget(items[i].budget)
           \/ \E n \in DOMAIN slots : slots[n].quantity > MAX_QUANTITY
        THEN {}
        ELSE {[slots |-> slots, budget |-> draft.budget, query |-> ScoringQuery(words)]}

---------------------------------------------------------------------------
(* Candidates of a slot                                                     *)

LineTotal(candidate, slot) == candidate.product.price * slot.quantity

(* A single colour with enough stock for the whole quantity: a preferred    *)
(* one first, then the one with the most.                                   *)
ColourFor_AnyStock(product, slot) ==
    {c \in product.colours : \A d \in product.colours : d.stock <= c.stock}
ColourFor(product, slot) ==
    LET enough  == {c \in product.colours : c.stock >= slot.quantity}
        wanted  == {c \in enough : c.slug \in slot.soft.colours}
        from    == IF wanted # {} THEN wanted ELSE enough
    IN  {c \in from : \A d \in from : d.stock <= c.stock}

SlotOptions(products, slot, query) ==
    LET inCategory == {p \in Range(products) : p.category = slot.category}
        matching   == {p \in inCategory : Matches(p, slot.hard)}
        found      == {[product |-> p, colour |-> CHOOSE c \in ColourFor(p, slot) : TRUE,
                        score |-> Combine(ScoreParts(p, slot.soft, query, NoProfile))] :
                          p \in {q \in matching : ColourFor(q, slot) # {}}}
    IN  [options |-> found,
         reason  |-> CASE found # {} -> "none"
                       [] inCategory = {} -> "none_in_category"
                       [] matching = {} -> "material_unavailable"
                       [] OTHER -> "not_enough_stock"]

FitsLine(candidate, slot) == \A b \in slot.budget : LineTotal(candidate, slot) <= b
BetterScore(a, b) ==
    \/ a.score > b.score
    \/ a.score = b.score /\ a.product.price < b.product.price
    \/ a.score = b.score /\ a.product.price = b.product.price /\ a.product.id < b.product.id

(* Ranked by score among those within the line's budget, before the others. *)
BestFirst(a, b, slot) ==
    IF FitsLine(a, slot) = FitsLine(b, slot) THEN BetterScore(a, b) ELSE FitsLine(a, slot)
CheapestFirst(a, b) ==
    \/ a.product.price < b.product.price
    \/ a.product.price = b.product.price /\ BetterScore(a, b)

Shortlist_BestOnly(options, slot) ==
    {c \in options : Cardinality({d \in options : BetterScore(d, c)}) < BestPerSlot + CheapestPerSlot}
(* The best few and the cheapest few of the candidates.                     *)
Shortlist(options, slot) ==
    LET rank(c, before(_, _)) == Cardinality({d \in options : before(d, c)})
    IN  {c \in options : \/ rank(c, LAMBDA a, b : BestFirst(a, b, slot)) < BestPerSlot
                         \/ rank(c, CheapestFirst) < CheapestPerSlot}

---------------------------------------------------------------------------
(* Rooms                                                                    *)

Total(room, slots) == SumOf([i \in DOMAIN slots |-> LineTotal(room[i], slots[i])])
RoomScore(room) == SumOf([i \in DOMAIN room |-> room[i].score])
Over(amount, budget) == SumOf([b \in budget |-> IF amount > b THEN amount - b ELSE 0])
Overage(room, slots, budget) ==
    SumOf([i \in DOMAIN slots |-> Over(LineTotal(room[i], slots[i]), slots[i].budget)])
    + Over(Total(room, slots), budget)

(* The smaller of two sequences of numbers of equal length.                 *)
LexLess(a, b) == \E i \in DOMAIN a : a[i] < b[i] /\ \A j \in 1 .. i - 1 : a[j] = b[j]
Ids(room) == [i \in DOMAIN room |-> room[i].product.id]

(* Within every budget: best score, then cheaper. Otherwise: least over,    *)
(* then cheaper, then best score. Ids last.                                 *)
RoomKey_ScoreFirst(room, slots, budget) ==
    LET overage == Overage(room, slots, budget)
    IN  IF overage = 0 THEN <<0, 0 - RoomScore(room), Total(room, slots), 0>>
                       ELSE <<1, 0 - RoomScore(room), overage, Total(room, slots)>>
RoomKey(room, slots, budget) ==
    LET overage == Overage(room, slots, budget)
    IN  IF overage = 0 THEN <<0, 0 - RoomScore(room), Total(room, slots), 0>>
                       ELSE <<1, overage, Total(room, slots), 0 - RoomScore(room)>>
Preferred(a, b, slots, budget) ==
    LexLess(RoomKey(a, slots, budget) \o Ids(a), RoomKey(b, slots, budget) \o Ids(b))

(* Every way to fill the slots, each from its own set of candidates.        *)
Rooms(lists) == {r \in [DOMAIN lists -> UNION {lists[i] : i \in DOMAIN lists}] :
                    \A i \in DOMAIN lists : r[i] \in lists[i]}

---------------------------------------------------------------------------
(* Upgrades                                                                 *)

(* At most 115 percent of each budget that applies.                         *)
LittleMore_Fifth(amount, budget) == \A b \in budget : 100 * amount <= 120 * b
LittleMore(amount, budget) == \A b \in budget : 100 * amount <= 115 * b

Upgrades(room, i, options, slots, budget) ==
    LET slot == slots[i]  current == room[i]
        line(c) == LineTotal(c, slot)
        newTotal(c) == Total(room, slots) - line(current) + line(c)
        worth == {c \in options : /\ c.product.id # current.product.id
                                  /\ c.score > current.score
                                  /\ line(c) > line(current)
                                  /\ LittleMore(line(c), slot.budget)
                                  /\ LittleMore(newTotal(c), budget)}
        ordered == InOrder(worth, BetterScore)
    IN  IF slot.budget = {} /\ budget = {} THEN <<>>
        ELSE [n \in 1 .. MinOf(Len(ordered), UpgradesPerItem) |->
                [candidate |-> ordered[n], extra |-> line(ordered[n]) - line(current),
                 room_total |-> newTotal(ordered[n])]]

(* What an upgrade matches that the current pick does not; the colours of   *)
(* which enough are in stock.                                               *)
UpgradeReasons(current, better, slot, query) ==
    LET before == ScoreParts(current.product, slot.soft, query, NoProfile)
        after  == ScoreParts(better.product, slot.soft, query, NoProfile)
        value(part) == SumOf([v \in part |-> v])
        higher(n) == value(after[n]) > value(before[n])
        words  == MatchedQueryWords(better.product, query) \ MatchedQueryWords(current.product, query)
        enough == {c \in better.product.colours : c.stock >= slot.quantity}
    IN  {r \in {"query", "colours", "styles", "size"} :
            CASE r = "query"   -> higher("query") /\ words # {}
              [] r = "colours" -> higher("colours") /\ slot.soft.colours \cap ColourSlugs(enough) # {}
              [] r = "styles"  -> higher("styles")
              [] r = "size"    -> \E d \in Dimensions : higher(d)}

---------------------------------------------------------------------------
(* The plan and its report                                                  *)

BestRoom(rooms, slots, budget) ==
    CHOOSE r \in rooms : \A q \in rooms \ {r} : Preferred(r, q, slots, budget)

(* Every slot that can be filled is; found holds the options of each slot.  *)
FillSlots(found, spec) ==
    LET slots    == Passing(spec.slots, LAMBDA s : found[s].reason = "none")
        unfilled == Passing(spec.slots, LAMBDA s : found[s].reason # "none")
        rooms    == Rooms([i \in DOMAIN slots |-> Shortlist(found[slots[i]].options, slots[i])])
    IN  [slots |-> slots, options |-> [i \in DOMAIN slots |-> found[slots[i]].options],
         budget |-> spec.budget,
         unfilled |-> [i \in DOMAIN unfilled |-> [slot |-> unfilled[i],
                                                  reason |-> found[unfilled[i]].reason]],
         items |-> IF slots = <<>> THEN <<>> ELSE BestRoom(rooms, slots, spec.budget),
         upgrades |-> <<>>]

WithUpgrades(plan) ==
    [plan EXCEPT !.upgrades = [i \in DOMAIN plan.slots |->
        Upgrades(plan.items, i, plan.options[i], plan.slots, plan.budget)]]

PlanRoom(products, spec) ==
    WithUpgrades(FillSlots([s \in Range(spec.slots) |-> SlotOptions(products, s, spec.query)], spec))

PlanTotal(plan) == Total(plan.items, plan.slots)
WithinBudget(plan) == \A b \in plan.budget : PlanTotal(plan) <= b
EveryLineWithinBudget(plan) == \A i \in DOMAIN plan.slots : FitsLine(plan.items[i], plan.slots[i])

BuildRoomPlanResponse(plan, spec) ==
    [total |-> PlanTotal(plan),
     within_budget |-> WithinBudget(plan), every_line_within_budget |-> EveryLineWithinBudget(plan),
     remaining |-> {b - PlanTotal(plan) : b \in IF WithinBudget(plan) THEN plan.budget ELSE {}},
     over_budget_by |-> {PlanTotal(plan) - b : b \in IF WithinBudget(plan) THEN {} ELSE plan.budget},
     budget_question |-> /\ spec.slots # <<>> /\ plan.budget = {}
                         /\ \A i \in DOMAIN spec.slots : spec.slots[i].budget = {},
     items |-> [i \in DOMAIN plan.slots |->
                  [product |-> plan.items[i].product.id, colour |-> plan.items[i].colour.slug,
                   line_total |-> LineTotal(plan.items[i], plan.slots[i]),
                   over_budget_by |-> Over(LineTotal(plan.items[i], plan.slots[i]), plan.slots[i].budget),
                   reasons |-> MatchReasons(plan.items[i].product, plan.slots[i].hard),
                   upgrades |-> [n \in DOMAIN plan.upgrades[i] |->
                     [extra |-> plan.upgrades[i][n].extra, room_total |-> plan.upgrades[i][n].room_total,
                      reasons |-> UpgradeReasons(plan.items[i], plan.upgrades[i][n].candidate,
                                                 plan.slots[i], spec.query)]]]],
     image_request |-> [i \in DOMAIN plan.slots |->
                          [product |-> plan.items[i].product.id, quantity |-> plan.slots[i].quantity,
                           colour |-> plan.items[i].colour.slug]]]
=============================================================================
