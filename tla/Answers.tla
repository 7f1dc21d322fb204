------------------------------- MODULE Answers -------------------------------
(***************************************************************************)
(* The read endpoints, each from its request to its answer: search, room   *)
(* plan, comparison, similar products, the catalogue page and the two      *)
(* intake forms. A shop is what the database holds for the caller; a       *)
(* request carries the draft the model returned for its sentence, of which *)
(* nothing is assumed. Limits, caches and failing calls are in ModelCalls. *)
(***************************************************************************)
EXTENDS RoomPlanner, Intake

CONSTANTS Shops,            \* [rows, tags, bought, paid, services, offers, reviews]
          Requests,         \* of any of the kinds below
          CANDIDATE_LIMIT,  \* rows one search examines: 200 in the code
          MAX_TAGS          \* tag rows one search reads: 600 in the code

(* What a row that was parsed carries; ids are the tables' primary keys, an *)
(* optional column holds at most one value, and a review has one target.    *)
RowColumns == {"id", "lifecycle_state", "approval_state", "category_active", "category", "colours",
               "materials", "price", "discount", "width", "height", "depth", "enrichment"}
ASSUME ShopAssumption ==
    \A s \in Shops :
        /\ IsFiniteSet(s.rows)
        /\ \A r \in s.rows : /\ RowColumns \subseteq DOMAIN r /\ UpstreamProduct(r)
                             /\ r.id \in Int /\ r.price \in Int /\ r.discount \subseteq Int
                             /\ \A d \in Dimensions : \A v, w \in r[d] : v \in Int /\ v = w
        /\ \A r, q \in s.rows : r.id = q.id => r = q
        /\ s.tags \in Seq(Range(s.tags)) /\ s.paid \in Seq(Int)
        /\ IsFiniteSet(s.reviews)
        /\ \A r \in s.reviews : /\ r.id \in Int /\ r.at \in Int
                                 /\ IsFiniteSet(r.targets) /\ Cardinality(r.targets) = 1
        /\ \A r, q \in s.reviews : r.id = q.id => r = q

(* What a request lists, it lists one after the other; a page starts and    *)
(* ends somewhere.                                                          *)
ASSUME RequestAssumption ==
    \A q \in Requests :
        /\ q.kind \in {"room", "search"} =>
              /\ q.history \in Seq(Range(q.history))
              /\ \A m \in Range(q.history) \cup {q.message} : m.words \in Seq(Range(m.words))
        /\ q.kind = "search" =>
              {"price", "width", "height", "depth", "in_stock_only", "near_width", "near_height",
               "near_depth", "near_price"} \subseteq DOMAIN q.draft
        /\ q.kind = "room" =>
              /\ {"items", "styles", "colours", "room", "budget"} \subseteq DOMAIN q.draft
              /\ q.draft.items \in Seq(Range(q.draft.items))
              /\ q.draft.colours \in Seq(Range(q.draft.colours))
              /\ \A item \in Range(q.draft.items) :
                    /\ \A a, b \in item.category : a = b
                    /\ item.colours \in Seq(Range(item.colours))
                    /\ item.materials \in Seq(Range(item.materials))
        /\ q.kind \in {"page", "reviews"} => q.limit \in Nat \ {0} /\ q.offset \in Nat
        /\ q.kind = "reviews" => IsFiniteSet(q.targets)

ASSUME LimitAssumption == CANDIDATE_LIMIT \in Nat /\ MAX_TAGS \in Nat

VARIABLES shop, request, answer
vars == <<shop, request, answer>>

Unanswered == [status |-> "none"]
Failed(status) == [status |-> status]

Init == /\ shop \in Shops
        /\ request \in Requests
        /\ answer = Unanswered

Reply(kind, replies) == /\ answer = Unanswered
                        /\ request.kind = kind
                        /\ answer' \in replies
                        /\ UNCHANGED <<shop, request>>

(* The caller's sentence with its history, unless it says nothing.          *)
Turns == Conversation(request.message, request.history)

(* The eligible rows among the first CANDIDATE_LIMIT the caller may see.    *)
Products == ListProducts(shop.rows, CANDIDATE_LIMIT, 0)
CandidateRows ==
    Passing(SubSeq(Products, 1, MinOf(Len(Products), CANDIDATE_LIMIT)), IsRecommendationEligible)
Candidates == [i \in DOMAIN CandidateRows |-> NormalizeProduct(CandidateRows[i])]
Truncated == Len(Products) > CANDIDATE_LIMIT

(* The profile of what the caller bought, among what is still for sale;     *)
(* nothing is looked up for fewer than two distinct products.               *)
TasteProfiles ==
    LET bought == ListByIds(shop.rows, Range(shop.bought))
    IN  IF Cardinality(Range(shop.bought)) < MIN_PURCHASES THEN {NoProfile}
        ELSE BuildProfiles([i \in DOMAIN bought |-> NormalizeProduct(bought[i])], shop.paid)

---------------------------------------------------------------------------
(* POST /v1/search                                                          *)

SearchReply(products, results, spec, taste, unresolved) ==
    LET nothing == results.match_count = 0
    IN  [status |-> "ok", spec |-> spec, taste |-> taste, products |-> products,
         unresolved |-> unresolved, truncated |-> Truncated,
         response |-> BuildSearchResponse(CandidateRows, results, spec, request.draft.unclear,
             IF nothing THEN NearestAlternatives(products, spec.hard) ELSE <<>>,
             IF nothing THEN PublishedOfferings(shop.offers) ELSE <<>>)]

SearchReplies(products, spec, unresolved) ==
    IF ~ Searchable(products) THEN {Failed("catalogue_upstream_error")}
    ELSE {SearchReply(products, SearchProducts(products, spec, taste), spec, taste, unresolved) :
              taste \in TasteProfiles}

Search ==
    LET builds == {SpecificationFromDraft(request.draft, {t.query}, request.limit) : t \in Turns}
        replies(spec, unresolved) ==
            SearchReplies(AttachInferredTags(Candidates, spec.soft, shop.tags, MAX_TAGS), spec, unresolved)
    IN  Reply("search",
            IF Turns = {} THEN {Failed("invalid_query")}
            ELSE UNION {IF b.specification = {} THEN {Failed("search_upstream_error")}
                        ELSE UNION {replies(s, b.unresolved) : s \in b.specification} : b \in builds})

---------------------------------------------------------------------------
(* POST /v1/rooms/plan                                                      *)

RoomReply(plan, spec) ==
    [status |-> "ok", plan |-> plan, spec |-> spec, response |-> BuildRoomPlanResponse(plan, spec)]

Plan ==
    LET specs == UNION {SpecificationFromRoomDraft(request.draft, t.query) : t \in Turns}
    IN  Reply("room", IF Turns = {} THEN {Failed("invalid_query")}
                      ELSE IF specs = {} THEN {Failed("search_upstream_error")}
                      ELSE {RoomReply(PlanRoom(Candidates, s), s) : s \in specs})

---------------------------------------------------------------------------
(* The catalogue, comparison and similar products                           *)

OneProduct(id) == {r \in GetProduct(shop.rows, id) : BuildProductResponse(r) # {}}

CompareProducts ==
    LET shown == [i \in DOMAIN request.ids |-> {NormalizeProduct(r) : r \in OneProduct(request.ids[i])}]
    IN  Reply("compare",
            IF Len(request.ids) \notin MIN_COMPARED .. MAX_COMPARED \/ ~ IsInjective(request.ids)
            THEN {Failed("invalid_request")}
            ELSE IF \E i \in DOMAIN shown : shown[i] = {} THEN {Failed("product_not_found")}
            ELSE {Joined([status |-> "ok"],
                         BuildComparison([i \in DOMAIN shown |-> CHOOSE p \in shown[i] : TRUE]))})

Similar ==
    LET found(target) == FindSimilar(target, Candidates, request.limit)
        item(target, p) == [product |-> p.id, difference |-> p.price - target.price,
                            reasons |-> SimilarReasons(target, p)]
        reply(target) == [status |-> "ok", target |-> target,
                          items |-> [i \in DOMAIN found(target) |-> item(target, found(target)[i])],
                          candidate_count |-> Len(Candidates), truncated |-> Truncated]
    IN  Reply("similar", IF OneProduct(request.id) = {} THEN {Failed("product_not_found")}
                         ELSE {reply(NormalizeProduct(r)) : r \in OneProduct(request.id)})

ListPage ==
    Reply("page", {Joined([status |-> "ok"],
        BuildProductListResponse(ListProducts(shop.rows, request.limit, request.offset), request.limit))})

View ==
    LET shown == UNION {BuildProductResponse(r) : r \in GetProduct(shop.rows, request.id)}
    IN  Reply("view", IF shown = {} THEN {Failed("product_not_found")}
                      ELSE {[status |-> "ok", product |-> p] : p \in shown})

(* Reviews, newest first, of exactly one target; the request asks for rows  *)
(* about it, and a row that is about anything else as well is dropped.      *)
ListPublicReviews ==
    LET newest == InOrder({r \in shop.reviews : request.targets \subseteq r.targets},
                          LAMBDA r, q : r.at > q.at \/ (r.at = q.at /\ r.id < q.id))
        last   == MinOf(Len(newest), request.offset + request.limit + 1)
        kept   == Passing(SubSeq(newest, request.offset + 1, last),
                            LAMBDA r : r.targets = request.targets)
    IN  Reply("reviews", IF Cardinality(request.targets) # 1 THEN {Failed("invalid_request")}
                         ELSE {[status |-> "ok", items |-> SubSeq(kept, 1, MinOf(Len(kept), request.limit)),
                                has_more |-> Len(kept) > request.limit]})

---------------------------------------------------------------------------
(* Intake                                                                   *)

ClassifyService ==
    LET services == ParseServiceRows(shop.services)
    IN  Reply("service", IF services = <<>> THEN {Failed("service_directory_unavailable")}
                         ELSE IF Turns = {} THEN {Failed("invalid_query")}
                         ELSE IF ~ ValidTriageDraft(request.draft) THEN {Failed("search_upstream_error")}
                         ELSE {[status |-> "ok",
                                services |-> ServicesFromDraft(request.draft.choices, services)]})

ReadBrief == Reply("brief", IF Turns = {} THEN {Failed("invalid_query")}
                            ELSE IF ~ ValidBriefDraft(request.draft) THEN {Failed("search_upstream_error")}
                            ELSE {Joined([status |-> "ok"], BriefFromDraft(request.draft))})

Next == \/ Search \/ Plan \/ CompareProducts \/ Similar
        \/ ListPage \/ View \/ ListPublicReviews \/ ClassifyService \/ ReadBrief
Spec == Init /\ [][Next]_vars

---------------------------------------------------------------------------
(* Properties                                                               *)

Answered(kind) == request.kind = kind /\ answer.status = "ok"
Statuses == {"none", "ok", "invalid_request", "invalid_query", "search_upstream_error",
             "catalogue_upstream_error", "product_not_found", "service_directory_unavailable"}
TypeOK == /\ request \in Requests
          /\ \A r \in shop.rows : UpstreamProduct(r)
          /\ answer.status \in Statuses
          /\ request.kind = "search" /\ answer.status = "ok" =>
                /\ Len(answer.response.items) <= answer.response.match_count
                /\ \A i \in DOMAIN answer.response.items : answer.response.items[i].score \in 0 .. One

Items == answer.response.items
PartsOf(product, taste) == ScoreParts(product, answer.spec.soft, answer.spec.query, taste)

(* A product whose seller confirmed everything that was wished for comes    *)
(* before one for which some of it is only guessed, when the two are alike  *)
(* in the rest of the score: however sure the guess, and whatever the       *)
(* prices (search/ranking.py, INFERRED_CEILING).                            *)
ConfirmedBeatsGuessed ==
    LET wished(kind) == CASE kind = "style"     -> answer.spec.soft.styles
                          [] kind = "room_type" -> answer.spec.soft.room
                          [] kind = "feel"      -> answer.spec.soft.feels
        stated(p, kind, s) == Strength([p EXCEPT !.tags = {}], kind, s) = One
        allStated(p) == \A k \in TagKinds : \A s \in wished(k) : stated(p, k, s)
        alike(p, q)  == \A n \in DOMAIN WEIGHTS \ {"styles", "feels", "room"} :
                            PartsOf(p, answer.taste)[n] = PartsOf(q, answer.taste)[n]
    IN  Answered("search") => \A i, j \in DOMAIN Items :
            /\ allStated(Items[i].product) /\ ~ allStated(Items[j].product)
            /\ alike(Items[i].product, Items[j].product)
            => i < j

(* Neither the page nor the alternatives to an empty one depend on the      *)
(* order in which the database returned the candidates: "two identical      *)
(* sentences return the same page" (search/router.py).                      *)
SamePageInAnyOrder ==
    Answered("search") =>
        LET found(products) == <<SearchProducts(products, answer.spec, answer.taste),
                                 NearestAlternatives(products, answer.spec.hard)>>
        IN  \A k \in DOMAIN answer.products :
                LET turned == SubSeq(answer.products, k, Len(answer.products))
                              \o Reverse(SubSeq(answer.products, 1, k - 1))
                IN  found(turned) = found(answer.products)

(* A customer is never shown an empty page with nothing to go on: there is  *)
(* a question, a constraint that excluded something, or no product at all.  *)
EmptyPageExplained ==
    Answered("search") /\ Items = <<>> =>
        \/ answer.response.follow_up # NoQuestion \/ answer.response.clarification
        \/ DOMAIN answer.response.excluded_by # {}
        \/ answer.products = <<>>

(* The reasons an alternative is offered with are the way to it: the same   *)
(* search without the constraints they name finds it.                       *)
ShortfallsAreTheWayBack ==
    Answered("search") => \A i \in DOMAIN answer.response.alternatives :
        LET offered == answer.response.alternatives[i]
            named   == {r.code : r \in offered.missed}
            relaxed == [n \in DOMAIN NoHard |-> IF n \in named THEN NoHard[n] ELSE answer.spec.hard[n]]
        IN  named # {} /\ Matches(offered.product, relaxed)

(* No product on a page breaks what the model's draft states of the price,  *)
(* of a measure or of the stock, and a measure that is limited is recorded, *)
(* whatever the draft: a range that cannot be used refuses the search, and  *)
(* is never dropped (ai/guardrails.py).                                     *)
StatedLimitsHold ==
    LET row(id) == CHOOSE r \in shop.rows : r.id = id
        obeys(value, range) == \A r \in range : /\ \A a \in r.minimum : a <= value
                                                /\ \A b \in r.maximum : value <= b
    IN  Answered("search") => \A i \in DOMAIN Items :
            LET r == row(Items[i].product.id)
            IN  /\ obeys(EffectivePrice(r), request.draft.price)
                /\ \A d \in Dimensions : request.draft[d] # {} =>
                        r[d] # {} /\ \A v \in r[d] : obeys(v, request.draft[d])
                /\ request.draft.in_stock_only => \E c \in r.colours : c.stock > 0

(* Walking the catalogue, or the reviews of a target, by offset shows every *)
(* one of them once: the page holds those with as many before them, and     *)
(* says whether more are to come.                                           *)
PagesTile ==
    LET sold     == {r.id : r \in {q \in shop.rows : IsRecommendationEligible(q)}}
        about    == {r \in shop.reviews : r.targets = request.targets}
        placed   == IF request.kind = "page" THEN {<<id, Cardinality({o \in sold : o < id})>> : id \in sold}
                    ELSE {<<r.id, Cardinality({q \in about : q.at > r.at \/ (q.at = r.at /\ q.id < r.id)})>> :
                             r \in about}
        shown    == {answer.items[i].id : i \in DOMAIN answer.items}
    IN  Answered("page") \/ Answered("reviews") =>
            /\ shown = {p[1] : p \in {q \in placed : /\ request.offset <= q[2]
                                                     /\ q[2] < request.offset + request.limit}}
            /\ answer.has_more = \E p \in placed : p[2] >= request.offset + request.limit

(* A room is reported over budget only when no choice of products meets     *)
(* every budget: the shortlists lose no room that does (rooms/planner.py,   *)
(* CHEAPEST_PER_SLOT).                                                      *)
Fits(room, plan) == Overage(room, plan.slots, plan.budget) = 0
AffordableRoomFound ==
    Answered("room") /\ answer.plan.slots # <<>> =>
        LET plan == answer.plan
        IN  (\E r \in Rooms(plan.options) : Fits(r, plan)) =>
                answer.response.within_budget /\ answer.response.every_line_within_budget

(* "If nothing fits, the cheapest room is returned"                         *)
(* (docs/phase-8-room-planning.md): among all the candidates, although the  *)
(* planner ranks such rooms by how far over each budget they are.           *)
ClosestRoomIsCheapest ==
    Answered("room") /\ answer.plan.slots # <<>> =>
        LET plan == answer.plan
        IN  ~ Fits(plan.items, plan) =>
                \A r \in Rooms(plan.options) : PlanTotal(plan) <= Total(r, plan.slots)

(* An upgrade does what it says: the room with that one line exchanged      *)
(* costs the room_total shown, dearer by `extra`, stays within 115 percent  *)
(* of every budget, and scores higher.                                      *)
UpgradesKeepTheirPromise ==
    Answered("room") =>
        LET plan == answer.plan
            swapped(i, n) == [plan.items EXCEPT ![i] = plan.upgrades[i][n].candidate]
        IN  \A i \in DOMAIN plan.upgrades : \A n \in DOMAIN plan.upgrades[i] :
                LET room == swapped(i, n)  total == Total(room, plan.slots)
                IN  /\ total = plan.upgrades[i][n].room_total
                    /\ total = PlanTotal(plan) + plan.upgrades[i][n].extra
                    /\ plan.upgrades[i][n].extra > 0
                    /\ \A b \in plan.budget : 100 * total <= 115 * b
                    /\ \A b \in plan.slots[i].budget : 100 * LineTotal(room[i], plan.slots[i]) <= 115 * b
                    /\ RoomScore(room) > RoomScore(plan.items)

(* Every line can be bought as planned: its product is for sale and one     *)
(* colour of it has the whole quantity.                                     *)
PlanIsBuyable ==
    Answered("room") => \A i \in DOMAIN answer.response.image_request :
        LET line == answer.response.image_request[i]
        IN  \E r \in shop.rows : /\ r.id = line.product /\ IsRecommendationEligible(r)
                                 /\ \E c \in r.colours : /\ Lookup(COLOURS, c.label) = line.colour
                                                          /\ c.stock >= line.quantity

(* Naming the pieces of a room the other way round asks for the same slots, *)
(* with the same quantities and budgets. Only of more than MAX_TERMS        *)
(* materials or colours, which are cut in the order of mention              *)
(* (rooms/parser.py:205 and 212), may others remain, and all were named.    *)
MentionOrderImmaterial ==
    LET items == request.draft.items
        materials(s) == Resolved(MATERIALS,
            UNION {Range(items[i].materials) : i \in Mentions(s.category, items)})
        colours(s) == Resolved(COLOURS, Range(request.draft.colours)
            \cup UNION {Range(items[i].colours) : i \in Mentions(s.category, items)})
        kept(part, other, named) == IF Cardinality(named) <= MAX_TERMS THEN other = part
                                    ELSE other \subseteq named
        alike(s, o) ==
            /\ [o EXCEPT !.hard.materials = s.hard.materials, !.soft.colours = s.soft.colours] = s
            /\ kept(s.hard.materials, o.hard.materials, materials(s))
            /\ kept(s.soft.colours, o.soft.colours, colours(s))
    IN  Answered("room") => \A t \in Turns :
            \E other \in SpecificationFromRoomDraft([request.draft EXCEPT !.items = Reverse(@)], t.query) :
                /\ Len(other.slots) = Len(answer.spec.slots)
                /\ \A s \in Range(answer.spec.slots) : \E o \in Range(other.slots) : alike(s, o)

(* Documented of a customer's taste (search/ranking.py:36): a product never *)
(* comes before one that answers the request better.                        *)
TasteOnlyBreaksTies ==
    Answered("search") => \A i, j \in DOMAIN Items :
        i < j => Combine(PartsOf(Items[i].product, NoProfile)) >= Combine(PartsOf(Items[j].product, NoProfile))
=============================================================================
