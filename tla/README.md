# Furn-APP: formal model

TLA+ models of the parts of Furn-APP whose correctness depends on what other
sessions do at the same time, the TLC runs that check them on small instances,
and proofs, checked by TLAPS, that the most important properties hold for every
instance. All paths below are relative to the repository root.

## 1. The system

Furn-APP is a furniture marketplace for a Flutter app. Two things run:

* a **database** (Supabase: PostgreSQL behind a Data API). Customers, sellers
  and administrators reach it directly with their own sessions. Row-level
  security policies (`sql/phase-3.2*-security-hardening.sql`) say which rows
  they may read and write, and a few `SECURITY DEFINER` functions perform the
  writes no policy allows: `place_order`, `cancel_purchase_order`,
  `advance_purchase_order`, `accept_service_request`, ...
* an **API** (`app/`, FastAPI, one process): reads of the catalogue, search and
  room planning through an AI provider, recommendations, intake, reviews, and
  the creation of a customer's cart. It keeps no state but the rate limiter's
  windows and the caches; everything else it reads per request, under the
  caller's token.

| Component | State | Operations | Where it is hard |
|---|---|---|---|
| Checkout (`migrations/checkout-2026-09-18.sql`) | `product_color.stock_quantity`, `cart_line`, `purchase_order`, `order_line_item`, `stock_reservation` | `place_order`; trigger `settle_stock_reservation` | a transaction of several statements under READ COMMITTED, row locks, contention for the last units, double submission, cancellation against delivery |
| Order lifecycle (`sql/phase-3.2d-...`: 2181-2256) | `purchase_order.lifecycle_state` | advance, cancel, an administrator's updates | races on one row, repeated cancellation |
| Cart rows (same file, 1145-1290) | `cart_line` | insert, change quantity, delete | concurrent with checkout, which does not lock them |
| Cart service (`app/cart`) | `cart` (unique per customer) | `POST /v1/cart` | read, create, read back; lost answers |
| Service requests (3.2d: 1833-2100) | `service_request` | insert, edit, cancel, accept, start, complete | two parties accept; accept against cancel |
| Furnishing requests, design links (3.2c: 864-1063; `migrations/design-version-links-2026-09-19.sql`) | `furnishing_request`, link rows | insert, open, withdraw, attach, detach | state checked by a policy while another session changes it |
| Rate limiter (`app/core/limits.py`) | a window of instants per user and bucket | `check`, sweep | boundary instants, the advice given to a refused client |
| Caches (`app/core/cache.py`) | entries with their age, in LRU order | `get`, `put` | expiry boundary, eviction, an await between get and put |
| The endpoints that spend money (`app/search`, `app/rooms`, `app/intake` routers; `app/personalization`) | where each open call is | search, room plan, room preview, service triage, furnishing brief | they share the limiter and two caches and interleave at every await, while the world they read changes |
| What an upstream answer means (`app/auth`, `app/ai/providers`, `app/rooms/images.py`, the gateways) | none | the status and body of each answer, redirects of a photo | every failure must end in a status of its own and never in a wrong answer |
| Search (`app/search`, `app/ai/guardrails.py`), recommendations, room planner | none | filters, scores, alternatives, a combination within a budget | numeric boundaries, cut-offs, total order |
| Catalogue, reviews, intake (`app/catalog`, `app/reviews`, `app/intake`) | none | eligibility, normalisation, pages, validation of drafts | one odd row among good ones; offsets |
| Tag derivation (`scripts/derive_search_tags.py`, `app/ai/tagging.py`, `migrations/product-search-tags-2026-09-20.sql`) | a job's progress, its SQL files, `product_search_tag` | label, vote, write a file, run a file | files are run by hand, late, twice, out of order, on a catalogue that changed |
| Observability, prompts, row-level security DDL, scripts, seeds | none | start-up, logging, text, one-shot DDL | text and I/O |

Interactions: the cart rows a customer edits are the input of `place_order`; it
locks and updates the `product_color` rows that sellers also write; its orders
are advanced by sellers and cancelled by customers and administrators, whose
updates fire the trigger that writes `product_color` again. The API touches this
only by creating the cart and by reading what a customer bought. Inside the API,
calls meet in the rate limiter and in the two caches and nowhere else; the table
of search tags is written by people running generated files and read by search.

`PROJECT.json` lists, under `hazards`, what is hard to test here, each with its
line and the properties aimed at it.

## 2. Plan

| Step | Modules | What for | State |
|---|---|---|---|
| 1 | `Checkout`, `AtomicCheckout`, `MCCheckout` | the transactions of a purchase, and the atomic service they implement | done |
| 2 | `CheckoutProofs` | type correctness, lock exclusion, the inductive invariant, the safety properties, units, deadlocks | done |
| 3 | `CartService`, `ServiceRequests`, their MC and proof modules | one cart per customer through races and lost answers; one party per request, no skipped state, nothing changes after acceptance | done |
| 4 | `Catalogue`, `Search`, `Recommendations`, `RoomPlanner`, `Intake`, composed in `Answers`; `AnswersProofs`, `SearchProofs` | from a request and what the database holds to the answer; what a planned room promises, then a search, a page and a draft | done |
| 5 | `RateLimiter`, `Upstream`, composed in `ModelCalls`; `ModelCallsProofs` | the calls that spend money, interleaved; the limiter as the abstract service they implement; the caches | done |
| 6 | `TagDerivation`, `TagDerivationProofs` | guesses of a model, the files made of them, and the table | done |
| 7 | `CheckoutProofs`, last part | `Checkout` implements `AtomicCheckout`, as a theorem | done |
| 8 | `CollectionFacts` | sums over finite sets, largest members, sequences: what the proofs share | done |
| 9 | furnishing requests and design links | the race of a link with the withdrawal of its request | left: nothing promises its outcome |

Constants carry named assumptions in the module that declares them, each
operation is one action, invariants are conjunctions of named parts, and no
module uses a RECURSIVE operator.

## 3. The model of checkout

**`Checkout.tla`.** `place_order` is a plpgsql function. At READ COMMITTED every
SQL statement in it sees the rows committed when *that statement* began, so each
statement is one action, in the order of the code: `Begin`/`CartEmpty` (the
profile, address and cart checks, lines 208-236), `LockColours` and one
`Acquire` per row (238-248), `CheckForSale` (250-269), `CheckStock` (271-283),
`OpenLoop` (the query of the FOR loop), then per seller `InsertLines` and
`InsertReservation`, then `UpdateStock`, and `Commit`, which also holds the
DELETE of the cart lines. What a transaction wrote and did not commit is its
`draft`; an error, a deadlock or a lost connection (`Fail`) drops it.

| Code | Model |
|---|---|
| `product_color.stock_quantity` | `stock` |
| published product, approved seller, active category | `forSale` |
| `product.price`, `discount_price` | `price` |
| `cart_line` of a customer | `cart[b]`, a quantity per colour (0: no row) |
| `purchase_order.lifecycle_state` | `orderState[<<call, seller>>]` |
| `order_line_item.quantity`, `.unit_price` | `line`, `charged` |
| `checkout_private.stock_reservation` | `reserved` |
| row locks on `product_color` | `lock`, `want` (what the running statement still waits for), and PostgreSQL's conflict table `Conflict` |
| `RETURN`, `RAISE` | `outcome` |

`consumed` and `supply` are history: units gone with a delivered order, and
units the sellers put on the shelf. They appear in no guard.

Locks: `SELECT ... FOR UPDATE` takes its rows in `ORDER BY colour.id`; the
foreign key checks of the inserts take FOR KEY SHARE, an UPDATE of stock takes FOR
NO KEY UPDATE, both in whatever order the plan visits the rows. A cycle of waits
is broken by `DeadlockAbort`. The trigger's UPDATE of several colours runs in
`StartCancel` .. `CommitCancel`; meanwhile the order row itself is held
(`Settling`).

The environment: customers edit carts as the policies allow; sellers change
prices, availability and stock; an administrator cancels an order in any state,
and puts a cancelled one back, as `scripts/replica_checkout_test.py:486-494` does.

**`QuietCart`.** `place_order` never locks the rows of `cart_line` and reads
them in six statements. With `QuietCart = TRUE` a customer's session does not edit
the cart during that customer's own checkout (several submissions of the same
cart may still run at once). That is the assumption under which checkout is
correct; the runs with FALSE show what happens without it.

**`AtomicCheckout.tla`** is the promise: a call places one order per seller for
exactly the cart it finds, in one step, or changes nothing; a cancellation returns
exactly what is still reserved. `Checkout!ImplementsAtomicCheckout` instantiates
it with the committed tables; locks, drafts, prices and availability are hidden,
and `Commit` and `CommitCancel` are the steps that count.

Assumed about the deployed schema, as the repository's replica test assumes
(`scripts/replica_checkout_test.py:15-18`): CHECK (stock_quantity >= 0), and the
foreign key of an order line on `product_color`.

## 4. The models of the cart service and of service requests

**`CartService.tla`** is `POST /v1/cart` (`app/cart/router.py:61-104`): one action per
upstream request (`ReadProfile`, `ReadCart`, `Create`, `ReadBack`), since at each
`await` other calls and the customer's own session go on. `account` and `cart`
are the database rows, `creator` says whether the server holds the secret key,
`step` and `answer` are the call's. Any request may fail (`UpstreamFails`); an
insert may commit without an answer the call can use (`CreateUnanswered`), or
even after the call timed out (`GiveUp`, `LateInsert`). The customer may delete
the cart or lose the profile at any moment. `madeBy`, `owned` and `disturbed` are
history and in no guard. A 409 stands for the unique constraint
`cart_customer_unique` and for the foreign key of a profile that has gone; the
code treats both alike.

**`ServiceRequests.tla`** is a service request and the six calls on it. Each
transition is one conditional UPDATE: `StartUpdate` is its snapshot (which row,
and the EXISTS about the caller), `FinishUpdate` the moment it has the row to
itself and checks the row once more, as READ COMMITTED does; in between other
transactions commit. `accept_service_request` reads the caller's party in a
statement of its own before (`ReadParty`). Insert, and the review policy, are
single statements. Parties are approved, suspended and declare the service at any
moment. `call` holds the arguments of each call, chosen at the start.

## 5. The models of the API

**`Answers.tla`** takes each read endpoint from its request to its answer in one
step: what it reads is one snapshot, and what is interesting is the computation.
`Catalogue` holds eligibility, normalisation and pages (`app/catalog`), `Search`
the validated draft, the hard filters, the weighted mean and the order
(`app/search`, `app/ai/guardrails.py`), `Recommendations` alternatives,
comparisons and similar products, `RoomPlanner` the slots of a draft, the
shortlist, the choice of a room and its upgrades, `Intake` the two forms. They
are definitions without state; each EXTENDS the ones it uses.

| Code | Model |
|---|---|
| what the Data API returns to the caller | `shop` (rows, inferred tags, purchases, services, offers, reviews) |
| the body of the request | `request`, whose `draft` is what the model answered for its sentence: nothing is assumed of it |
| `None`, a value that cannot be read | the empty set; a value, the set of it |
| scores (floats) | whole numbers of ten-thousandths |
| the vocabulary and its spelling variants | a few labels of each kind, known, variant and unknown (`Catalogue`) |

Where the code leaves the outcome open (the conversation a sentence is read in,
the purchases in the order they arrive) the operator is the set of its results.
A review row names one target, or the gateway drops it; the model drops it too.
What a draft names keeps its order, and what a customer says its repetitions:
labels and words are sequences where the code cuts a list or counts words
(`Spread`, `FirstTerms`, `TokenPlaces`).

**`ModelCalls.tla`** is the server's event loop: a handler runs from one await to
the next in one step, so a step is an action and the answer to an await is
another, and calls interleave exactly there. A request begins when
Supabase Auth has answered about its token, since nothing the calls share is read
before. `RateLimiter.tla` is `check` with its sweep; `Upstream.tla` says, for every
status and body an upstream service may send, what the gateways make of it, and
`ModelCalls` takes its failures from there.

| Code | Model |
|---|---|
| `RateLimiter._events` | `events`: the key exists only once used |
| `time.monotonic()` | `now`, a counter of instants, `TICKS` of them to the second |
| the header `Retry-After` of a 429 | `Refusal(k).after`: whole seconds, the wait rounded half to even, one at least |
| `TTLCache._entries`, for parsed sentences and profiles, and for pictures | `parses`, `images`: sequences, least recently used first |
| an open request | `calls[c]`: its stage is the await it is at |
| what the customer may see and is for sale; name and photos of a product; the listed services | `visible`, `look`, `active` |
| the photos of a product, in order, by colour | `PhotosOf`: the one shown is the first in the wanted colour, else the first |
| settings read at start-up | `config` |

`history` and `refused` remember the limiter's decisions and `used` what a reply
rests on; they are in no guard. `Leave` follows a finished call at once: it only
gives the invariants a state in which to look at the reply. The values a cache
holds remember what they were made from, never what they say.

**`TagDerivation.tla`** is the life of the inferred search tags. A job (`StartJob`,
`ReadPage`, `LabelProduct` or `SkipProduct`, `WriteFile`) reads a page per request
while the catalogue changes, asks the model several times about every product
and keeps what more than half of the answers say. A file is one transaction run by
hand (`ApplyFile`, or `FileRolledBack` when a key repeats, a product is gone or
the file's own count at the end disagrees), at any time, in any order, any number
of times. Jobs run one at a time; the script names its file after the day, and the
model keeps every file, as `--out` does. All listed products are eligible, and
what is shown to the model (photographs, text) does not matter here.

## 6. Runs

| Run | Instance | Shows |
|---|---|---|
| `contention` | two submissions of one cart of up to 3 colours of 2 sellers, 1 cancellation, one unit of each, `FairSpec` | `TypeOK`; `OneOrderPerSeller`: no empty order, no line without order; `NoCheckoutDeadlock`; `PlacesWholeCart`: what a successful call orders, reserves and takes is the cart of that moment; `EveryCallEnds`; `ImplementsAtomicCheckout` |
| `last_units` | 2 buyers of 1 colour, stock and quantities up to 2, stock overwritten, 2 cancellations, goes off sale and back | `UnitsConserved`, `ReservationMatchesOrder`, `NeverOversells`, `OnlyOpenOrdersReserve` through cancel, reopen, cancel, deliver; `ImplementsAtomicCheckout` |
| `edits` | two submissions with `QuietCart = FALSE`, stock up to 1, a price that moves | `OnlyOpenOrdersReserve` needs no quiet cart; the failed CHECK of the stock update is reachable here |
| `cart_races` | 3 calls of one customer and 1 of another, up to 3 carts | `TypeOK`; `CreatedByOneCall`: `created` is true for one call per cart, and no call returns a cart its caller never had meanwhile; `ParallelCallsAgree`: losing the race to create is not an error |
| `requests` | 3 calls of any kinds on 1 request, 2 parties, 2 prices, 1 edit | `TypeOK`; `TrueMeansItHappened`: one caller is told TRUE per transition, in order; `AgreementStands`: party, price and details are fixed from acceptance on; `ReviewsEarned` |
| `answers` | 15 searches, 8 rooms, comparisons, similar products, pages, reviews, forms, each put to every shop of up to 6 of 9 products | ranking (`ConfirmedBeatsGuessed`, `SamePageInAnyOrder`), limits (`StatedLimitsHold`), empty pages and alternatives (`EmptyPageExplained`, `ShortfallsAreTheWayBack`), pages (`PagesTile`), rooms (`AffordableRoomFound`, `ClosestRoomIsCheapest`, `UpgradesKeepTheirPromise`, `PlanIsBuyable`, `MentionOrderImmaterial`) |
| `model_calls` | 2 open calls of 2 customers, 3 requests or outside edits, every kind of call, caching on and off | `TypeOK`; `WindowRespected`, `OnlyActiveEntriesPastSweep`; `RefusalIsHonest`: what a refused caller is told is the wait to the nearest second, or the one second that is always told, and who waits as told is refused at most once more; `FreshAnswers`; `AnswersFitTheCall`: whoever filled the cache, a reply rests on what its own call asked and read; `PhotosMatchPieces` when photos fail or are missing |
| `tags` | 3 products, 2 jobs of 2 models, 2 answers per product, 1 change of the catalogue | `LastFileDecides`; `TagsAreAgreed` |
| `edit_units` | `QuietCart = FALSE` | violates `UnitsConserved` |
| `empty_order_list` | two submissions | violates `PlacedMeansOrdered` |
| `taste` | searches of a customer who bought before | violates `TasteOnlyBreaksTies` |
| `rerun_tags` | 2 products, 2 jobs | violates `FilesAreRerunnable` |

The last four runs check what a comment or a document of the repository says, quoted
under `findings` in `PROJECT.json`. Three more statements fail and have
no run of their own. `RetryIsAdmitted` of `RateLimiter`: who waits the seconds of
`Retry-After` is not refused again (`docs/flutter-search-contract.md:150`); in
`model_calls` a wait of 5/4 seconds is told as one. The others are of `Checkout`.
`PricesReadUnderLock`: the comment at
`migrations/checkout-2026-09-18.sql:184-185` says prices are read under a row lock,
but only rows of `product_color` are locked and the price is on `product`.
`NoCheckoutDeadlock` with `QuietCart = FALSE`: rows added during the call are
locked by the stock update in any order. `NeverOversells` fails without quiet
carts for the same reason as `UnitsConserved` (a quantity raised after the stock
check).

Where a cfg says `CHECK_DEADLOCK FALSE`, the system may really stop: the calls
have ended and no line can be added because nothing is in stock, every account is
closed, the one request is answered, or the bounds on time and events are used up.

**Fairness** (`Fairness`, used by `contention` only): the database keeps executing a
transaction that can proceed, and its deadlock detector breaks the cycles it
finds (both are PostgreSQL's guarantees). Nothing is assumed of customers, sellers
or administrators: they need never call, edit or restock, and calls need not
start. Weak fairness is enough because a row freed for a waiting statement is
contended only by finitely many other transactions of the instance.

**Bounds of checkout, cart and requests**: `MaxQty`, `MaxStock`, `Restocked`,
`Withdrawable`, the sets of calls and cancellations (each runs once), `Prices`,
`MaxCarts` and `MaxEdits`. Two checkouts are what every hazard listed takes (a
third adds no kind of conflict to two calls and a cancellation, and the proofs
cover any number); quantities and stock go to 2 where a partial reservation must
differ from the whole. Three calls of a customer are two that race and one that
comes later; three on a request are enough for an acceptance, a start and a
completion, and for two acceptances with a cancellation against them. Nothing in
the database bounds quantity or stock by less than int4; no arithmetic here comes
near its width.

**Bounds of `answers`**: constants of the code that cut lists off are reduced so
that the cut happens among a handful of products: `CANDIDATE_LIMIT` 5 (200),
`MAX_TAGS` 6 (600), `MIN_BROAD_MATCHES` 3 (8), `BestPerSlot` 1 (4) and
`CheapestPerSlot` 1 (3) with up to three slots, `MAX_TERMS` 2 (10), so that three
colours and three materials named for one slot are cut in the order of mention. The
nine products differ in what the answers tell apart: equal prices, a colour out of
stock, a style confirmed, guessed or inferred, a discount, a missing or odd measure, no
category, not for sale.

**Bounds of `model_calls`**: two call slots, used again once a call has left;
`MaxEvents` 3 requests and outside edits together, a request first (before it nothing
can race, and the clock stands still; with caching off, where calls share only the
limiter, it stands still throughout and nothing is edited). Three events are two calls and an edit
between, or a call that fills a cache another empties while a third waits. Time is
in quarters of a second. The window of the intake bucket is 7 instants, so that a
refused caller can be told a wait rounded up at a half (6), rounded up (7), rounded
down (5), exact (4), or the one second that is the least (3 to 1); the other windows and
the time to live are 2. The clock runs to `MaxNow` 8 where only calls of the intake
bucket have been admitted, and to `ShortNow` 2 elsewhere, the first instant at which
an entry made at the start is expired. It may stand still for any number of steps, so
both sides of every boundary instant are reached. Search admits two calls per
window, the others one; the table is swept past 2 entries; two parses and one
picture are kept. The preview asks for three products, the first one twice: one in
a colour it has a photo of, one in a colour that falls back to its first photo, one
without photos.

**Bounds of `tags`**: two jobs (`MaxJobs`), one change (`MaxChanges`), pages of one
product, so that the change falls between two pages; a limit of two products, so
that a file leaves one out. The two answers of the model agree on nothing except
with themselves, which puts every count on one side of a half or exactly on it;
their confidences lie on both sides of each rounding and of the threshold.

`Symmetry` exchanges calls of one customer, the calls and the parties of a
request, users and slots, listed services, or models, which nothing distinguishes; no run with a
symmetry checks liveness.

## 7. Proofs

`CheckoutProofs.tla` proves, for every value of the constants that satisfies
`CheckoutAssumption` and `FinitelyManyCalls` (the calls ever made are finitely many,
any number of them):

| Theorem | Statement |
|---|---|
| `TypeCorrect` | `Spec => []TypeOK` |
| `LockExclusion` | `Spec => []LocksExclude`: no two transactions hold conflicting locks |
| `ClosedOrdersReserveNothing` | `Spec => []OnlyOpenOrdersReserve` |
| `Invariance` | `QuietCart => (Spec => []IInv)` |
| `StockNeverRunsOut` | `QuietCart => (Spec => []NeverOversells)` |
| `ReservationsExact`, `OrdersFollowLines` | the same for `ReservationMatchesOrder` and `OneOrderPerSeller` |
| `WholeCartPlaced` | `QuietCart => (Spec => PlacesWholeCart)` |
| `NoUnitLost` | `QuietCart => (Spec => []UnitsConserved)` |
| `CheckoutsNeverDeadlock` | `QuietCart => (Spec => []NoCheckoutDeadlock)` |

None of these properties is inductive. `IInv` adds, per call: past the first
statement every colour of the cart is locked or about to be (`HoldsCart`), so no
other transaction can lower its stock and the check keeps holding
(`StockSuffices`); the draft is the cart restricted to the sellers visited so far
(`DraftIsCart`); a call that has not ended has no order (`NoOrderYet`). The
exclusion of locks is proved first and by itself because the other parts use it
to show that a step of one call leaves another's colours alone. A second
submission of the same cart is the interesting case: when the first commits, the
cart becomes empty while the second is waiting, and each part of the invariant
holds of the empty cart.

`OnlyOpenOrdersReserve` has an invariant of its own (`ReserveInv`), which does not
need quiet carts: a draft reserves only for sellers it has written an order for.

`UnitsConserved` speaks of a sum over the calls, and the model computes it with the
fold of the community modules. A sum over a finite set would ask for induction over
the set, which the provers do not have; `CollectionFacts.tla` replaces it by the
smallest counterexample, the form in which finiteness is defined (`SmallestSubset`):
a sum exists and is unique, it changes by what one summand changes (`SumChange`),
and it lies between the bounds of its summands (`SumBounds`). `ReservedIsSum` shows
that the model's fold is that sum, and each action then changes stock, one call's
reservation and the units delivered or supplied by amounts that cancel.

`NoCheckoutDeadlock` holds because a statement takes its rows by rising colour.
`OrderInv` says so of every call: while its first statement runs, the colours it
still wants lie above all it holds. A call past that statement waits for no
colour it has not locked (`HoldsCart`, from the quiet cart). So the colour a
waiting call comes to next lies below the next colour of the call it waits for
(`WaitsAbove`), and in a circle of waiting calls the highest of these finitely many
colours would lie below another (`NoCycle`, by `LargestMember`).

`CartServiceProofs.tla` and `ServiceRequestsProofs.tla` do the same for the services
(`CartAssumption`: every call has a customer; the requests need no assumption):

| Theorem | Statement |
|---|---|
| `CartTypes`, `CartInvariance` | `Spec => []TypeOK`, `Spec => []IInv` |
| `OneCallCreates` | `Spec => []CreatedByOneCall` |
| `RacesEndAlike` | `Spec => []ParallelCallsAgree` |
| `TypeCorrect` | `Spec => []TypeOK`, of service requests |
| `AnswersTrue` | `Spec => []TrueMeansItHappened` |
| `AgreementKept` | `Spec => AgreementStands` |
| `ReviewsOfDoneWork` | `Spec => []ReviewsEarned` |

For the cart, `IInv` says that the call which inserted a cart has ended
(`Numbered`), so no running call can be taken for its maker; that a running call
has seen every cart its customer had (`Witnesses`); and, of a call nothing
disturbed, that the account it read is still open and that after a 409 there is a
cart to read back (`Undisturbed`). The steps fall into three groups with a lemma
each: those that move one call and leave the database alone, the inserts, and the
customer's own session. For requests, `TrueMeansItHappened` is inductive once a
call has no answer before it ends (`AnsweredLast`); `CallSteps` reduces every step
of a call to a transition along the life cycle or to one that changes no request.

`ModelCallsProofs.tla` uses the abstract service: `RateLimiter` is a specification of
its own (`LimiterSpec`), and whatever the handlers do, the service implements it.
The assumptions are the named ones of the modules: `LimitsArePositive`,
`RequestsAreValid`, `BucketsCoverKinds`, `CachesHoldSomething`, `PhotosAreOrdered`.

| Theorem | Statement |
|---|---|
| `CallsImplementLimiter` | `Spec => LimiterSpec` |
| `LimiterInvariance` | `LimiterSpec => []LInv` |
| `NoWindowOverfull` | `Spec => []WindowRespected` |
| `RefusalsAreHonest` | `Spec => []RefusalIsHonest` |
| `SweepBoundsTable` | `Spec => []OnlyActiveEntriesPastSweep` |

The table alone does not say that a window was respected, because it forgets.
`LInv` relates it to the whole history: a key's events are the end of its history,
in order (`InOrder`, `EndOfHistory`), nothing inside the current window is missing,
also after a sweep, and for every refusal ever made the bucket opens when the oldest
admission of that window leaves it (`Opens`), its caller having been told the time until
then, rounded (`Told`). `RefusalsAreHonest` then is arithmetic on that rounding: a wait
is told with an error of half a second at most, except that less than half a second is
told as one, for any number of instants to a second. The exact seconds are not
promised, so the documents' advice to wait them is not always enough (section 6).
The sweep needs no further invariant: an admission that finds the table large drops
every key without an event in its window, and nothing else adds a key.

The second half of `ModelCallsProofs.tla` does the rest of the service on top of it: the
caches and the calls.

| Theorem | Statement |
|---|---|
| `CallInvariance` | `Spec => [](LInv /\ CInv)` |
| `CallTypes` | `Spec => []TypeOK` |
| `AnswersAreFresh` | `Spec => []FreshAnswers` |
| `AnswersFit` | `Spec => []AnswersFitTheCall` |
| `PhotosMatch` | `Spec => []PhotosMatchPieces` |

A reply may rest on an entry that another call filled long before, so what is proved
of replies has to be known of entries. `CInv` says of both caches that no key is held
twice, none outgrows its size and no entry is from the future (`CacheOk`), and that an
entry is kept under the key of what its value was made from (`SoundParse`,
`SoundImage`); of every call, that what it used was fresh and fits it and that the
numbers on its pieces are those of its photos, also when some photos failed
(`CallOk`, `Matched`). The lemmas before it say what `CacheGet` and `CachePut` keep of
a sequence of distinct keys.

`CheckoutProofs.tla` ends with the refinement, under the same assumptions as
`Invariance`:

| Theorem | Statement |
|---|---|
| `Implementation` | `QuietCart => (Spec => ImplementsAtomicCheckout)` |

`IInv` says that at its commit a draft is the cart; the mapping needs four more
facts (`RInv`): a call is answered only when it ends (`Unanswered`) and waits for
nothing afterwards (`Unwaiting`); an order that is being cancelled is not cancelled
yet (`TargetsOpen`), and by one transaction only (`TargetsApart`). Then each
action is a silent step (`SilentMaps`), a refusal (`AbortMaps`), or the one visible
step of its kind.

`TagDerivationProofs.tla` proves both properties of `tags` for any products, models,
jobs, files and changes of the catalogue. `TagAssumption` asks for a positive number of
answers per product (`--runs` is 1, 2 or 3), finite vocabularies and whole
confidences.

| Theorem | Statement |
|---|---|
| `LastFileWins` | `Spec => []LastFileDecides` |
| `OnlyAgreedTags` | `Spec => []TagsAreAgreed` |

`TagInv` follows a tag from the guess to the table: in the running job (`JobOk`) and in
every file (`FilesOk`), each tag of a product is a word of its vocabulary with a
confidence in range, backed by more than half of the answers kept with it, and
few of each kind. The table adds `RowsPlaced` (what decided a product is a file that
was written; deleted products have no rows) and `KeysUnique`; with those,
`LastFileDecides` is inductive, since a run of a file deletes the rows of all it lists
before it inserts. The count and the mean behind one tag are the lemmas
`ConsensusTags` and `MeanBound`: the mean of confidences in range, computed by a fold
and rounded, is in range (`MeanOfSum`, `RoundBound`).

`AnswersProofs.tla` proves what a planned room promises, for any shop and any
request: however many products, mentions and turns of a conversation.

| Theorem | Statement |
|---|---|
| `AffordableRoomIsFound` | `Spec => []AffordableRoomFound` |
| `ClosestIsCheapest` | `Spec => []ClosestRoomIsCheapest` |
| `UpgradesKeepPromises` | `Spec => []UpgradesKeepTheirPromise` |
| `PlansAreBuyable` | `Spec => []PlanIsBuyable` |

The assumptions are `ShopAssumption` (finitely many rows that were parsed, with distinct
whole ids and at most one value in an optional column; finitely many reviews with
distinct ids, each about one target, as the gateway keeps only those), `RequestAssumption`
(a draft has its fields, what a request lists, labels and words included, is a sequence, an
item of a room names one category at most,
and a page has a whole offset and a positive limit, as the routers' `Query` bounds
demand), `LimitAssumption`, `PlannerAssumption` (a shortlist keeps at least one
cheapest option, 3 in the code), `TermsAssumption` (`MAX_TERMS` is from 1 to 10, 10 in
the code) and `VocabulariesWellFormed`. The invariant is `Planned`: an answered room
is the plan of the draft's slots over the candidates of the shop. The rest is about
the planner's functions:

* Lists are sorted by rank: an element stands at the place that as many others come
  before. `Ranks` shows, for any order that is total on a finite set, that
  ranks number the set without gaps, and `ByRank` that the sequence lists exactly its
  members, in order. Each use (by id, by score, by price) only has its order to check;
  scores are whole numbers (`ScoreInt`), so all are total.
* Every slot's shortlist is a part of its options and keeps a cheapest one
  (`ShortlistsFill`). Exchanging every piece of a room for that one lowers each
  line, hence the total and how far each budget is passed (`CheaperRoom`, by the sums
  of `CollectionFacts`).
* `BestRoom` is a least member of the rooms under a lexicographic order of keys, which is
  total and transitive (`LexTotal`, `LexTransitive`). If it passes a budget,
  so does the room of the cheapest pieces and with it every room of the candidates; and
  then none of them is cheaper (`BestPlan`).
* An upgrade changes one summand of the total (`PlanUpgrades`), and the colour of a line
  was chosen because it holds the quantity (`PlanBuyable`).

`SearchProofs.tla` proves the rest of what `answers` checks, from the same assumptions:

| Theorem | Statement |
|---|---|
| `AnswerTypes` | `Spec => []TypeOK` |
| `StatedLimitsAlwaysHold` | `Spec => []StatedLimitsHold` |
| `EmptyPagesAreExplained` | `Spec => []EmptyPageExplained` |
| `ShortfallsLeadBack` | `Spec => []ShortfallsAreTheWayBack` |
| `PageIsTheSame` | `Spec => []SamePageInAnyOrder` |
| `ConfirmedBeatsAGuess` | `Spec => []ConfirmedBeatsGuessed` |
| `PagesAlwaysTile` | `Spec => []PagesTile` |
| `OrderOfMentionsImmaterial` | `Spec => []MentionOrderImmaterial` |

The invariant is `Served`: an answered search is `Found` for a specification the draft gave
and a profile the purchases gave, and an answered page is the window its request asks for.
What remains is about functions of those:

* Every part of a score is a whole number from 0 to 10000, through clamps, quotients and
  means (`RoundedMark`, `MeanMark`, `ScoreMark`), so ranks compare integers.
* A stable sort is described by the places it takes its members from (`Arranged`,
  `ArrangedFacts`), and a sequence sorted by a total order is determined by its set
  (`SortedOnce`). Scores tie, but price and id decide, so the ranking and the counts are
  functions of the set of candidates (`AnyOrder`); near misses are ordered by the number of
  limits missed, price and id, and the alternatives are the first few of them
  (`AlternativesAnyOrder`).
* An alternative's reasons carry exactly the names of the checks it fails
  (`ShortfallCodes`), and each hard filter reads one field of the specification, so resetting
  those fields makes it match (`RelaxedMatches`). If the page is empty although
  something is for sale, some filter rejected some product and is counted
  (`RejectionFacts`).
* A confirmed wish counts in full, and one guessed wish among at most `MAX_TERMS` lowers its
  part of the score by 200 or more (`WishedValue`). Eleven parts with the code's weights cannot
  round that away (`CombineStrict`), so the scores differ strictly (`ConfirmedScore`).
* A window on a sequence sorted by a total order shows the members of the ranks it spans, and one
  member beyond it tells whether there are more (`WindowFacts`), for products by id and for
  reviews by time and id.
* Reversing a draft's pieces permutes the mentions of each kind; a slot's quantity and budget
  are sums over them (`SumRenamed`), and the kinds mentioned are the same
  (`MentionedReversed`). Its colours and materials are the first `MAX_TERMS` of those
  named: all of them when they are no more than that, in whatever order, and always a
  part of them (`FirstTermsKept`, `SlotReversed`).
* A draft's limits reach the specification as they are (`StatedLimitsAlwaysHold`): only
  preferences are dropped, and a specification with a range that cannot be used is refused.

Only model-checked: `EveryCallEnds` (liveness under fairness, ENABLED). The run `taste`
and the other runs that expect a violation state what is not so.

## 8. Not modelled

* Authorisation inside the database functions: who may call what is left to the
  environment (any order may be advanced or cancelled). The copied address and
  names, delivery fees, and what a deletion of the address or of a colour
  cascades to.
* Furnishing requests and design links: one row with two conditional updates of
  the kind `ServiceRequests` models, and link rows whose policy reads it; nothing
  in the repository promises an outcome of their race.
* The row-level security packages are DDL that runs once; the policies that guard
  modelled operations are guards of the actions. The acceptance scripts, seeds and
  recorded evidence run one request after the other.
* Wording: prompts, labels and their translations, log lines, the text of reasons.
  Unicode folding of labels is abstracted to which label it yields.

Seen while modelling, without a run: a failed read of the catalogue yields an empty
taste profile that is cached like any other (`app/personalization/service.py`);
a cached triage answers with the names the services had; two calls that miss the
same entry both ask the model; a catalogue that changes between two pages may list
a product twice in a labelling job, whose file then repeats a key and is refused
(`FilesAreRerunnable` exempts it); one row that does not parse makes the whole
catalogue answer fail (`Upstream!CatalogueStatus`).
