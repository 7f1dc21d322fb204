------------------------------ MODULE Checkout ------------------------------
(***************************************************************************)
(* place_order, cancel_purchase_order, advance_purchase_order and the      *)
(* settle_stock_reservation trigger, as the READ COMMITTED transactions    *)
(* PostgreSQL runs them in.  Every statement of place_order reads the      *)
(* tables as committed when that statement starts, so each statement is a  *)
(* step of its own; the row locks it takes on product_color are explicit;  *)
(* what it writes stays in the transaction's draft until Commit.           *)
(*                                                                         *)
(* A cart line is a quantity per colour (0: no line): cart_line is unique  *)
(* on (cart_id, product_color_id).  An order is the pair <<call, seller>>, *)
(* because one call writes one order per distinct seller.                  *)
(***************************************************************************)
EXTENDS Integers, FiniteSetsExt

CONSTANTS
    Checkouts,      \* place_order calls, one transaction each
    Settlements,    \* transactions that cancel an order
    Customers,
    Sellers,
    Colors,         \* product_color rows, numbered in the order of their ids
    Buyer,          \* the customer of each call
    SellerOf,       \* the seller of each colour's product
    Prices,         \* what a colour may cost (the discount price when lower)
    MaxQty,         \* bound: the largest quantity of a cart line
    MaxStock,       \* bound: the largest stock a seller enters
    Restocked,      \* bound: the colours whose stock the seller overwrites
    Withdrawable,   \* bound: the colours that go off sale and back
    QuietCart       \* TRUE: no customer edits a cart during its own checkout

ASSUME CheckoutAssumption ==
    /\ Checkouts \cap Settlements = {}
    /\ Colors \subseteq Nat
    /\ Buyer \in [Checkouts -> Customers]
    /\ SellerOf \in [Colors -> Sellers]
    /\ Prices \subseteq Nat
    /\ MaxQty \in Nat /\ MaxStock \in Nat
    /\ Restocked \subseteq Colors /\ Withdrawable \subseteq Colors
    /\ QuietCart \in BOOLEAN

\* At any time the database has run finitely many calls: reserved units add up.
ASSUME FinitelyManyCalls == IsFiniteSet(Checkouts)

Tx == Checkouts \cup Settlements
Orders == Checkouts \X Sellers
NoOrder == <<>>

\* order_state, with "none" for an order that does not exist.
OrderStates == {"pending", "confirmed", "preparing", "out_for_delivery",
                "delivered", "cancelled"}

\* Row lock modes of PostgreSQL, weakest first.
Modes == {"none", "keyshare", "nokey", "update"}

Phases == {"idle", "begun", "locking", "locked", "instock", "loop",
           "lines", "taking", "returning", "done"}

Outcomes == {"none", "placed", "customer_profile_required", "address_not_found",
             "cart_empty", "product_unavailable", "insufficient_stock",
             "check_violation", "deadlock", "aborted", "settled"}

VARIABLES
    stock,        \* product_color.stock_quantity, committed
    forSale,      \* published product, approved seller, active category
    price,        \* what the catalogue asks for the colour
    cart,         \* cart_line.quantity of each customer's cart
    orderState,   \* purchase_order.lifecycle_state
    line,         \* order_line_item.quantity of each call's orders
    charged,      \* order_line_item.unit_price
    reserved,     \* stock_reservation.quantity of each call's orders
    consumed,     \* history: units that left with a delivered order
    supply,       \* history: units the sellers put on the shelf
    pc,           \* the statement each transaction has reached
    lock,         \* the row lock each transaction holds on each colour
    want,         \* the colours its current statement has yet to lock
    todo,         \* the sellers its loop has yet to visit
    draft,        \* the rows it has written and not committed
    target,       \* the order a cancelling transaction updates
    outcome       \* what the call returned or raised

tables == <<stock, forSale, price, cart, orderState, line, charged, reserved,
            consumed, supply>>
vars == <<stock, forSale, price, cart, orderState, line, charged, reserved,
          consumed, supply, pc, lock, want, todo, draft, target, outcome>>

Quantities == [Colors -> 0 .. MaxQty]
Zero == [c \in Colors |-> 0]
Drafts == [sellers: SUBSET Sellers, line: Quantities, reserved: Quantities,
           charged: [Colors -> Prices \cup {0}], taken: Quantities]
Draft(sellers, lines, charges, reservations, units) ==
    [sellers |-> sellers, line |-> lines, charged |-> charges,
     reserved |-> reservations, taken |-> units]
NoDraft == Draft({}, Zero, Zero, Zero, Zero)

TypeOK ==
    /\ stock \in [Colors -> Nat]
    /\ forSale \in [Colors -> BOOLEAN]
    /\ price \in [Colors -> Prices]
    /\ cart \in [Customers -> Quantities]
    /\ orderState \in [Orders -> OrderStates \cup {"none"}]
    /\ line \in [Checkouts -> Quantities]
    /\ charged \in [Checkouts -> [Colors -> Prices \cup {0}]]
    /\ reserved \in [Checkouts -> Quantities]
    /\ consumed \in [Colors -> Nat]
    /\ supply \in [Colors -> Int]
    /\ pc \in [Tx -> Phases]
    /\ lock \in [Tx -> [Colors -> Modes]]
    /\ want \in [Tx -> SUBSET Colors]
    /\ todo \in [Tx -> SUBSET Sellers]
    /\ draft \in [Checkouts -> Drafts]
    /\ target \in [Settlements -> Orders \cup {NoOrder}]
    /\ \A t \in Settlements : pc[t] = "returning" => target[t] \in Orders
    /\ outcome \in [Tx -> Outcomes]

Init ==
    /\ stock \in [Colors -> 0 .. MaxStock]
    /\ forSale = [c \in Colors |-> TRUE]
    /\ price \in [Colors -> Prices]
    /\ cart = [b \in Customers |-> Zero]
    /\ orderState = [o \in Orders |-> "none"]
    /\ line = [t \in Checkouts |-> Zero]
    /\ charged = [t \in Checkouts |-> Zero]
    /\ reserved = [t \in Checkouts |-> Zero]
    /\ consumed = Zero
    /\ supply = stock
    /\ pc = [t \in Tx |-> "idle"]
    /\ lock = [t \in Tx |-> [c \in Colors |-> "none"]]
    /\ want = [t \in Tx |-> {}]
    /\ todo = [t \in Tx |-> {}]
    /\ draft = [t \in Checkouts |-> NoDraft]
    /\ target = [t \in Settlements |-> NoOrder]
    /\ outcome = [t \in Tx |-> "none"]

-----------------------------------------------------------------------------
(* The cart a call reads, and row locks                                    *)

MyCart(t) == cart[Buyer[t]]
Lines(q) == {c \in Colors : q[c] > 0}
InFlight(t) == pc[t] \notin {"idle", "done"}

\* FOR UPDATE, FOR NO KEY UPDATE and FOR KEY SHARE: which pairs conflict.
Conflict(m, n) ==
    \/ m = "update" /\ n # "none"
    \/ n = "update" /\ m # "none"
    \/ m = "nokey" /\ n = "nokey"

Free(t, c, m) == \A u \in Tx \ {t} : ~Conflict(lock[u][c], m)
Held(t) == {c \in Colors : lock[t][c] # "none"}

\* The lock the statement of each phase takes on the colours it touches:
\* SELECT ... FOR UPDATE, a foreign key check, UPDATE product_color.
LockMode(t) == IF pc[t] = "locking" THEN "update"
               ELSE IF pc[t] \in {"taking", "returning"} THEN "nokey"
               ELSE "keyshare"

\* ORDER BY colour.id: the first statement takes its locks in id order.  The
\* others take them in whatever order the plan visits the rows.
NextColours_AnyOrder(t) == want[t]
NextColours(t) ==
    IF pc[t] = "locking" THEN {c \in want[t] : \A d \in want[t] : c <= d}
                         ELSE want[t]

Acquire(t, c) ==
    /\ c \in NextColours(t)
    /\ Free(t, c, LockMode(t))
    /\ lock' = [lock EXCEPT ![t][c] = LockMode(t)]
    /\ want' = [want EXCEPT ![t] = @ \ {c}]
    /\ UNCHANGED <<tables, pc, todo, draft, target, outcome>>

\* The transaction ends: COMMIT or ROLLBACK releases its locks and its draft.
Released(t) == [lock EXCEPT ![t] = [c \in Colors |-> "none"]]
End(t, result) ==
    /\ pc' = [pc EXCEPT ![t] = "done"]
    /\ lock' = Released(t)
    /\ want' = [want EXCEPT ![t] = {}]
    /\ todo' = [todo EXCEPT ![t] = {}]
    /\ draft' = [u \in Checkouts |-> IF u = t THEN NoDraft ELSE draft[u]]
    /\ target' = [u \in Settlements |-> IF u = t THEN NoOrder ELSE target[u]]
    /\ outcome' = [outcome EXCEPT ![t] = result]

\* RAISE EXCEPTION, or an error of the database: nothing is written.
Abort(t, error) == End(t, error) /\ UNCHANGED tables

Go(t, from, to) == pc[t] = from /\ pc' = [pc EXCEPT ![t] = to]

-----------------------------------------------------------------------------
(* place_order, statement by statement                                     *)

\* The caller has no profile, or the address is not one of the caller's.
RejectCaller(t, error) ==
    /\ pc[t] = "idle"
    /\ error \in {"customer_profile_required", "address_not_found"}
    /\ Abort(t, error)

CartEmpty(t) == pc[t] = "idle" /\ Lines(MyCart(t)) = {} /\ Abort(t, "cart_empty")

Begin(t) ==
    /\ Go(t, "idle", "begun")
    /\ Lines(MyCart(t)) # {}
    /\ UNCHANGED <<tables, lock, want, todo, draft, target, outcome>>

ColoursToLock_None(t) == {}
ColoursToLock(t) == Lines(MyCart(t))

LockColours(t) ==
    /\ Go(t, "begun", "locking")
    /\ want' = [want EXCEPT ![t] = ColoursToLock(t)]
    /\ UNCHANGED <<tables, lock, todo, draft, target, outcome>>

Unavailable(t) == {c \in Lines(MyCart(t)) : ~forSale[c]}

CheckForSale(t) ==
    /\ pc[t] = "locking" /\ want[t] = {}
    /\ IF Unavailable(t) # {}
       THEN Abort(t, "product_unavailable")
       ELSE /\ Go(t, "locking", "locked")
            /\ UNCHANGED <<tables, lock, want, todo, draft, target, outcome>>

Short(t) == {c \in Lines(MyCart(t)) : stock[c] < MyCart(t)[c]}

CheckStock(t) ==
    /\ pc[t] = "locked"
    /\ IF Short(t) # {}
       THEN Abort(t, "insufficient_stock")
       ELSE /\ Go(t, "locked", "instock")
            /\ UNCHANGED <<tables, lock, want, todo, draft, target, outcome>>

\* FOR seller_id IN SELECT DISTINCT: the sellers of the cart as it is now.
LoopSellers_All(t) == Sellers
LoopSellers(t) == {SellerOf[c] : c \in Lines(MyCart(t))}

OpenLoop(t) ==
    /\ Go(t, "instock", "loop")
    /\ todo' = [todo EXCEPT ![t] = LoopSellers(t)]
    /\ UNCHANGED <<tables, lock, want, draft, target, outcome>>

\* The cart lines of one seller, as the running statement sees them.
SoldBy(s, q) == [c \in Colors |-> IF SellerOf[c] = s THEN q[c] ELSE 0]
\* Adds seller s's part of q to the rows already written.
Write(rows, s, q) == [c \in Colors |-> IF SellerOf[c] = s THEN q[c] ELSE rows[c]]

\* INSERT purchase_order and its order_line_items; the foreign key on
\* product_color then waits for FOR KEY SHARE on colours not locked before.
InsertLines(t, s) ==
    /\ want[t] = {} /\ s \in todo[t]
    /\ Go(t, "loop", "lines")
    /\ LET added == SoldBy(s, MyCart(t))
           costs == [c \in Colors |-> IF added[c] > 0 THEN price[c] ELSE 0]
           d == draft[t]
       IN /\ draft' = [draft EXCEPT ![t] =
                 Draft(d.sellers \cup {s}, Write(d.line, s, added),
                       Write(d.charged, s, costs), d.reserved, d.taken)]
          /\ want' = [want EXCEPT ![t] = Lines(added) \ Held(t)]
    /\ UNCHANGED <<tables, lock, todo, target, outcome>>

\* INSERT stock_reservation: a statement of its own, which reads the cart again.
ToReserve_OneEach(t, s) ==
    [c \in Colors |-> IF SoldBy(s, MyCart(t))[c] > 0 THEN 1 ELSE 0]
ToReserve(t, s) == SoldBy(s, MyCart(t))

Visited_Again(t, s) == todo[t]
Visited(t, s) == todo[t] \ {s}

InsertReservation(t, s) ==
    /\ want[t] = {} /\ s \in todo[t] \cap draft[t].sellers
    /\ Go(t, "lines", "loop")
    /\ LET d == draft[t] IN draft' = [draft EXCEPT ![t] =
           Draft(d.sellers, d.line, d.charged, Write(d.reserved, s, ToReserve(t, s)),
                 d.taken)]
    /\ want' = [want EXCEPT ![t] = Lines(ToReserve(t, s)) \ Held(t)]
    /\ todo' = [todo EXCEPT ![t] = Visited(t, s)]
    /\ UNCHANGED <<tables, lock, target, outcome>>

\* UPDATE product_color ... FROM cart_line: reads the cart once more, and waits
\* for the lock of each row it updates.
UpdateStock(t) ==
    /\ want[t] = {} /\ todo[t] = {}
    /\ Go(t, "loop", "taking")
    /\ LET d == draft[t] IN draft' = [draft EXCEPT ![t] =
           Draft(d.sellers, d.line, d.charged, d.reserved, MyCart(t))]
    /\ want' = [want EXCEPT ![t] =
           {c \in Lines(MyCart(t)) : lock[t][c] # "update"}]
    /\ UNCHANGED <<tables, lock, todo, target, outcome>>

\* CHECK (stock_quantity >= 0) of product_color.
Overdrawn(t) == {c \in Colors : draft[t].taken[c] > stock[c]}

StockCheckFails(t) ==
    /\ pc[t] = "taking" /\ want[t] = {} /\ Overdrawn(t) # {}
    /\ Abort(t, "check_violation")

CartAfter_Kept(t) == cart
CartAfter(t) == [cart EXCEPT ![Buyer[t]] = Zero]

\* DELETE FROM cart_line, RETURN placed, COMMIT.
Commit(t) ==
    /\ pc[t] = "taking" /\ want[t] = {} /\ Overdrawn(t) = {}
    /\ stock' = [c \in Colors |-> stock[c] - draft[t].taken[c]]
    /\ cart' = CartAfter(t)
    /\ orderState' = [o \in Orders |->
           IF o[1] = t /\ o[2] \in draft[t].sellers THEN "pending" ELSE orderState[o]]
    /\ line' = [line EXCEPT ![t] = draft[t].line]
    /\ charged' = [charged EXCEPT ![t] = draft[t].charged]
    /\ reserved' = [reserved EXCEPT ![t] = draft[t].reserved]
    /\ End(t, "placed")
    /\ UNCHANGED <<forSale, price, consumed, supply>>

-----------------------------------------------------------------------------
(* An order after it is placed                                             *)

\* UPDATE purchase_order holds the row, so a second update of it waits.
Settling(o) == \E t \in Settlements : target[t] = o

Reservation(o) == SoldBy(o[2], reserved[o[1]])
DropReservation(o) == [reserved EXCEPT ![o[1]] = Write(@, o[2], Zero)]

NextState_Service == [pending |-> "confirmed", confirmed |-> "preparing",
              preparing |-> "out_for_delivery", out_for_delivery |-> "completed"]
NextState == [pending |-> "confirmed", confirmed |-> "preparing",
              preparing |-> "out_for_delivery", out_for_delivery |-> "delivered"]

\* advance_purchase_order; at "delivered" the trigger drops the reservation.
Advance(o) ==
    /\ orderState[o] \in DOMAIN NextState /\ ~Settling(o)
    /\ orderState' = [orderState EXCEPT ![o] = NextState[@]]
    /\ IF orderState'[o] = "delivered"
       THEN /\ consumed' = [c \in Colors |-> consumed[c] + Reservation(o)[c]]
            /\ reserved' = DropReservation(o)
       ELSE UNCHANGED <<consumed, reserved>>
    /\ UNCHANGED <<stock, forSale, price, cart, line, charged, supply, pc, lock,
                   want, todo, draft, target, outcome>>

\* The customer's cancel_purchase_order needs a pending order; an administrator
\* updates the row from any state.  The trigger's UPDATE then locks the colours.
Cancellable(o) == orderState[o] \notin {"none", "cancelled"}

StartCancel(t, o) ==
    /\ Go(t, "idle", "returning")
    /\ Cancellable(o) /\ ~Settling(o)
    /\ target' = [target EXCEPT ![t] = o]
    /\ want' = [want EXCEPT ![t] = Lines(Reservation(o))]
    /\ UNCHANGED <<tables, lock, todo, draft, outcome>>

Returned_Ordered(o) == SoldBy(o[2], line[o[1]])
Returned(o) == Reservation(o)
ReservedAfter_Kept(o) == reserved
ReservedAfter(o) == DropReservation(o)

CommitCancel(t) ==
    /\ pc[t] = "returning" /\ want[t] = {}
    /\ LET o == target[t] IN
       /\ stock' = [c \in Colors |-> stock[c] + Returned(o)[c]]
       /\ reserved' = ReservedAfter(o)
       /\ orderState' = [orderState EXCEPT ![o] = "cancelled"]
    /\ End(t, "settled")
    /\ UNCHANGED <<forSale, price, cart, line, charged, consumed, supply>>

\* An administrator puts a cancelled order back: a plain UPDATE, no trigger.
Reopen(o) ==
    /\ orderState[o] = "cancelled" /\ ~Settling(o)
    /\ orderState' = [orderState EXCEPT ![o] = "pending"]
    /\ UNCHANGED <<stock, forSale, price, cart, line, charged, reserved, consumed,
                   supply, pc, lock, want, todo, draft, target, outcome>>

-----------------------------------------------------------------------------
(* The database ends a transaction, and the other users of the catalogue   *)

Waits(t, u) ==
    /\ u # t
    /\ \E c \in NextColours(t) : Conflict(lock[u][c], LockMode(t))

\* A cycle of waits within D.
Deadlocked(D) == D # {} /\ \A t \in D : \E u \in D : Waits(t, u)

DeadlockAbort(t) ==
    /\ \E D \in SUBSET Tx : t \in D /\ Deadlocked(D)
    /\ Abort(t, "deadlock")

\* statement_timeout, a lost connection, a server restart.
Fail(t) == InFlight(t) /\ Abort(t, "aborted")

\* Edits of cart_line through the Data API, by the customer's own session.
MayEdit(b) == QuietCart => \A t \in Checkouts : Buyer[t] = b => ~InFlight(t)

EditCart(b, c, q) ==
    /\ MayEdit(b)
    /\ cart' = [cart EXCEPT ![b][c] = q]
    /\ UNCHANGED <<stock, forSale, price, orderState, line, charged, reserved,
                   consumed, supply, pc, lock, want, todo, draft, target, outcome>>

\* The insert policy wants a colour for sale and in stock; the foreign key takes
\* FOR KEY SHARE on the colour, so it waits while a checkout holds FOR UPDATE.
InsertLine(b, c, q) ==
    /\ cart[b][c] = 0 /\ q > 0 /\ forSale[c] /\ stock[c] > 0
    /\ \A t \in Tx : ~Conflict(lock[t][c], "keyshare")
    /\ EditCart(b, c, q)

\* Only the quantity of a line can be updated, and nothing is rechecked.
ChangeQuantity(b, c, q) == cart[b][c] \notin {0, q} /\ q > 0 /\ EditCart(b, c, q)

DeleteLine(b, c) == cart[b][c] > 0 /\ EditCart(b, c, 0)

AllButCatalogue == <<cart, orderState, line, charged, reserved, consumed, pc,
                     lock, want, todo, draft, target, outcome>>

\* product, marketplace_party and category are never locked by place_order.
SetForSale(c) ==
    /\ c \in Withdrawable
    /\ forSale' = [forSale EXCEPT ![c] = ~@]
    /\ UNCHANGED <<AllButCatalogue, stock, price, supply>>

SetPrice(c, p) ==
    /\ p # price[c]
    /\ price' = [price EXCEPT ![c] = p]
    /\ UNCHANGED <<AllButCatalogue, stock, forSale, supply>>

\* The seller overwrites stock_quantity; the update waits for the row.
Restock(c, n) ==
    /\ c \in Restocked /\ n # stock[c]
    /\ \A t \in Tx : ~Conflict(lock[t][c], "nokey")
    /\ stock' = [stock EXCEPT ![c] = n]
    /\ supply' = [supply EXCEPT ![c] = (@ + n) - stock[c]]
    /\ UNCHANGED <<AllButCatalogue, forSale, price>>

-----------------------------------------------------------------------------
Checkout(t) ==
    \/ Begin(t)
    \/ CartEmpty(t)
    \/ LockColours(t)
    \/ CheckForSale(t)
    \/ CheckStock(t)
    \/ OpenLoop(t)
    \/ \E s \in Sellers : InsertLines(t, s)
    \/ \E s \in Sellers : InsertReservation(t, s)
    \/ UpdateStock(t)
    \/ StockCheckFails(t)
    \/ Commit(t)

\* Steps the database takes by itself for a transaction under way.
Step(t) == (t \in Checkouts /\ Checkout(t)) \/ (t \in Settlements /\ CommitCancel(t))
              \/ \E c \in Colors : Acquire(t, c)
Progress(t) == InFlight(t) /\ Step(t)

Environment ==
    \/ \E b \in Customers, c \in Colors, q \in 1 .. MaxQty :
          InsertLine(b, c, q) \/ ChangeQuantity(b, c, q)
    \/ \E b \in Customers, c \in Colors : DeleteLine(b, c)
    \/ \E c \in Colors : SetForSale(c)
    \/ \E c \in Colors, p \in Prices : SetPrice(c, p)
    \/ \E c \in Colors, n \in 0 .. MaxStock : Restock(c, n)

Next ==
    \/ \E t \in Checkouts : Checkout(t)
    \/ \E t \in Checkouts, e \in Outcomes : RejectCaller(t, e)
    \/ \E t \in Settlements, o \in Orders : StartCancel(t, o)
    \/ \E t \in Settlements : CommitCancel(t)
    \/ \E t \in Tx, c \in Colors : Acquire(t, c)
    \/ \E t \in Tx : DeadlockAbort(t)
    \/ \E t \in Tx : Fail(t)
    \/ \E o \in Orders : Advance(o)
    \/ \E o \in Orders : Reopen(o)
    \/ Environment

Spec == Init /\ [][Next]_vars

-----------------------------------------------------------------------------
(* What checkout promises                                                  *)

OpenStates == OrderStates \ {"delivered", "cancelled"}

\* Units of colour c that the orders of all calls have reserved.
ReservedUnits(c) == MapThenSumSet(LAMBDA t : reserved[t][c], Checkouts)

\* No unit is lost or returned twice: what the sellers put on the shelf is on the
\* shelf, reserved by an open order, or gone with a delivered one.  (Reservations
\* are deleted as they are returned; a delivered order keeps its stock consumed.)
UnitsConserved ==
    \A c \in Colors : stock[c] + ReservedUnits(c) + consumed[c] = supply[c]

\* A reservation is exactly what its order sells ...
ReservationMatchesOrder ==
    \A t \in Checkouts, c \in Colors : reserved[t][c] \in {0, line[t][c]}

\* ... and only an order still open has one: a delivered order's is dropped, a
\* cancelled order's is returned, and neither comes back if the order is reopened.
OnlyOpenOrdersReserve ==
    \A t \in Checkouts, c \in Colors :
        reserved[t][c] # 0 => orderState[<<t, SellerOf[c]>>] \in OpenStates

\* One order for each seller the lines name, and no order without a line.
OneOrderPerSeller ==
    \A t \in Checkouts, s \in Sellers :
        orderState[<<t, s>>] # "none" <=> \E c \in Lines(line[t]) : SellerOf[c] = s

\* The stock a checkout found sufficient is still there when it takes it: the
\* CHECK constraint on stock_quantity, which place_order does not handle and the
\* app has no message for, is never what stops it.
NeverOversells == \A t \in Checkouts : outcome[t] # "check_violation"

\* place_order locks in id order, so no set of checkouts wait for each other.
NoCheckoutDeadlock == \A D \in SUBSET Checkouts : ~Deadlocked(D)

\* A call that returns orders took the whole cart, as it is at that moment, into
\* lines, reservations and stock, and left the cart empty.
PlacesWholeCart ==
    [][\A t \in Checkouts : outcome[t] # "placed" /\ outcome'[t] = "placed" =>
          /\ line'[t] = MyCart(t)
          /\ reserved'[t] = MyCart(t)
          /\ stock' = [c \in Colors |-> stock[c] - MyCart(t)[c]]
          /\ cart' = [cart EXCEPT ![Buyer[t]] = Zero]]_vars

\* With quiet carts the interleaved transactions implement the atomic checkout:
\* every step is one of its steps or changes nothing it speaks of.
Atomic == INSTANCE AtomicCheckout WITH
              outcome <- [t \in Checkouts |-> outcome[t]]
ImplementsAtomicCheckout == Atomic!ASpec

\* Migration comment: prices "come only from the catalogue, read under a row lock".
\* A price written to a draft line is the catalogue's until the order is placed.
PricesReadUnderLock ==
    \A t \in Checkouts : \A c \in Lines(draft[t].line) :
        draft[t].charged[c] = price[c]

\* docs/flutter-integration.md: a checkout with nothing to order throws cart_empty;
\* one that succeeds created an order.
PlacedMeansOrdered ==
    \A t \in Checkouts :
        outcome[t] = "placed" => \E s \in Sellers : orderState[<<t, s>>] # "none"

\* The database keeps running the statements of a transaction under way and
\* breaks the cycles of waits it detects; nothing else is promised.
Fairness ==
    /\ \A t \in Tx : WF_vars(Progress(t))
    /\ \A t \in Tx : WF_vars(DeadlockAbort(t))
FairSpec == Spec /\ Fairness

\* A checkout or a cancellation that started ends, whatever it had to wait for.
EveryCallEnds == \A t \in Tx : InFlight(t) ~> pc[t] = "done"
=============================================================================
