--------------------------- MODULE AtomicCheckout ---------------------------
(***************************************************************************)
(* What checkout promises its users: a call either places one order per    *)
(* seller for exactly the cart it finds, in one step, or changes nothing;  *)
(* a cancellation returns exactly what the order still reserves, in one    *)
(* step.  No locks, no statements, no drafts.  Checkout implements it when *)
(* customers leave their carts alone during their own checkouts.           *)
(***************************************************************************)
EXTENDS Integers

CONSTANTS Checkouts, Customers, Sellers, Colors, Buyer, SellerOf, MaxQty

VARIABLES stock, cart, orderState, line, reserved, outcome

avars == <<stock, cart, orderState, line, reserved, outcome>>

AOrders == Checkouts \X Sellers
Nothing == [c \in Colors |-> 0]
PartOf(s, q) == [c \in Colors |-> IF SellerOf[c] = s THEN q[c] ELSE 0]
Without(s, q) == [c \in Colors |-> IF SellerOf[c] = s THEN 0 ELSE q[c]]

AInit ==
    /\ stock \in [Colors -> Nat]
    /\ cart = [b \in Customers |-> Nothing]
    /\ orderState = [o \in AOrders |-> "none"]
    /\ line = [t \in Checkouts |-> Nothing]
    /\ reserved = [t \in Checkouts |-> Nothing]
    /\ outcome = [t \in Checkouts |-> "none"]

Place(t) == LET asked == cart[Buyer[t]] IN
    /\ outcome[t] = "none"
    /\ \A c \in Colors : asked[c] <= stock[c]
    /\ stock' = [c \in Colors |-> stock[c] - asked[c]]
    /\ cart' = [cart EXCEPT ![Buyer[t]] = Nothing]
    /\ orderState' = [o \in AOrders |->
           IF o[1] = t /\ \E c \in Colors : SellerOf[c] = o[2] /\ asked[c] > 0
           THEN "pending" ELSE orderState[o]]
    /\ line' = [line EXCEPT ![t] = asked]
    /\ reserved' = [reserved EXCEPT ![t] = asked]
    /\ outcome' = [outcome EXCEPT ![t] = "placed"]

Refuse(t) ==
    /\ outcome[t] = "none"
    /\ outcome'[t] \notin {"none", "placed"}
    /\ outcome' = [outcome EXCEPT ![t] = outcome'[t]]
    /\ UNCHANGED <<stock, cart, orderState, line, reserved>>

\* Returns what the order reserves; nothing the second time, nor once delivered.
Cancel(o) ==
    /\ orderState[o] \notin {"none", "cancelled"}
    /\ orderState' = [orderState EXCEPT ![o] = "cancelled"]
    /\ stock' = [c \in Colors |-> stock[c] + PartOf(o[2], reserved[o[1]])[c]]
    /\ reserved' = [reserved EXCEPT ![o[1]] = Without(o[2], @)]
    /\ UNCHANGED <<cart, line, outcome>>

Deliver(o) ==
    /\ orderState[o] = "out_for_delivery"
    /\ orderState' = [orderState EXCEPT ![o] = "delivered"]
    /\ reserved' = [reserved EXCEPT ![o[1]] = Without(o[2], @)]
    /\ UNCHANGED <<stock, cart, line, outcome>>

\* Every other transition of an existing order leaves stock and reservations.
Relabel(o) ==
    /\ <<orderState[o], orderState'[o]>> \in
           {<<"pending", "confirmed">>, <<"confirmed", "preparing">>,
            <<"preparing", "out_for_delivery">>, <<"cancelled", "pending">>}
    /\ orderState' = [orderState EXCEPT ![o] = orderState'[o]]
    /\ UNCHANGED <<stock, cart, line, reserved, outcome>>

FillCart(b) ==
    /\ \E c \in Colors, q \in 0 .. MaxQty : cart' = [cart EXCEPT ![b][c] = q]
    /\ UNCHANGED <<stock, orderState, line, reserved, outcome>>

SetStock(c) ==
    /\ stock'[c] \in Nat
    /\ stock' = [stock EXCEPT ![c] = stock'[c]]
    /\ UNCHANGED <<cart, orderState, line, reserved, outcome>>

ANext ==
    \/ \E t \in Checkouts : Place(t) \/ Refuse(t)
    \/ \E o \in AOrders : Cancel(o) \/ Deliver(o) \/ Relabel(o)
    \/ \E b \in Customers : FillCart(b)
    \/ \E c \in Colors : SetStock(c)

ASpec == AInit /\ [][ANext]_avars
=============================================================================
