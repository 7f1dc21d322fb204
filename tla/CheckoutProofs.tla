--------------------------- MODULE CheckoutProofs ---------------------------
(***************************************************************************)
(* Proofs about Checkout.  TypeOK, the exclusion of row locks and that     *)
(* closed orders reserve nothing hold whatever the customers do; the rest  *)
(* assumes QuietCart, without which TLC finds it violated.                 *)
(***************************************************************************)
EXTENDS Checkout, CollectionFacts, TLAPS

\* Phases after all locks are taken, after the stock check, inside the writes.
AfterLocks == {"locked", "instock", "loop", "lines", "taking"}
AfterCheck == {"instock", "loop", "lines", "taking"}
Writing == {"loop", "lines", "taking"}

\* No two transactions hold conflicting locks on a colour.
LocksExclude ==
    \A t, u \in Tx, c \in Colors : t # u => ~Conflict(lock[t][c], lock[u][c])

\* A call past its first statement has locked, or is about to lock, every colour
\* of the cart: nothing can be sold under it.
HoldsCart(t) ==
    /\ pc[t] = "locking" =>
          \A c \in Colors : MyCart(t)[c] > 0 => c \in want[t] \/ lock[t][c] = "update"
    /\ pc[t] \in AfterLocks =>
          /\ want[t] = {}
          /\ \A c \in Colors : MyCart(t)[c] > 0 => lock[t][c] = "update"

\* The stock check still holds until the stock is taken.
StockSuffices(t) ==
    pc[t] \in AfterCheck => \A c \in Colors : MyCart(t)[c] <= stock[c]

\* The draft is the cart, restricted to the sellers visited so far.
DraftIsCart(t) ==
    /\ pc[t] \notin Writing => draft[t] = NoDraft
    /\ pc[t] \in Writing =>
          /\ \A c \in Colors : draft[t].line[c] =
                IF SellerOf[c] \in draft[t].sellers THEN MyCart(t)[c] ELSE 0
          /\ \A c \in Colors : draft[t].reserved[c] =
                IF SellerOf[c] \in draft[t].sellers \ todo[t] THEN MyCart(t)[c] ELSE 0
          /\ \A c \in Colors : MyCart(t)[c] > 0 =>
                SellerOf[c] \in draft[t].sellers \cup todo[t]
          /\ \A s \in draft[t].sellers \cup todo[t] :
                \E c \in Colors : SellerOf[c] = s /\ MyCart(t)[c] > 0
    /\ pc[t] = "taking" => todo[t] = {} /\ draft[t].taken = MyCart(t)

\* A call that has not ended has no order yet.
NoOrderYet(t) ==
    pc[t] # "done" => /\ line[t] = Zero
                      /\ \A s \in Sellers : orderState[<<t, s>>] = "none"

\* The order a transaction is cancelling was placed.
TargetsExist ==
    \A t \in Settlements : pc[t] = "returning" => orderState[target[t]] # "none"

CallInv(t) == HoldsCart(t) /\ StockSuffices(t) /\ DraftIsCart(t) /\ NoOrderYet(t)

IInv ==
    /\ TypeOK
    /\ LocksExclude
    /\ TargetsExist
    /\ \A t \in Checkouts : CallInv(t)
    /\ ReservationMatchesOrder
    /\ OneOrderPerSeller
    /\ NeverOversells

-----------------------------------------------------------------------------
(* Type correctness                                                        *)

LEMMA ZeroType == Zero \in Quantities /\ NoDraft \in Drafts
  BY CheckoutAssumption DEF Zero, Quantities, NoDraft, Draft, Drafts

\* The operators on the quantities of one seller return quantities.
LEMMA PartTypes ==
    ASSUME NEW s, NEW q \in Quantities, NEW rows \in Quantities
    PROVE  /\ SoldBy(s, q) \in Quantities
           /\ Write(rows, s, q) \in Quantities
  BY CheckoutAssumption DEF SoldBy, Write, Quantities

LEMMA InitTypeOK == Init => TypeOK
  <1> SUFFICES ASSUME Init PROVE TypeOK
    OBVIOUS
  <1>1. 0 .. MaxStock \subseteq Nat
    BY CheckoutAssumption
  <1> QED
    BY <1>1, ZeroType, CheckoutAssumption
    DEF Init, TypeOK, Tx, Phases, Modes, Outcomes, Zero, Quantities

\* Ending a transaction keeps the types of what it does not publish.
LEMMA EndType ==
    ASSUME TypeOK, NEW t \in Tx, NEW r \in Outcomes, End(t, r)
    PROVE  /\ pc' \in [Tx -> Phases]
           /\ lock' \in [Tx -> [Colors -> Modes]]
           /\ want' \in [Tx -> SUBSET Colors]
           /\ todo' \in [Tx -> SUBSET Sellers]
           /\ draft' \in [Checkouts -> Drafts]
           /\ target' \in [Settlements -> Orders \cup {NoOrder}]
           /\ \A u \in Settlements : pc'[u] = "returning" => target'[u] \in Orders
           /\ outcome' \in [Tx -> Outcomes]
  BY ZeroType DEF End, Released, TypeOK, Phases, Modes

LEMMA AbortType ==
    ASSUME TypeOK, NEW t \in Tx, NEW r \in Outcomes, Abort(t, r)
    PROVE  TypeOK'
  BY EndType DEF Abort, tables, TypeOK

\* Moving on to the next statement keeps the types of what moves.
LEMMA GoType ==
    ASSUME TypeOK, NEW t \in Tx, NEW from, NEW to \in Phases \ {"returning"},
           Go(t, from, to), target' = target
    PROVE  /\ pc' \in [Tx -> Phases]
           /\ \A u \in Settlements : pc'[u] = "returning" => target'[u] \in Orders
<1> \A u \in Settlements : u \in Tx
  BY DEF Tx
<1> QED
  BY DEF Go, TypeOK

\* A statement of place_order that writes nothing but this call's own state.
LEMMA CallType ==
    ASSUME TypeOK, NEW t \in Checkouts, Checkout(t) \/ \E c \in Colors : Acquire(t, c)
    PROVE  TypeOK'
<1> USE CheckoutAssumption
<1>t. t \in Tx
  BY DEF Tx
<1>q. MyCart(t) \in Quantities /\ Lines(MyCart(t)) \subseteq Colors
  BY DEF TypeOK, MyCart, Lines
<1>1. CASE Begin(t)
  BY <1>1, <1>t, GoType DEF Begin, tables, TypeOK, Phases
<1>2. CASE CartEmpty(t)
  BY <1>2, <1>t, AbortType DEF CartEmpty, Outcomes
<1>3. CASE LockColours(t)
  BY <1>3, <1>q, <1>t, GoType DEF LockColours, ColoursToLock, tables, TypeOK, Phases
<1>4. CASE CheckForSale(t)
  <2>1. CASE Unavailable(t) # {}
    BY <1>4, <2>1, <1>t, AbortType DEF CheckForSale, Outcomes
  <2>2. CASE Unavailable(t) = {}
    BY <1>4, <2>2, <1>t, GoType DEF CheckForSale, tables, TypeOK, Phases
  <2> QED BY <2>1, <2>2
<1>5. CASE CheckStock(t)
  <2>1. CASE Short(t) # {}
    BY <1>5, <2>1, <1>t, AbortType DEF CheckStock, Outcomes
  <2>2. CASE Short(t) = {}
    BY <1>5, <2>2, <1>t, GoType DEF CheckStock, tables, TypeOK, Phases
  <2> QED BY <2>1, <2>2
<1>6. CASE OpenLoop(t)
  <2>1. LoopSellers(t) \in SUBSET Sellers
    BY <1>q DEF LoopSellers
  <2> QED BY <1>6, <2>1, <1>t, GoType DEF OpenLoop, tables, TypeOK, Phases
<1>7. ASSUME NEW s \in Sellers, InsertLines(t, s) PROVE TypeOK'
  <2> DEFINE added == SoldBy(s, MyCart(t))
             costs == [c \in Colors |-> IF added[c] > 0 THEN price[c] ELSE 0]
             lines == Write(draft[t].line, s, added)
             paid == Write(draft[t].charged, s, costs)
  <2>1. draft[t] \in Drafts
    BY DEF TypeOK
  <2>2. added \in Quantities /\ lines \in Quantities
    BY <2>1, <1>q, PartTypes DEF Drafts
  <2>3. paid \in [Colors -> Prices \cup {0}]
    BY <2>1 DEF Write, Drafts, TypeOK
  <2>4. draft' = [draft EXCEPT ![t] = Draft(draft[t].sellers \cup {s}, lines, paid,
                                            draft[t].reserved, draft[t].taken)]
    BY <1>7 DEF InsertLines
  <2>5. draft' \in [Checkouts -> Drafts]
    <3> HIDE DEF lines, paid
    <3> QED BY <2>1, <2>2, <2>3, <2>4 DEF TypeOK, Drafts, Draft
  <2>6. Lines(added) \ Held(t) \in SUBSET Colors
    BY DEF Lines
  <2> QED
    BY <1>7, <2>5, <2>6, <1>t, GoType DEF InsertLines, tables, TypeOK, Phases
<1>8. ASSUME NEW s \in Sellers, InsertReservation(t, s) PROVE TypeOK'
  <2> DEFINE rows == Write(draft[t].reserved, s, ToReserve(t, s))
  <2>1. draft[t] \in Drafts
    BY DEF TypeOK
  <2>2. rows \in Quantities
    BY <2>1, <1>q, PartTypes DEF Drafts, ToReserve
  <2>3. draft' = [draft EXCEPT ![t] = Draft(draft[t].sellers, draft[t].line,
                                 draft[t].charged, rows, draft[t].taken)]
    BY <1>8 DEF InsertReservation
  <2>4. draft' \in [Checkouts -> Drafts]
    <3> HIDE DEF rows
    <3> QED BY <2>1, <2>2, <2>3 DEF TypeOK, Drafts, Draft
  <2>5. Lines(ToReserve(t, s)) \ Held(t) \in SUBSET Colors
    BY DEF Lines
  <2>6. Visited(t, s) \in SUBSET Sellers
    BY <1>t DEF Visited, TypeOK
  <2> QED
    BY <1>8, <2>4, <2>5, <2>6, <1>t, GoType DEF InsertReservation, tables, TypeOK, Phases
<1>9. CASE UpdateStock(t)
  <2>1. draft[t] \in Drafts
    BY DEF TypeOK
  <2>2. draft' \in [Checkouts -> Drafts]
    BY <1>9, <2>1, <1>q DEF UpdateStock, TypeOK, Drafts, Draft
  <2>3. {c \in Lines(MyCart(t)) : lock[t][c] # "update"} \in SUBSET Colors
    BY <1>q
  <2> QED BY <1>9, <2>2, <2>3, <1>t, GoType DEF UpdateStock, tables, TypeOK, Phases
<1>10. CASE StockCheckFails(t)
  BY <1>10, <1>t, AbortType DEF StockCheckFails, Outcomes
<1>11. CASE Commit(t)
  <2>1. draft[t] \in Drafts
    BY DEF TypeOK
  <2>2. stock' \in [Colors -> Nat]
    <3>1. \A c \in Colors : draft[t].taken[c] \in Nat /\ draft[t].taken[c] <= stock[c]
      BY <1>11, <2>1 DEF Commit, Overdrawn, Drafts, Quantities, TypeOK
    <3> QED BY <1>11, <3>1 DEF Commit, TypeOK
  <2>3. /\ line' \in [Checkouts -> Quantities]
        /\ reserved' \in [Checkouts -> Quantities]
        /\ charged' \in [Checkouts -> [Colors -> Prices \cup {0}]]
    BY <1>11, <2>1 DEF Commit, TypeOK, Drafts
  <2>4. cart' \in [Customers -> Quantities]
    BY <1>11, ZeroType DEF Commit, CartAfter, TypeOK
  <2>5. orderState' \in [Orders -> OrderStates \cup {"none"}]
    BY <1>11 DEF Commit, TypeOK, OrderStates
  <2>6. "placed" \in Outcomes /\ End(t, "placed")
    BY <1>11 DEF Commit, Outcomes
  <2> QED
    BY <1>11, <2>2, <2>3, <2>4, <2>5, <2>6, <1>t, EndType DEF Commit, TypeOK
<1>12. ASSUME NEW c \in Colors, Acquire(t, c) PROVE TypeOK'
  BY <1>12, <1>t DEF Acquire, LockMode, tables, TypeOK, Modes
<1> QED
  BY <1>1, <1>2, <1>3, <1>4, <1>5, <1>6, <1>7, <1>8, <1>9, <1>10, <1>11, <1>12
  DEF Checkout

\* The transitions of an order, and the rest of the world.
LEMMA OtherType ==
    ASSUME TypeOK,
           \/ \E t \in Settlements, o \in Orders : StartCancel(t, o)
           \/ \E t \in Settlements : CommitCancel(t)
           \/ \E o \in Orders : Advance(o) \/ Reopen(o)
           \/ Environment
    PROVE  TypeOK'
<1> USE CheckoutAssumption
<1>r. ASSUME NEW o \in Orders
      PROVE  /\ Reservation(o) \in Quantities
             /\ DropReservation(o) \in [Checkouts -> Quantities]
  <2>1. reserved[o[1]] \in Quantities /\ o[1] \in Checkouts
    BY DEF TypeOK, Orders
  <2>2. Reservation(o) \in Quantities /\ Write(reserved[o[1]], o[2], Zero) \in Quantities
    BY <2>1, PartTypes, ZeroType DEF Reservation
  <2> QED BY <2>1, <2>2 DEF DropReservation, TypeOK
<1>n. Quantities \subseteq [Colors -> Nat]
  BY DEF Quantities
<1>1. ASSUME NEW t \in Settlements, NEW o \in Orders, StartCancel(t, o) PROVE TypeOK'
  BY <1>1 DEF StartCancel, Go, Lines, tables, TypeOK, Phases, Tx
<1>2. ASSUME NEW t \in Settlements, CommitCancel(t) PROVE TypeOK'
  <2>1. CASE target[t] \in Orders
    <3>1. stock' \in [Colors -> Nat] /\ reserved' \in [Checkouts -> Quantities]
      BY <1>2, <1>n, <2>1, <1>r DEF CommitCancel, Returned, ReservedAfter, TypeOK
    <3>2. orderState' \in [Orders -> OrderStates \cup {"none"}]
      BY <1>2 DEF CommitCancel, TypeOK, OrderStates
    <3>3. t \in Tx /\ "settled" \in Outcomes /\ End(t, "settled")
      BY <1>2 DEF CommitCancel, Outcomes, Tx
    <3> QED
      BY <1>2, <3>1, <3>2, <3>3, EndType DEF CommitCancel, TypeOK
  <2> QED BY <1>2, <2>1 DEF CommitCancel, TypeOK
<1>3. ASSUME NEW o \in Orders, Advance(o) PROVE TypeOK'
  <2>1. orderState' \in [Orders -> OrderStates \cup {"none"}]
    BY <1>3 DEF Advance, NextState, TypeOK, OrderStates
  <2>2. consumed' \in [Colors -> Nat] /\ reserved' \in [Checkouts -> Quantities]
    BY <1>3, <1>n, <1>r DEF Advance, TypeOK
  <2> QED BY <1>3, <2>1, <2>2 DEF Advance, TypeOK
<1>4. ASSUME NEW o \in Orders, Reopen(o) PROVE TypeOK'
  BY <1>4 DEF Reopen, TypeOK, OrderStates
<1>5. ASSUME NEW b \in Customers, NEW c \in Colors, NEW q \in 0 .. MaxQty, EditCart(b, c, q)
      PROVE  TypeOK'
  BY <1>5 DEF EditCart, TypeOK, Quantities
<1>6. ASSUME NEW c \in Colors, SetForSale(c) PROVE TypeOK'
  BY <1>6 DEF SetForSale, AllButCatalogue, TypeOK
<1>7. ASSUME NEW c \in Colors, NEW p \in Prices, SetPrice(c, p) PROVE TypeOK'
  BY <1>7 DEF SetPrice, AllButCatalogue, TypeOK
<1>8. ASSUME NEW c \in Colors, NEW n \in 0 .. MaxStock, Restock(c, n) PROVE TypeOK'
  BY <1>8 DEF Restock, AllButCatalogue, TypeOK
<1>9. CASE Environment
  BY <1>5, <1>6, <1>7, <1>8, <1>9 DEF Environment, InsertLine, ChangeQuantity, DeleteLine
<1> QED
  BY <1>1, <1>2, <1>3, <1>4, <1>9

LEMMA NextTypeOK == TypeOK /\ [Next]_vars => TypeOK'
<1> SUFFICES ASSUME TypeOK, [Next]_vars PROVE TypeOK'
  OBVIOUS
<1>1. ASSUME NEW t \in Settlements, NEW c \in Colors, Acquire(t, c) PROVE TypeOK'
  BY <1>1 DEF Acquire, LockMode, tables, TypeOK, Modes, Tx
<1>2. ASSUME NEW t \in Checkouts, NEW e \in Outcomes, RejectCaller(t, e) PROVE TypeOK'
  BY <1>2, AbortType DEF RejectCaller, Tx
<1>3. ASSUME NEW t \in Tx, DeadlockAbort(t) \/ Fail(t) PROVE TypeOK'
  BY <1>3, AbortType DEF DeadlockAbort, Fail, Outcomes
<1>4. CASE UNCHANGED vars
  BY <1>4 DEF vars, TypeOK
<1> QED
  BY <1>1, <1>2, <1>3, <1>4, CallType, OtherType DEF Next, Tx

\* Every table and every transaction keeps its type: stock never goes below zero,
\* an order is always in a state of order_state.
THEOREM TypeCorrect == Spec => []TypeOK
  BY InitTypeOK, NextTypeOK, PTL DEF Spec

-----------------------------------------------------------------------------
(* Row locks exclude each other                                            *)

LEMMA NextLocksExclude == TypeOK /\ LocksExclude /\ [Next]_vars => LocksExclude'
<1> SUFFICES ASSUME TypeOK, LocksExclude, [Next]_vars PROVE LocksExclude'
  OBVIOUS
<1>1. ASSUME NEW t \in Tx, NEW c \in Colors, Acquire(t, c) PROVE LocksExclude'
  <2>1. lock' = [lock EXCEPT ![t][c] = LockMode(t)] /\ Free(t, c, LockMode(t))
    BY <1>1 DEF Acquire
  <2>2. \A u \in Tx, d \in Colors :
            lock'[u][d] = IF u = t /\ d = c THEN LockMode(t) ELSE lock[u][d]
    BY <2>1 DEF TypeOK
  <2> QED BY <2>1, <2>2 DEF LocksExclude, Free, Conflict
<1>2. ASSUME NEW t \in Tx, NEW r, End(t, r) PROVE LocksExclude'
  <2>1. \A u \in Tx, d \in Colors :
            lock'[u][d] = IF u = t THEN "none" ELSE lock[u][d]
    BY <1>2 DEF End, Released, TypeOK
  <2> QED BY <2>1 DEF LocksExclude, Conflict
<1>3. CASE UNCHANGED lock
  BY <1>3 DEF LocksExclude
<1>4. ASSUME NEW t \in Checkouts, Checkout(t) PROVE LocksExclude'
  BY <1>2, <1>3, <1>4 DEF Checkout, Begin, CartEmpty, LockColours, CheckForSale,
     CheckStock, OpenLoop, InsertLines, InsertReservation, UpdateStock,
     StockCheckFails, Commit, Abort, Tx
<1>5. CASE Environment
  BY <1>3, <1>5 DEF Environment, InsertLine, ChangeQuantity, DeleteLine, EditCart,
     SetForSale, SetPrice, Restock, AllButCatalogue
<1>6. CASE UNCHANGED vars
  BY <1>3, <1>6 DEF vars
<1>7. ASSUME NEW t \in Checkouts, NEW e \in Outcomes, RejectCaller(t, e) PROVE LocksExclude'
  BY <1>2, <1>7 DEF RejectCaller, Abort, Tx
<1>8. ASSUME NEW t \in Settlements, CommitCancel(t) PROVE LocksExclude'
  BY <1>2, <1>8 DEF CommitCancel, Tx
<1>9. ASSUME NEW t \in Settlements, NEW o \in Orders, StartCancel(t, o) PROVE LocksExclude'
  BY <1>3, <1>9 DEF StartCancel
<1>10. ASSUME NEW t \in Tx, DeadlockAbort(t) \/ Fail(t) PROVE LocksExclude'
  BY <1>2, <1>10 DEF DeadlockAbort, Fail, Abort
<1>11. ASSUME NEW o \in Orders, Advance(o) \/ Reopen(o) PROVE LocksExclude'
  BY <1>3, <1>11 DEF Advance, Reopen
<1> QED
  BY <1>1, <1>4, <1>5, <1>6, <1>7, <1>8, <1>9, <1>10, <1>11 DEF Next

\* Whatever the customers do, no two transactions hold conflicting row locks.
THEOREM LockExclusion == Spec => []LocksExclude
<1>1. Init => LocksExclude
  BY DEF Init, LocksExclude, Conflict
<1> QED BY <1>1, InitTypeOK, NextTypeOK, NextLocksExclude, PTL DEF Spec

\* An order that exists never stops existing, and a target is never swapped.
LEMMA NextTargetsExist == TypeOK /\ TargetsExist /\ [Next]_vars => TargetsExist'
<1> SUFFICES ASSUME TypeOK, TargetsExist, [Next]_vars,
                    NEW t \in Settlements, pc'[t] = "returning"
             PROVE  orderState'[target'[t]] # "none"
  BY DEF TargetsExist
<1> USE CheckoutAssumption
<1>t. t \in Tx /\ t \notin Checkouts
  BY DEF Tx
<1>o. pc[t] = "returning" => target[t] \in Orders /\ orderState[target[t]] # "none"
  BY DEF TypeOK, TargetsExist
<1>1. CASE pc[t] = pc'[t] /\ target'[t] = target[t] /\ UNCHANGED orderState
  BY <1>1, <1>o
<1>2. ASSUME NEW u \in Tx, NEW r, End(u, r) PROVE pc[t] = pc'[t] /\ target'[t] = target[t]
  BY <1>2, <1>t DEF End, TypeOK
<1>3. ASSUME NEW u \in Tx, NEW r, Abort(u, r) PROVE orderState'[target'[t]] # "none"
  BY <1>1, <1>2, <1>3 DEF Abort, tables
<1>4. ASSUME NEW u \in Checkouts, Checkout(u) PROVE orderState'[target'[t]] # "none"
  <2>u. u \in Tx /\ u # t
    BY <1>t DEF Tx
  <2>1. CASE Commit(u)
    <3>1. pc[t] = pc'[t] /\ target'[t] = target[t]
      BY <1>2, <2>u, <2>1 DEF Commit
    <3>2. orderState'[target[t]] = "pending" \/ orderState'[target[t]] = orderState[target[t]]
      BY <2>1, <1>o, <3>1 DEF Commit
    <3> QED BY <1>o, <3>1, <3>2
  <2>2. CASE CheckForSale(u)
    BY <1>1, <1>3, <1>t, <2>u, <2>2 DEF CheckForSale, Go, TypeOK, tables
  <2>3. CASE CheckStock(u)
    BY <1>1, <1>3, <1>t, <2>u, <2>3 DEF CheckStock, Go, TypeOK, tables
  <2>4. CASE CartEmpty(u) \/ StockCheckFails(u)
    BY <1>3, <2>u, <2>4 DEF CartEmpty, StockCheckFails
  <2>5. CASE Begin(u) \/ LockColours(u) \/ OpenLoop(u) \/ UpdateStock(u)
    BY <1>1, <1>t, <2>u, <2>5 DEF Begin, LockColours, OpenLoop, UpdateStock, Go, TypeOK, tables
  <2>6. ASSUME NEW s \in Sellers, InsertLines(u, s) \/ InsertReservation(u, s)
        PROVE  orderState'[target'[t]] # "none"
    BY <1>1, <1>t, <2>u, <2>6 DEF InsertLines, InsertReservation, Go, TypeOK, tables
  <2> QED BY <1>4, <2>1, <2>2, <2>3, <2>4, <2>5, <2>6 DEF Checkout
<1>5. ASSUME NEW u \in Settlements, NEW o \in Orders, StartCancel(u, o)
      PROVE  orderState'[target'[t]] # "none"
  BY <1>5, <1>o, <1>t DEF StartCancel, Go, Cancellable, TypeOK, tables, Tx
<1>6. ASSUME NEW u \in Settlements, CommitCancel(u) PROVE orderState'[target'[t]] # "none"
  <2>1. u \in Tx /\ pc[t] = pc'[t] /\ target'[t] = target[t]
    BY <1>2, <1>6 DEF CommitCancel, Tx
  <2>2. orderState'[target[t]] = "cancelled" \/ orderState'[target[t]] = orderState[target[t]]
    BY <1>6, <1>o, <2>1 DEF CommitCancel, TypeOK
  <2> QED BY <1>o, <2>1, <2>2
<1>7. ASSUME NEW o \in Orders, Advance(o) \/ Reopen(o) PROVE orderState'[target'[t]] # "none"
  <2>1. pc[t] = pc'[t] /\ target'[t] = target[t]
    BY <1>7 DEF Advance, Reopen
  <2>2. orderState'[o] # "none" /\ \A p \in Orders \ {o} : orderState'[p] = orderState[p]
    BY <1>7 DEF Advance, Reopen, NextState, TypeOK
  <2> QED BY <1>o, <2>1, <2>2
<1>8. CASE Environment
  BY <1>1, <1>8 DEF Environment, InsertLine, ChangeQuantity, DeleteLine, EditCart,
     SetForSale, SetPrice, Restock, AllButCatalogue
<1>9. ASSUME NEW u \in Tx, NEW c \in Colors, Acquire(u, c) PROVE orderState'[target'[t]] # "none"
  BY <1>1, <1>9 DEF Acquire, tables
<1>10. ASSUME NEW u \in Checkouts, NEW e \in Outcomes, RejectCaller(u, e)
       PROVE  orderState'[target'[t]] # "none"
  BY <1>3, <1>10 DEF RejectCaller, Tx
<1>11. ASSUME NEW u \in Tx, DeadlockAbort(u) \/ Fail(u) PROVE orderState'[target'[t]] # "none"
  BY <1>3, <1>11 DEF DeadlockAbort, Fail
<1>12. CASE UNCHANGED vars
  BY <1>1, <1>12 DEF vars
<1> QED
  BY <1>4, <1>5, <1>6, <1>7, <1>8, <1>9, <1>10, <1>11, <1>12 DEF Next

-----------------------------------------------------------------------------
(* The inductive invariant, for customers who leave their carts alone      *)

LEMMA InitIInv == Init => IInv
<1> SUFFICES ASSUME Init PROVE IInv
  OBVIOUS
<1>1. LocksExclude
  BY DEF Init, LocksExclude, Conflict
<1>2. ASSUME NEW t \in Checkouts PROVE CallInv(t)
  BY DEF Init, CallInv, HoldsCart, StockSuffices, DraftIsCart, NoOrderYet, AfterLocks,
     AfterCheck, Writing, Tx, Orders
<1>3. ReservationMatchesOrder /\ NeverOversells
  BY DEF Init, ReservationMatchesOrder, NeverOversells, Zero, Tx
<1>4. OneOrderPerSeller
  BY DEF Init, OneOrderPerSeller, Lines, Zero, Orders
<1>5. TargetsExist
  BY DEF Init, TargetsExist, Tx
<1> QED BY <1>1, <1>2, <1>3, <1>4, <1>5, InitTypeOK DEF IInv

\* What keeps CallInv(u) when u itself does not move.
LEMMA Frame ==
    ASSUME NEW u \in Checkouts, CallInv(u),
           pc'[u] = pc[u], want'[u] = want[u], todo'[u] = todo[u],
           draft'[u] = draft[u], lock'[u] = lock[u],
           cart'[Buyer[u]] = cart[Buyer[u]],
           pc[u] \in AfterCheck => \A c \in Colors : MyCart(u)[c] <= stock'[c],
           NoOrderYet(u)'
    PROVE  CallInv(u)'
  BY DEF CallInv, HoldsCart, StockSuffices, DraftIsCart, MyCart

\* A step of one transaction that publishes nothing.
LEMMA LocalStep ==
    ASSUME IInv, TypeOK', LocksExclude', TargetsExist', NEW t \in Tx, UNCHANGED tables,
           \A u \in Checkouts \ {t} :
               /\ pc'[u] = pc[u] /\ want'[u] = want[u] /\ todo'[u] = todo[u]
               /\ draft'[u] = draft[u] /\ lock'[u] = lock[u],
           \A u \in Checkouts : outcome'[u] # "check_violation",
           t \in Checkouts => CallInv(t)'
    PROVE  IInv'
<1>1. ASSUME NEW u \in Checkouts \ {t} PROVE CallInv(u)'
  <2>1. CallInv(u)
    BY DEF IInv
  <2>2. NoOrderYet(u)'
    BY <2>1 DEF CallInv, NoOrderYet, tables
  <2>3. pc[u] \in AfterCheck => \A c \in Colors : MyCart(u)[c] <= stock'[c]
    BY <2>1 DEF CallInv, StockSuffices, tables
  <2> QED BY <2>1, <2>2, <2>3, Frame DEF tables
<1>2. ReservationMatchesOrder' /\ OneOrderPerSeller'
  BY DEF IInv, tables, ReservationMatchesOrder, OneOrderPerSeller, Lines
<1> QED BY <1>1, <1>2 DEF IInv, NeverOversells

\* A call that has ended satisfies CallInv.
LEMMA Ended ==
    ASSUME TypeOK, NEW t \in Checkouts, NEW r, End(t, r)
    PROVE  CallInv(t)'
  BY DEF End, CallInv, HoldsCart, StockSuffices, DraftIsCart, NoOrderYet, AfterLocks,
     AfterCheck, Writing, TypeOK, Tx

LEMMA AbortIInv ==
    ASSUME IInv, TypeOK', LocksExclude', TargetsExist', NEW t \in Tx, NEW r \in Outcomes,
           Abort(t, r), r # "check_violation"
    PROVE  IInv'
<1>1. \A u \in Checkouts \ {t} :
          /\ pc'[u] = pc[u] /\ want'[u] = want[u] /\ todo'[u] = todo[u]
          /\ draft'[u] = draft[u] /\ lock'[u] = lock[u]
  BY DEF Abort, End, Released, IInv, TypeOK, Tx
<1>2. \A u \in Checkouts : outcome'[u] # "check_violation"
  BY DEF Abort, End, IInv, TypeOK, Tx, NeverOversells
<1> QED BY <1>1, <1>2, LocalStep, Ended DEF Abort, IInv

\* The statements of place_order before it commits.
LEMMA StatementIInv ==
    ASSUME IInv, TypeOK', LocksExclude', TargetsExist', NEW t \in Checkouts,
           Checkout(t), ~Commit(t)
    PROVE  IInv'
<1> USE CheckoutAssumption
<1> DEFINE Others == \A u \in Checkouts \ {t} :
               /\ pc'[u] = pc[u] /\ want'[u] = want[u] /\ todo'[u] = todo[u]
               /\ draft'[u] = draft[u] /\ lock'[u] = lock[u]
<1>t. t \in Tx /\ TypeOK /\ CallInv(t) /\ pc[t] \in Phases
  BY DEF Tx, IInv, TypeOK
<1>o. outcome' = outcome => \A u \in Checkouts : outcome'[u] # "check_violation"
  BY DEF IInv, NeverOversells
<1>q. /\ MyCart(t) \in Quantities /\ draft[t] \in Drafts
      /\ todo[t] \in SUBSET Sellers
      /\ stock \in [Colors -> Nat]
  BY <1>t DEF TypeOK, MyCart
<1>c. UNCHANGED tables => MyCart(t)' = MyCart(t)
  BY DEF tables, MyCart
<1>n. UNCHANGED tables /\ pc[t] # "done" => NoOrderYet(t)'
  BY <1>t DEF tables, NoOrderYet, CallInv
<1>1. CASE Begin(t)
  <2>1. Others BY <1>1, <1>t DEF Begin, Go, TypeOK
  <2>2. pc'[t] = "begun" BY <1>1, <1>t DEF Begin, Go, TypeOK
  <2>3. CallInv(t)'
    BY <1>1, <1>t, <1>n, <2>2 DEF Begin, Go, CallInv, HoldsCart, StockSuffices,
       DraftIsCart, AfterLocks, AfterCheck, Writing
  <2> QED BY <1>1, <2>1, <2>3, <1>o, <1>t, LocalStep DEF Begin
<1>2. CASE CartEmpty(t)
  BY <1>2, <1>t, AbortIInv DEF CartEmpty, Outcomes
<1>3. CASE LockColours(t)
  <2>1. Others BY <1>3, <1>t DEF LockColours, Go, TypeOK
  <2>2. pc'[t] = "locking" /\ want'[t] = Lines(MyCart(t))
    BY <1>3, <1>t DEF LockColours, Go, TypeOK, ColoursToLock
  <2>3. CallInv(t)'
    BY <1>3, <1>t, <1>n, <1>c, <2>2 DEF LockColours, Go, CallInv, HoldsCart,
       StockSuffices, DraftIsCart, AfterLocks, AfterCheck, Writing, Lines
  <2> QED BY <1>3, <2>1, <2>3, <1>o, <1>t, LocalStep DEF LockColours
<1>4. CASE CheckForSale(t)
  <2>1. CASE Unavailable(t) # {}
    BY <1>4, <2>1, <1>t, AbortIInv DEF CheckForSale, Outcomes
  <2>2. CASE Unavailable(t) = {}
    <3>0. /\ Go(t, "locking", "locked")
          /\ UNCHANGED <<tables, lock, want, todo, draft, target, outcome>>
      BY <1>4, <2>2 DEF CheckForSale
    <3>1. Others BY <3>0, <1>t DEF Go, TypeOK
    <3>2. pc'[t] = "locked" BY <3>0, <1>t DEF Go, TypeOK
    <3>3. CallInv(t)'
      BY <1>4, <3>0, <1>t, <1>n, <1>c, <3>2 DEF CheckForSale, Go, CallInv, HoldsCart,
         StockSuffices, DraftIsCart, AfterLocks, AfterCheck, Writing
    <3> QED BY <3>0, <3>1, <3>3, <1>o, <1>t, LocalStep
  <2> QED BY <2>1, <2>2
<1>5. CASE CheckStock(t)
  <2>1. CASE Short(t) # {}
    BY <1>5, <2>1, <1>t, AbortIInv DEF CheckStock, Outcomes
  <2>2. CASE Short(t) = {}
    <3>0. /\ Go(t, "locked", "instock")
          /\ UNCHANGED <<tables, lock, want, todo, draft, target, outcome>>
      BY <1>5, <2>2 DEF CheckStock
    <3>1. Others BY <3>0, <1>t DEF Go, TypeOK
    <3>2. pc'[t] = "instock" BY <3>0, <1>t DEF Go, TypeOK
    <3>3. ASSUME NEW c \in Colors PROVE MyCart(t)[c] <= stock[c]
      <4>1. MyCart(t)[c] \in Nat /\ stock[c] \in Nat
        BY <1>q DEF Quantities
      <4>2. MyCart(t)[c] > 0 => ~(stock[c] < MyCart(t)[c])
        BY <2>2 DEF Short, Lines
      <4> QED BY <4>1, <4>2
    <3>4. CallInv(t)'
      BY <1>5, <3>0, <1>t, <1>n, <1>c, <3>2, <3>3 DEF CheckStock, Go, CallInv,
         HoldsCart, StockSuffices, DraftIsCart, AfterLocks, AfterCheck, Writing, tables
    <3> QED BY <3>0, <3>1, <3>4, <1>o, <1>t, LocalStep
  <2> QED BY <2>1, <2>2
<1>6. CASE OpenLoop(t)
  <2>1. Others BY <1>6, <1>t DEF OpenLoop, Go, TypeOK
  <2>2. pc'[t] = "loop" /\ todo'[t] = {SellerOf[c] : c \in Lines(MyCart(t))}
    BY <1>6, <1>t DEF OpenLoop, Go, TypeOK, LoopSellers
  <2>3. draft'[t] = NoDraft /\ want'[t] = want[t] /\ lock'[t] = lock[t]
    BY <1>6, <1>t DEF OpenLoop, Go, CallInv, DraftIsCart, Writing
  <2>4. DraftIsCart(t)'
    BY <1>6, <1>c, <2>2, <2>3 DEF OpenLoop, DraftIsCart, NoDraft, Draft, Zero, Lines, Writing
  <2>5. HoldsCart(t)' /\ StockSuffices(t)'
    BY <1>6, <1>t, <1>c, <2>2, <2>3 DEF OpenLoop, Go, CallInv, HoldsCart,
       StockSuffices, AfterLocks, AfterCheck, tables
  <2>6. CallInv(t)'
    BY <1>6, <1>n, <2>4, <2>5 DEF OpenLoop, Go, CallInv
  <2> QED BY <1>6, <2>1, <2>6, <1>o, <1>t, LocalStep DEF OpenLoop
<1>7. ASSUME NEW s \in Sellers, InsertLines(t, s) PROVE IInv'
  <2> DEFINE added == SoldBy(s, MyCart(t))
             d == draft[t]
  <2>1. Others BY <1>7, <1>t DEF InsertLines, Go, TypeOK
  <2>2. /\ pc'[t] = "lines" /\ want'[t] = Lines(added) \ Held(t)
        /\ draft'[t].sellers = d.sellers \cup {s}
        /\ draft'[t].line = Write(d.line, s, added)
        /\ draft'[t].reserved = d.reserved
        /\ lock'[t] = lock[t] /\ todo'[t] = todo[t]
    BY <1>7, <1>t DEF InsertLines, Go, TypeOK, Draft
  <2>3. \A c \in Colors : MyCart(t)[c] > 0 => lock[t][c] = "update"
    BY <1>7, <1>t DEF InsertLines, Go, CallInv, HoldsCart, AfterLocks
  <2>4. want'[t] = {}
    BY <2>2, <2>3, <1>q DEF Lines, SoldBy, Held, Quantities
  <2>5. DraftIsCart(t)'
    <3>1. \A c \in Colors : draft'[t].line[c] =
              IF SellerOf[c] \in draft'[t].sellers THEN MyCart(t)[c] ELSE 0
      BY <2>2, <1>t, <1>7 DEF Write, SoldBy, CallInv, DraftIsCart, InsertLines, Go, Writing
    <3>2. s \in todo[t]
      BY <1>7 DEF InsertLines
    <3>3. UNCHANGED tables /\ pc[t] = "loop"
      BY <1>7 DEF InsertLines, Go
    <3>4. \A c \in Colors : draft'[t].reserved[c] =
              IF SellerOf[c] \in draft'[t].sellers \ todo'[t] THEN MyCart(t)[c] ELSE 0
      BY <2>2, <1>t, <3>2, <3>3 DEF CallInv, DraftIsCart, Writing
    <3>5. draft'[t].sellers \cup todo'[t] = d.sellers \cup todo[t]
      BY <2>2, <3>2
    <3> QED
      BY <1>t, <1>c, <2>2, <3>1, <3>3, <3>4, <3>5 DEF CallInv, DraftIsCart, Writing
  <2>6. HoldsCart(t)' /\ StockSuffices(t)'
    BY <1>7, <1>t, <1>c, <2>2, <2>3, <2>4 DEF InsertLines, Go, CallInv, HoldsCart,
       StockSuffices, AfterLocks, AfterCheck, tables
  <2>7. CallInv(t)'
    BY <1>7, <1>n, <2>5, <2>6 DEF InsertLines, Go, CallInv
  <2> QED BY <1>7, <2>1, <2>7, <1>o, <1>t, LocalStep DEF InsertLines
<1>8. ASSUME NEW s \in Sellers, InsertReservation(t, s) PROVE IInv'
  <2> DEFINE d == draft[t]
  <2>1. Others BY <1>8, <1>t DEF InsertReservation, Go, TypeOK
  <2>2. /\ pc'[t] = "loop" /\ want'[t] = Lines(ToReserve(t, s)) \ Held(t)
        /\ draft'[t].sellers = d.sellers /\ draft'[t].line = d.line
        /\ draft'[t].reserved = Write(d.reserved, s, ToReserve(t, s))
        /\ lock'[t] = lock[t] /\ todo'[t] = todo[t] \ {s}
    BY <1>8, <1>t DEF InsertReservation, Go, TypeOK, Draft, Visited
  <2>3. \A c \in Colors : MyCart(t)[c] > 0 => lock[t][c] = "update"
    BY <1>8, <1>t DEF InsertReservation, Go, CallInv, HoldsCart, AfterLocks
  <2>4. want'[t] = {}
    BY <2>2, <2>3, <1>q DEF Lines, ToReserve, SoldBy, Held, Quantities
  <2>5. s \in todo[t] \cap d.sellers
    BY <1>8 DEF InsertReservation
  <2>6. \A c \in Colors : draft'[t].reserved[c] =
              IF SellerOf[c] \in d.sellers \ (todo[t] \ {s}) THEN MyCart(t)[c] ELSE 0
    <3>1. \A c \in Colors : draft'[t].reserved[c] =
              IF SellerOf[c] = s THEN MyCart(t)[c] ELSE d.reserved[c]
      BY <2>2 DEF Write, ToReserve, SoldBy
    <3>2. \A c \in Colors : d.reserved[c] =
              IF SellerOf[c] \in d.sellers \ todo[t] THEN MyCart(t)[c] ELSE 0
      BY <1>8, <1>t DEF CallInv, DraftIsCart, InsertReservation, Go, Writing
    <3> QED BY <2>5, <3>1, <3>2
  <2>7. DraftIsCart(t)'
    BY <1>8, <1>t, <1>c, <2>2, <2>5, <2>6
    DEF InsertReservation, Go, CallInv, DraftIsCart, Writing
  <2>8. HoldsCart(t)' /\ StockSuffices(t)'
    BY <1>8, <1>t, <1>c, <2>2, <2>3, <2>4 DEF InsertReservation, Go, CallInv, HoldsCart,
       StockSuffices, AfterLocks, AfterCheck, tables
  <2>9. CallInv(t)'
    BY <1>8, <1>n, <2>7, <2>8 DEF InsertReservation, Go, CallInv
  <2> QED BY <1>8, <2>1, <2>9, <1>o, <1>t, LocalStep DEF InsertReservation
<1>9. CASE UpdateStock(t)
  <2> DEFINE d == draft[t]
  <2>1. Others BY <1>9, <1>t DEF UpdateStock, Go, TypeOK
  <2>2. /\ pc'[t] = "taking"
        /\ want'[t] = {c \in Lines(MyCart(t)) : lock[t][c] # "update"}
        /\ draft'[t].sellers = d.sellers /\ draft'[t].line = d.line
        /\ draft'[t].reserved = d.reserved /\ draft'[t].taken = MyCart(t)
        /\ lock'[t] = lock[t] /\ todo'[t] = {}
    BY <1>9, <1>t DEF UpdateStock, Go, TypeOK, Draft
  <2>3. \A c \in Colors : MyCart(t)[c] > 0 => lock[t][c] = "update"
    BY <1>9, <1>t DEF UpdateStock, Go, CallInv, HoldsCart, AfterLocks
  <2>4. want'[t] = {}
    BY <2>2, <2>3, <1>q DEF Lines
  <2>5. DraftIsCart(t)'
    BY <1>9, <1>t, <1>c, <2>2 DEF UpdateStock, Go, CallInv, DraftIsCart, Writing
  <2>6. HoldsCart(t)' /\ StockSuffices(t)'
    BY <1>9, <1>t, <1>c, <2>2, <2>3, <2>4 DEF UpdateStock, Go, CallInv, HoldsCart,
       StockSuffices, AfterLocks, AfterCheck, tables
  <2>7. CallInv(t)'
    BY <1>9, <1>n, <2>5, <2>6 DEF UpdateStock, Go, CallInv
  <2> QED BY <1>9, <2>1, <2>7, <1>o, <1>t, LocalStep DEF UpdateStock
<1>10. CASE StockCheckFails(t)
  <2>1. \A c \in Colors : draft[t].taken[c] <= stock[c]
    BY <1>10, <1>t DEF StockCheckFails, CallInv, DraftIsCart, StockSuffices, AfterCheck
  <2>2. draft[t].taken \in Quantities
    BY <1>q DEF Drafts
  <2>3. \A c \in Colors : draft[t].taken[c] \in Nat /\ stock[c] \in Nat
    BY <1>q, <2>2 DEF Quantities
  <2> QED BY <1>10, <2>1, <2>3 DEF StockCheckFails, Overdrawn
<1> QED
  BY <1>1, <1>2, <1>3, <1>4, <1>5, <1>6, <1>7, <1>8, <1>9, <1>10 DEF Checkout

LEMMA SameQuantities ==
    ASSUME NEW q \in Quantities, NEW r \in Quantities, \A c \in Colors : q[c] = r[c]
    PROVE  q = r
  BY DEF Quantities

\* What a call that takes its stock is about to publish: the whole cart.
LEMMA DraftTakesCart ==
    ASSUME IInv, NEW t \in Checkouts, pc[t] = "taking"
    PROVE  /\ draft[t].line = MyCart(t)
           /\ draft[t].reserved = MyCart(t)
           /\ draft[t].taken = MyCart(t)
           /\ draft[t].sellers = {SellerOf[c] : c \in Lines(MyCart(t))}
<1> USE CheckoutAssumption
<1>1. DraftIsCart(t) /\ draft[t] \in Drafts /\ MyCart(t) \in Quantities /\ todo[t] = {}
  BY DEF IInv, CallInv, DraftIsCart, TypeOK, MyCart
<1>2. \A c \in Colors : MyCart(t)[c] > 0 => SellerOf[c] \in draft[t].sellers
  BY <1>1 DEF DraftIsCart, Writing
<1>3. \A c \in Colors : SellerOf[c] \notin draft[t].sellers => MyCart(t)[c] = 0
  BY <1>1, <1>2 DEF Quantities
<1>4. \A c \in Colors : draft[t].line[c] = MyCart(t)[c] /\ draft[t].reserved[c] = MyCart(t)[c]
  BY <1>1, <1>3 DEF DraftIsCart, Writing
<1>5. draft[t].line \in Quantities /\ draft[t].reserved \in Quantities
  BY <1>1 DEF Drafts
<1>6. draft[t].line = MyCart(t) /\ draft[t].reserved = MyCart(t)
  BY <1>1, <1>4, <1>5, SameQuantities
<1>7. draft[t].sellers \subseteq {SellerOf[c] : c \in Lines(MyCart(t))}
  <2>1. \A s \in draft[t].sellers : \E c \in Colors : SellerOf[c] = s /\ MyCart(t)[c] > 0
    BY <1>1 DEF DraftIsCart, Writing
  <2> QED BY <2>1 DEF Lines
<1>8. {SellerOf[c] : c \in Lines(MyCart(t))} \subseteq draft[t].sellers
  BY <1>2 DEF Lines
<1>9. draft[t].taken = MyCart(t)
  BY <1>1 DEF DraftIsCart
<1> QED BY <1>6, <1>7, <1>8, <1>9

\* A colour in the cart of a call past its locks is in no other such call's cart.
LEMMA CartsApart ==
    ASSUME IInv, NEW t \in Checkouts, NEW u \in Checkouts, t # u,
           pc[t] \in AfterLocks, pc[u] \in AfterLocks, NEW c \in Colors
    PROVE  MyCart(t)[c] = 0 \/ MyCart(u)[c] = 0
<1>1. MyCart(t)[c] > 0 => lock[t][c] = "update"
  BY DEF IInv, CallInv, HoldsCart
<1>2. MyCart(u)[c] > 0 => lock[u][c] = "update"
  BY DEF IInv, CallInv, HoldsCart
<1>3. ~(lock[t][c] = "update" /\ lock[u][c] = "update")
  BY DEF IInv, LocksExclude, Conflict, Tx
<1>4. MyCart(t)[c] \in Nat /\ MyCart(u)[c] \in Nat
  BY CheckoutAssumption DEF IInv, TypeOK, MyCart, Quantities
<1> QED BY <1>1, <1>2, <1>3, <1>4

LEMMA CommitIInv ==
    ASSUME IInv, TypeOK', LocksExclude', TargetsExist', NEW t \in Checkouts, Commit(t)
    PROVE  IInv'
<1> USE CheckoutAssumption
<1>t. t \in Tx /\ TypeOK /\ pc[t] = "taking" /\ End(t, "placed")
  BY DEF Commit, Tx, IInv
<1>d. /\ line' = [line EXCEPT ![t] = MyCart(t)]
      /\ reserved' = [reserved EXCEPT ![t] = MyCart(t)]
      /\ stock' = [c \in Colors |-> stock[c] - MyCart(t)[c]]
      /\ cart' = [cart EXCEPT ![Buyer[t]] = Zero]
  BY <1>t, DraftTakesCart DEF Commit, CartAfter
<1>s. /\ orderState' = [o \in Orders |->
             IF o[1] = t /\ o[2] \in draft[t].sellers THEN "pending" ELSE orderState[o]]
      /\ draft[t].sellers = {SellerOf[c] : c \in Lines(MyCart(t))}
  BY <1>t, DraftTakesCart DEF Commit
<1>1. ASSUME NEW u \in Checkouts \ {t} PROVE CallInv(u)'
  <2>1. /\ CallInv(u) /\ u \in Tx
        /\ pc'[u] = pc[u] /\ want'[u] = want[u] /\ todo'[u] = todo[u]
        /\ draft'[u] = draft[u] /\ lock'[u] = lock[u]
    BY <1>t DEF IInv, End, Released, TypeOK, Tx
  <2>2. NoOrderYet(u)'
    <3>1. line'[u] = line[u] BY <1>d, <1>t DEF TypeOK
    <3>2. \A s \in Sellers : orderState'[<<u, s>>] = orderState[<<u, s>>]
      BY <1>s DEF Orders
    <3> QED BY <2>1, <3>1, <3>2 DEF CallInv, NoOrderYet
  <2>c. MyCart(u) \in Quantities /\ MyCart(t) \in Quantities /\ stock \in [Colors -> Nat]
    BY <1>t DEF TypeOK, MyCart
  <2>3. CASE pc[u] \in AfterLocks
    <3>1. \A c \in Colors : MyCart(t)[c] = 0 \/ MyCart(u)[c] = 0
      BY <2>3, <1>t, CartsApart DEF AfterLocks
    <3>2. cart'[Buyer[u]] = cart[Buyer[u]]
      <4>1. CASE Buyer[u] = Buyer[t]
        <5>1. \A c \in Colors : MyCart(u)[c] = 0
          BY <3>1, <4>1 DEF MyCart
        <5>2. MyCart(u) = Zero
          BY <5>1, <2>c DEF Zero, Quantities
        <5> QED BY <5>2, <4>1, <1>d, <1>t DEF MyCart, TypeOK
      <4>2. CASE Buyer[u] # Buyer[t]
        BY <4>2, <1>d, <1>t DEF TypeOK
      <4> QED BY <4>1, <4>2
    <3>3. ASSUME pc[u] \in AfterCheck, NEW c \in Colors PROVE MyCart(u)[c] <= stock'[c]
      <4>1. MyCart(u)[c] <= stock[c]
        BY <3>3, <2>1 DEF CallInv, StockSuffices
      <4>2. MyCart(t)[c] <= stock[c]
        BY <1>t DEF IInv, CallInv, DraftIsCart, StockSuffices, AfterCheck
      <4>3. stock'[c] = stock[c] - MyCart(t)[c] /\ MyCart(u)[c] \in Nat
            /\ MyCart(t)[c] \in Nat /\ stock[c] \in Nat
        BY <1>d, <2>c DEF Quantities
      <4> QED BY <3>1, <4>1, <4>2, <4>3
    <3> QED BY <2>1, <2>2, <3>2, <3>3, Frame
  <2>4. CASE pc[u] \notin AfterLocks
    <3>1. pc[u] \notin AfterCheck /\ pc[u] \notin Writing /\ pc[u] # "taking"
      BY <2>4 DEF AfterLocks, AfterCheck, Writing
    <3>2. cart'[Buyer[u]] = cart[Buyer[u]] \/ cart'[Buyer[u]] = Zero
      BY <1>d, <1>t DEF TypeOK
    <3>3. HoldsCart(u)'
      <4>1. CASE cart'[Buyer[u]] = cart[Buyer[u]]
        BY <2>1, <4>1 DEF CallInv, HoldsCart, MyCart
      <4>2. CASE cart'[Buyer[u]] = Zero
        BY <2>1, <2>4, <4>2 DEF HoldsCart, MyCart, Zero
      <4> QED BY <3>2, <4>1, <4>2
    <3> QED
      BY <2>1, <2>2, <3>1, <3>3 DEF CallInv, StockSuffices, DraftIsCart
  <2> QED BY <2>3, <2>4
<1>2. CallInv(t)'
  BY <1>t, Ended
<1>3. ReservationMatchesOrder'
  BY <1>d, <1>t DEF IInv, ReservationMatchesOrder, TypeOK
<1>4. OneOrderPerSeller'
  <2>1. ASSUME NEW u \in Checkouts, NEW s \in Sellers, u # t
        PROVE  orderState'[<<u, s>>] = orderState[<<u, s>>] /\ line'[u] = line[u]
    BY <2>1, <1>s, <1>d, <1>t DEF Orders, TypeOK
  <2>2. ASSUME NEW s \in Sellers
        PROVE  orderState'[<<t, s>>] # "none" <=> s \in draft[t].sellers
    BY <1>s, <1>t DEF Orders, IInv, CallInv, NoOrderYet
  <2>3. line'[t] = MyCart(t)
    BY <1>d, <1>t DEF TypeOK
  <2>4. ASSUME NEW s \in Sellers
        PROVE  s \in draft[t].sellers <=> \E c \in Lines(line'[t]) : SellerOf[c] = s
    BY <1>s, <2>3
  <2>5. ASSUME NEW u \in Checkouts, NEW s \in Sellers
        PROVE  orderState'[<<u, s>>] # "none" <=>
                   \E c \in Lines(line'[u]) : SellerOf[c] = s
    <3>1. CASE u = t BY <2>2, <2>4, <3>1
    <3>2. CASE u # t BY <2>1, <3>2 DEF IInv, OneOrderPerSeller
    <3> QED BY <3>1, <3>2
  <2> QED BY <2>5 DEF OneOrderPerSeller, Lines
<1>5. NeverOversells'
  BY <1>t DEF IInv, NeverOversells, End, TypeOK, Tx
<1> QED BY <1>1, <1>2, <1>3, <1>4, <1>5 DEF IInv

LEMMA AcquireIInv ==
    ASSUME IInv, TypeOK', LocksExclude', TargetsExist', NEW t \in Tx, NEW c \in Colors, Acquire(t, c)
    PROVE  IInv'
<1>t. TypeOK
  BY DEF IInv
<1>1. \A u \in Checkouts \ {t} :
          /\ pc'[u] = pc[u] /\ want'[u] = want[u] /\ todo'[u] = todo[u]
          /\ draft'[u] = draft[u] /\ lock'[u] = lock[u]
  BY <1>t DEF Acquire, TypeOK, Tx
<1>2. UNCHANGED tables /\ UNCHANGED <<pc, todo, draft, outcome>>
  BY DEF Acquire
<1>3. ASSUME t \in Checkouts PROVE CallInv(t)'
  <2>1. CallInv(t) /\ MyCart(t)' = MyCart(t)
    BY <1>2, <1>3 DEF IInv, tables, MyCart
  <2>2. c \in want[t]
    BY DEF Acquire, NextColours
  <2>3. pc[t] \notin AfterLocks
    BY <2>1, <2>2 DEF CallInv, HoldsCart
  <2>4. pc[t] = "locking" => lock'[t] = [lock[t] EXCEPT ![c] = "update"]
    BY <1>t DEF Acquire, LockMode, TypeOK
  <2>5. want'[t] = want[t] \ {c}
    BY <1>t DEF Acquire, TypeOK
  <2>6. lock[t] \in [Colors -> Modes]
    BY <1>t DEF TypeOK
  <2>7. HoldsCart(t)'
    BY <1>2, <2>1, <2>3, <2>4, <2>5, <2>6 DEF CallInv, HoldsCart
  <2>8. DraftIsCart(t)' /\ StockSuffices(t)' /\ NoOrderYet(t)'
    BY <1>2, <2>1 DEF CallInv, DraftIsCart, StockSuffices, NoOrderYet, tables
  <2> QED BY <2>7, <2>8 DEF CallInv
<1>4. \A u \in Checkouts : outcome'[u] # "check_violation"
  BY <1>2 DEF IInv, NeverOversells
<1> QED BY <1>1, <1>2, <1>3, <1>4, LocalStep

\* A step that moves no transaction, keeps the carts of the calls in flight, and
\* takes no stock that a checked call counts on.
LEMMA OutsideStep ==
    ASSUME IInv, TypeOK', LocksExclude', TargetsExist',
           \A u \in Checkouts :
               /\ pc'[u] = pc[u] /\ want'[u] = want[u] /\ todo'[u] = todo[u]
               /\ draft'[u] = draft[u] /\ lock'[u] = lock[u]
               /\ outcome'[u] = outcome[u] /\ line'[u] = line[u],
           \A u \in Checkouts : InFlight(u) => cart'[Buyer[u]] = cart[Buyer[u]],
           \A u \in Checkouts, c \in Colors :
               pc[u] \in AfterCheck => MyCart(u)[c] <= stock'[c],
           \A o \in Orders : orderState'[o] = "none" <=> orderState[o] = "none",
           ReservationMatchesOrder'
    PROVE  IInv'
<1>1. ASSUME NEW u \in Checkouts PROVE CallInv(u)'
  <2>1. CallInv(u)
    BY DEF IInv
  <2>2. NoOrderYet(u)'
    BY <2>1 DEF CallInv, NoOrderYet, Orders
  <2>3. CASE InFlight(u)
    BY <2>1, <2>2, <2>3, Frame
  <2>4. CASE ~InFlight(u)
    BY <2>1, <2>2, <2>4 DEF InFlight, CallInv, HoldsCart, StockSuffices, DraftIsCart,
       AfterLocks, AfterCheck, Writing
  <2> QED BY <2>3, <2>4
<1>2. OneOrderPerSeller'
  <2>1. ASSUME NEW u \in Checkouts, NEW s \in Sellers
        PROVE  orderState'[<<u, s>>] # "none" <=> orderState[<<u, s>>] # "none"
    BY DEF Orders
  <2>2. ASSUME NEW u \in Checkouts, NEW s \in Sellers
        PROVE  orderState[<<u, s>>] # "none" <=> \E c \in Lines(line[u]) : SellerOf[c] = s
    BY DEF IInv, OneOrderPerSeller
  <2>3. ASSUME NEW u \in Checkouts
        PROVE  Lines(line'[u]) = Lines(line[u])
    OBVIOUS
  <2>4. ASSUME NEW u \in Checkouts, NEW s \in Sellers
        PROVE  orderState'[<<u, s>>] # "none" <=>
                   \E c \in Lines(line'[u]) : SellerOf[c] = s
    BY <2>1, <2>2, <2>3
  <2> QED BY <2>4 DEF OneOrderPerSeller, Lines
<1>3. NeverOversells'
  BY DEF IInv, NeverOversells
<1> QED BY <1>1, <1>2, <1>3 DEF IInv

\* What an order still reserves, and what a settlement leaves of it.
LEMMA DropStep ==
    ASSUME TypeOK, ReservationMatchesOrder, NEW o \in Orders,
           reserved' = DropReservation(o), line' = line
    PROVE  ReservationMatchesOrder'
<1>1. o[1] \in Checkouts
  BY DEF Orders
<1>2. \A u \in Checkouts, c \in Colors : reserved'[u][c] \in {0, reserved[u][c]}
  BY <1>1 DEF DropReservation, Write, Zero, TypeOK
<1> QED BY <1>2 DEF ReservationMatchesOrder

LEMMA SettlementIInv ==
    ASSUME IInv, TypeOK', LocksExclude', TargetsExist',
           \/ \E t \in Settlements, o \in Orders : StartCancel(t, o)
           \/ \E t \in Settlements : CommitCancel(t)
           \/ \E o \in Orders : Advance(o) \/ Reopen(o)
    PROVE  IInv'
<1> USE CheckoutAssumption
<1>t. TypeOK /\ ReservationMatchesOrder
  BY DEF IInv
<1>s. \A u \in Checkouts, c \in Colors : pc[u] \in AfterCheck => MyCart(u)[c] <= stock[c]
  BY DEF IInv, CallInv, StockSuffices
<1>1. ASSUME NEW t \in Settlements, NEW o \in Orders, StartCancel(t, o) PROVE IInv'
  <2>1. \A u \in Checkouts \ {t} :
            /\ pc'[u] = pc[u] /\ want'[u] = want[u] /\ todo'[u] = todo[u]
            /\ draft'[u] = draft[u] /\ lock'[u] = lock[u]
    BY <1>1, <1>t DEF StartCancel, Go, TypeOK, Tx
  <2>2. UNCHANGED tables /\ outcome' = outcome /\ t \in Tx /\ t \notin Checkouts
    BY <1>1 DEF StartCancel, Tx
  <2> QED BY <2>1, <2>2, LocalStep DEF IInv, NeverOversells
<1>2. ASSUME NEW t \in Settlements, CommitCancel(t) PROVE IInv'
  <2> DEFINE o == target[t]
  <2>1. o \in Orders /\ Reservation(o) \in [Colors -> Nat] /\ t \notin Checkouts
    <3>1. o \in Orders
      BY <1>2, <1>t DEF CommitCancel, TypeOK
    <3>2. reserved[o[1]] \in Quantities
      BY <3>1, <1>t DEF TypeOK, Orders
    <3> QED BY <3>1, <3>2, PartTypes DEF Reservation, Quantities
  <2>2. \A u \in Checkouts :
               /\ pc'[u] = pc[u] /\ want'[u] = want[u] /\ todo'[u] = todo[u]
               /\ draft'[u] = draft[u] /\ lock'[u] = lock[u]
               /\ outcome'[u] = outcome[u] /\ line'[u] = line[u]
    BY <1>2, <2>1, <1>t DEF CommitCancel, End, Released, TypeOK, Tx
  <2>3. \A u \in Checkouts, c \in Colors :
            pc[u] \in AfterCheck => MyCart(u)[c] <= stock'[c]
    <3>1. \A c \in Colors : stock'[c] = stock[c] + Reservation(o)[c]
      BY <1>2 DEF CommitCancel, Returned
    <3>2. \A c \in Colors : stock[c] \in Nat /\ Reservation(o)[c] \in Nat
      BY <2>1, <1>t DEF TypeOK
    <3>3. \A u \in Checkouts, c \in Colors : MyCart(u)[c] \in Nat
      BY <1>t DEF TypeOK, MyCart, Quantities
    <3> QED BY <1>s, <3>1, <3>2, <3>3
  <2>4. orderState[o] # "none"
    BY <1>2 DEF CommitCancel, IInv, TargetsExist
  <2>5. ReservationMatchesOrder'
    BY <1>2, <2>1, <1>t, DropStep DEF CommitCancel, ReservedAfter
  <2>6. \A p \in Orders : orderState'[p] = "none" <=> orderState[p] = "none"
    BY <1>2, <2>4, <1>t DEF CommitCancel, TypeOK
  <2>7. cart' = cart
    BY <1>2 DEF CommitCancel
  <2> QED BY <2>2, <2>3, <2>5, <2>6, <2>7, OutsideStep
<1>3. ASSUME NEW o \in Orders, Advance(o) \/ Reopen(o) PROVE IInv'
  <2>1. /\ UNCHANGED <<stock, cart, line, pc, lock, want, todo, draft, outcome>>
        /\ reserved' = reserved \/ reserved' = DropReservation(o)
    BY <1>3 DEF Advance, Reopen
  <2>2. ReservationMatchesOrder'
    <3>1. CASE reserved' = reserved
      BY <2>1, <3>1, <1>t DEF ReservationMatchesOrder
    <3>2. CASE reserved' = DropReservation(o)
      BY <2>1, <3>2, <1>t, DropStep
    <3> QED BY <2>1, <3>1, <3>2
  <2>3. \A p \in Orders : orderState'[p] = "none" <=> orderState[p] = "none"
    BY <1>3, <1>t DEF Advance, Reopen, NextState, TypeOK
  <2> QED BY <2>1, <2>2, <2>3, <1>s, OutsideStep
<1> QED BY <1>1, <1>2, <1>3

LEMMA EnvironmentIInv ==
    ASSUME QuietCart, IInv, TypeOK', LocksExclude', TargetsExist', Environment
    PROVE  IInv'
<1> USE CheckoutAssumption
<1>t. TypeOK /\ ReservationMatchesOrder
  BY DEF IInv
<1>s. \A u \in Checkouts, c \in Colors : pc[u] \in AfterCheck => MyCart(u)[c] <= stock[c]
  BY DEF IInv, CallInv, StockSuffices
<1>1. ASSUME NEW b \in Customers, NEW c \in Colors, NEW q \in 0 .. MaxQty, EditCart(b, c, q)
      PROVE  IInv'
  <2>1. \A u \in Checkouts : InFlight(u) => cart'[Buyer[u]] = cart[Buyer[u]]
    BY <1>1, <1>t DEF EditCart, MayEdit, TypeOK
  <2>2. UNCHANGED <<stock, orderState, line, reserved, pc, lock, want, todo, draft, outcome>>
    BY <1>1 DEF EditCart
  <2>3. ReservationMatchesOrder'
    BY <2>2, <1>t DEF ReservationMatchesOrder
  <2> QED BY <2>1, <2>2, <2>3, <1>s, OutsideStep
<1>2. ASSUME UNCHANGED AllButCatalogue,
             \A u \in Checkouts, c \in Colors :
                 pc[u] \in AfterCheck => MyCart(u)[c] <= stock'[c]
      PROVE  IInv'
  <2>1. UNCHANGED <<cart, orderState, line, reserved, pc, lock, want, todo, draft, outcome>>
    BY <1>2 DEF AllButCatalogue
  <2>2. ReservationMatchesOrder'
    BY <2>1, <1>t DEF ReservationMatchesOrder
  <2> QED BY <2>1, <2>2, <1>2, OutsideStep
<1>3. ASSUME NEW c \in Colors, NEW n \in 0 .. MaxStock, Restock(c, n) PROVE IInv'
  <2>1. ASSUME NEW u \in Checkouts, NEW d \in Colors, pc[u] \in AfterCheck
        PROVE  MyCart(u)[d] <= stock'[d]
    <3>1. CASE d # c
      BY <2>1, <3>1, <1>3, <1>s, <1>t DEF Restock, TypeOK
    <3>2. CASE d = c
      <4>1. lock[u][c] # "update"
        BY <1>3 DEF Restock, Conflict, Tx
      <4>2. ~(MyCart(u)[c] > 0)
        BY <2>1, <4>1 DEF IInv, CallInv, HoldsCart, AfterCheck, AfterLocks
      <4>3. MyCart(u)[c] \in Nat /\ stock'[c] = n /\ n \in Nat
        BY <1>3, <1>t DEF Restock, TypeOK, MyCart, Quantities
      <4> QED BY <3>2, <4>2, <4>3
    <3> QED BY <3>1, <3>2
  <2> QED BY <1>2, <1>3, <2>1 DEF Restock
<1>4. ASSUME NEW c \in Colors, SetForSale(c) \/ \E p \in Prices : SetPrice(c, p) PROVE IInv'
  BY <1>2, <1>4, <1>s DEF SetForSale, SetPrice
<1>5. ASSUME NEW b \in Customers, NEW c \in Colors, NEW q \in 1 .. MaxQty,
             InsertLine(b, c, q) \/ ChangeQuantity(b, c, q)
      PROVE  IInv'
  BY <1>1, <1>5 DEF InsertLine, ChangeQuantity
<1>6. ASSUME NEW b \in Customers, NEW c \in Colors, DeleteLine(b, c) PROVE IInv'
  BY <1>1, <1>6 DEF DeleteLine
<1> QED BY <1>3, <1>4, <1>5, <1>6 DEF Environment

LEMMA NextIInv == QuietCart /\ IInv /\ [Next]_vars => IInv'
<1> SUFFICES ASSUME QuietCart, IInv, [Next]_vars PROVE IInv'
  OBVIOUS
<1>t. TypeOK' /\ LocksExclude' /\ TargetsExist'
  BY NextTypeOK, NextLocksExclude, NextTargetsExist DEF IInv
<1>1. ASSUME NEW t \in Checkouts, Checkout(t) PROVE IInv'
  BY <1>t, <1>1, StatementIInv, CommitIInv
<1>2. ASSUME NEW t \in Checkouts, NEW e \in Outcomes, RejectCaller(t, e) PROVE IInv'
  BY <1>t, <1>2, AbortIInv DEF RejectCaller, Tx
<1>3. ASSUME NEW t \in Tx, DeadlockAbort(t) \/ Fail(t) PROVE IInv'
  BY <1>t, <1>3, AbortIInv DEF DeadlockAbort, Fail, Outcomes
<1>4. CASE UNCHANGED vars
  <2>1. ReservationMatchesOrder'
    BY <1>4 DEF IInv, vars, ReservationMatchesOrder
  <2> QED BY <1>t, <1>4, <2>1, OutsideStep DEF vars, IInv, CallInv, StockSuffices
<1> QED
  BY <1>t, <1>1, <1>2, <1>3, <1>4, AcquireIInv, SettlementIInv, EnvironmentIInv DEF Next

\* With quiet carts, the inductive invariant holds in every reachable state.
THEOREM Invariance == QuietCart => (Spec => []IInv)
<1> SUFFICES ASSUME QuietCart PROVE Spec => []IInv
  OBVIOUS
<1>1. IInv /\ [Next]_vars => IInv'
  BY NextIInv
<1> QED BY <1>1, InitIInv, PTL DEF Spec

\* With quiet carts, a reservation is always exactly what its order sells.
THEOREM ReservationsExact == QuietCart => (Spec => []ReservationMatchesOrder)
<1>1. IInv => ReservationMatchesOrder
  BY DEF IInv
<1> QED BY <1>1, Invariance, PTL

\* With quiet carts, each seller of the lines has an order and no order is empty.
THEOREM OrdersFollowLines == QuietCart => (Spec => []OneOrderPerSeller)
<1>1. IInv => OneOrderPerSeller
  BY DEF IInv
<1> QED BY <1>1, Invariance, PTL

\* With quiet carts, the CHECK on stock_quantity is never what stops a checkout.
THEOREM StockNeverRunsOut == QuietCart => (Spec => []NeverOversells)
<1>1. IInv => NeverOversells
  BY DEF IInv
<1> QED BY <1>1, Invariance, PTL

-----------------------------------------------------------------------------
(* What a checkout places, and what it keeps reserved                      *)

\* Only Commit of the call itself makes a call placed.
LEMMA PlacedByCommit ==
    ASSUME TypeOK, Next, NEW t \in Checkouts, outcome[t] # "placed", outcome'[t] = "placed"
    PROVE  Commit(t)
<1>t. t \in Tx /\ t \notin Settlements
  BY CheckoutAssumption DEF Tx
<1>e. ASSUME NEW u \in Tx, NEW r, End(u, r) PROVE u = t /\ r = "placed"
  BY <1>e, <1>t DEF End, TypeOK
<1>1. ASSUME NEW u \in Checkouts, Checkout(u) PROVE Commit(t)
  <2>u. u \in Tx
    BY DEF Tx
  <2>1. CASE Commit(u)
    BY <2>1, <2>u, <1>e DEF Commit
  <2>2. ASSUME NEW r \in Outcomes \ {"placed"}, Abort(u, r) PROVE FALSE
    BY <2>2, <2>u, <1>e DEF Abort
  <2>3. CASE CartEmpty(u) \/ StockCheckFails(u)
    BY <2>2, <2>3 DEF CartEmpty, StockCheckFails, Outcomes
  <2>4. CASE CheckForSale(u) \/ CheckStock(u)
    <3>1. ASSUME outcome' = outcome PROVE FALSE
      BY <3>1
    <3> QED BY <2>2, <2>4, <3>1 DEF CheckForSale, CheckStock, Outcomes
  <2>5. CASE Begin(u) \/ LockColours(u) \/ OpenLoop(u) \/ UpdateStock(u)
    BY <2>5 DEF Begin, LockColours, OpenLoop, UpdateStock
  <2>6. CASE \E s \in Sellers : InsertLines(u, s) \/ InsertReservation(u, s)
    BY <2>6 DEF InsertLines, InsertReservation
  <2> QED BY <1>1, <2>1, <2>3, <2>4, <2>5, <2>6 DEF Checkout
<1>2. ASSUME NEW u \in Checkouts, NEW e \in Outcomes, RejectCaller(u, e) PROVE FALSE
  BY <1>2, <1>e DEF RejectCaller, Abort, Tx
<1>3. ASSUME NEW u \in Settlements, \/ CommitCancel(u)
                                    \/ \E o \in Orders : StartCancel(u, o)
      PROVE  FALSE
  BY <1>3, <1>e DEF CommitCancel, StartCancel, Tx
<1>4. ASSUME NEW u \in Tx, DeadlockAbort(u) \/ Fail(u) PROVE FALSE
  BY <1>4, <1>e DEF DeadlockAbort, Fail, Abort
<1>5. ASSUME NEW u \in Tx, NEW c \in Colors, Acquire(u, c) PROVE FALSE
  BY <1>5 DEF Acquire
<1>6. ASSUME NEW o \in Orders, Advance(o) \/ Reopen(o) PROVE FALSE
  BY <1>6 DEF Advance, Reopen
<1>7. ASSUME Environment PROVE FALSE
  BY <1>7 DEF Environment, InsertLine, ChangeQuantity, DeleteLine, EditCart, SetForSale,
     SetPrice, Restock, AllButCatalogue
<1> QED BY <1>1, <1>2, <1>3, <1>4, <1>5, <1>6, <1>7 DEF Next

LEMMA WholeCartStep ==
    ASSUME IInv, [Next]_vars, NEW t \in Checkouts,
           outcome[t] # "placed", outcome'[t] = "placed"
    PROVE  /\ line'[t] = MyCart(t)
           /\ reserved'[t] = MyCart(t)
           /\ stock' = [c \in Colors |-> stock[c] - MyCart(t)[c]]
           /\ cart' = [cart EXCEPT ![Buyer[t]] = Zero]
<1>1. TypeOK /\ Next
  BY DEF IInv, vars
<1>2. Commit(t)
  BY <1>1, PlacedByCommit
<1>3. /\ draft[t].line = MyCart(t)
      /\ draft[t].reserved = MyCart(t)
      /\ draft[t].taken = MyCart(t)
  BY <1>2, DraftTakesCart DEF Commit
<1> QED BY <1>1, <1>2, <1>3 DEF Commit, CartAfter, TypeOK

\* With quiet carts, a call that returns orders took the whole cart as it stood at
\* that moment into lines, reservations and stock, and left the cart empty.
THEOREM WholeCartPlaced == QuietCart => (Spec => PlacesWholeCart)
<1>1. IInv /\ [Next]_vars =>
         [\A t \in Checkouts : outcome[t] # "placed" /\ outcome'[t] = "placed" =>
             /\ line'[t] = MyCart(t)
             /\ reserved'[t] = MyCart(t)
             /\ stock' = [c \in Colors |-> stock[c] - MyCart(t)[c]]
             /\ cart' = [cart EXCEPT ![Buyer[t]] = Zero]]_vars
  BY WholeCartStep
<1> QED BY <1>1, Invariance, PTL DEF Spec, PlacesWholeCart

\* A draft reserves only for the sellers it has an order for.
DraftReserves(t) ==
    \A c \in Colors : draft[t].reserved[c] # 0 => SellerOf[c] \in draft[t].sellers

ReserveInv ==
    TypeOK /\ (\A t \in Checkouts : DraftReserves(t)) /\ OnlyOpenOrdersReserve

LEMMA InitReserveInv == Init => ReserveInv
  BY InitTypeOK
  DEF Init, ReserveInv, DraftReserves, OnlyOpenOrdersReserve, NoDraft, Draft, Zero

\* A step that writes no reservation, publishes none, and closes no order.
LEMMA ReserveFrame ==
    ASSUME ReserveInv, TypeOK',
           \A u \in Checkouts : draft'[u] \in {draft[u], NoDraft},
           \A u \in Checkouts, c \in Colors : reserved'[u][c] \in {0, reserved[u][c]},
           \A u \in Checkouts, c \in Colors :
               reserved'[u][c] # 0 =>
                   \/ orderState'[<<u, SellerOf[c]>>] = orderState[<<u, SellerOf[c]>>]
                   \/ orderState'[<<u, SellerOf[c]>>] \in OpenStates
    PROVE  ReserveInv'
<1>1. \A u \in Checkouts : DraftReserves(u)'
  BY DEF ReserveInv, DraftReserves, NoDraft, Draft, Zero
<1>2. OnlyOpenOrdersReserve'
  BY DEF ReserveInv, OnlyOpenOrdersReserve
<1> QED BY <1>1, <1>2 DEF ReserveInv

\* An order that reserves: what the trigger's DELETE leaves of it.
LEMMA Dropped ==
    ASSUME TypeOK, NEW o \in Orders, reserved' = DropReservation(o)
    PROVE  \A u \in Checkouts, c \in Colors :
               /\ reserved'[u][c] \in {0, reserved[u][c]}
               /\ reserved'[u][c] # 0 => <<u, SellerOf[c]>> # o
<1>1. o[1] \in Checkouts /\ o = <<o[1], o[2]>>
  BY DEF Orders
<1>2. reserved'[o[1]] = Write(reserved[o[1]], o[2], Zero)
  BY <1>1 DEF DropReservation, TypeOK
<1>3. \A u \in Checkouts : u # o[1] => reserved'[u] = reserved[u]
  BY DEF DropReservation, TypeOK
<1>4. \A c \in Colors : reserved'[o[1]][c] =
          IF SellerOf[c] = o[2] THEN 0 ELSE reserved[o[1]][c]
  BY <1>2 DEF Write, Zero
<1>5. ASSUME NEW u \in Checkouts, NEW c \in Colors
      PROVE  /\ reserved'[u][c] \in {0, reserved[u][c]}
             /\ reserved'[u][c] # 0 => <<u, SellerOf[c]>> # o
  <2>1. CASE u = o[1]
    BY <2>1, <1>1, <1>4
  <2>2. CASE u # o[1]
    BY <2>2, <1>1, <1>3
  <2> QED BY <2>1, <2>2
<1> QED BY <1>5

\* The statements of place_order, and the steps every transaction may take.
LEMMA ReserveCall ==
    ASSUME ReserveInv, TypeOK', NEW t \in Checkouts, Checkout(t)
    PROVE  ReserveInv'
<1> USE CheckoutAssumption
<1>t. t \in Tx /\ TypeOK /\ draft \in [Checkouts -> Drafts] /\ draft[t] \in Drafts
  BY DEF Tx, ReserveInv, TypeOK
<1>a. ASSUME NEW r, Abort(t, r) PROVE ReserveInv'
  BY <1>a, ReserveFrame DEF Abort, End, tables
<1>u. ASSUME UNCHANGED <<tables, draft>> PROVE ReserveInv'
  BY <1>u, ReserveFrame DEF tables
<1>1. CASE Begin(t) \/ CartEmpty(t) \/ LockColours(t) \/ CheckForSale(t) \/ CheckStock(t)
           \/ OpenLoop(t) \/ StockCheckFails(t)
  BY <1>1, <1>a, <1>u DEF Begin, CartEmpty, LockColours, CheckForSale, CheckStock,
     OpenLoop, StockCheckFails
<1>2. ASSUME UNCHANGED tables, DraftReserves(t)',
             \A u \in Checkouts \ {t} : draft'[u] = draft[u]
      PROVE  ReserveInv'
  BY <1>2 DEF ReserveInv, tables, DraftReserves, OnlyOpenOrdersReserve
<1>3. ASSUME NEW s \in Sellers, InsertLines(t, s) PROVE ReserveInv'
  <2>1. /\ draft'[t].reserved = draft[t].reserved
        /\ draft'[t].sellers = draft[t].sellers \cup {s}
        /\ \A u \in Checkouts \ {t} : draft'[u] = draft[u]
    BY <1>3, <1>t DEF InsertLines, Draft
  <2> QED BY <1>2, <1>3, <2>1 DEF InsertLines, ReserveInv, DraftReserves
<1>4. ASSUME NEW s \in Sellers, InsertReservation(t, s) PROVE ReserveInv'
  <2>1. /\ draft'[t].reserved = Write(draft[t].reserved, s, ToReserve(t, s))
        /\ draft'[t].sellers = draft[t].sellers
        /\ \A u \in Checkouts \ {t} : draft'[u] = draft[u]
        /\ s \in draft[t].sellers
    BY <1>4, <1>t DEF InsertReservation, Draft
  <2>2. \A c \in Colors : SellerOf[c] # s => draft'[t].reserved[c] = draft[t].reserved[c]
    BY <2>1 DEF Write
  <2> QED BY <1>2, <1>4, <2>1, <2>2 DEF InsertReservation, ReserveInv, DraftReserves
<1>5. CASE UpdateStock(t)
  <2>1. /\ draft'[t].reserved = draft[t].reserved
        /\ draft'[t].sellers = draft[t].sellers
        /\ \A u \in Checkouts \ {t} : draft'[u] = draft[u]
    BY <1>5, <1>t DEF UpdateStock, Draft
  <2> QED BY <1>2, <1>5, <2>1 DEF UpdateStock, ReserveInv, DraftReserves
<1>6. CASE Commit(t)
  <2>1. /\ reserved' = [reserved EXCEPT ![t] = draft[t].reserved]
        /\ orderState' = [o \in Orders |->
               IF o[1] = t /\ o[2] \in draft[t].sellers THEN "pending" ELSE orderState[o]]
        /\ \A u \in Checkouts : draft'[u] \in {draft[u], NoDraft}
    BY <1>6 DEF Commit, End
  <2>2. \A u \in Checkouts : DraftReserves(u)'
    BY <2>1 DEF ReserveInv, DraftReserves, NoDraft, Draft, Zero
  <2>3. ASSUME NEW u \in Checkouts, NEW c \in Colors, reserved'[u][c] # 0
        PROVE  orderState'[<<u, SellerOf[c]>>] \in OpenStates
    <3>1. <<u, SellerOf[c]>> \in Orders
      BY DEF Orders
    <3>2. CASE u = t
      <4>1. SellerOf[c] \in draft[t].sellers
        BY <2>1, <2>3, <3>2, <1>t DEF ReserveInv, DraftReserves, TypeOK
      <4> QED BY <2>1, <3>1, <3>2, <4>1 DEF OpenStates, OrderStates
    <3>3. CASE u # t
      BY <2>1, <2>3, <3>1, <3>3, <1>t DEF ReserveInv, OnlyOpenOrdersReserve, TypeOK
    <3> QED BY <3>2, <3>3
  <2> QED BY <2>2, <2>3 DEF ReserveInv, OnlyOpenOrdersReserve
<1> QED BY <1>1, <1>3, <1>4, <1>5, <1>6 DEF Checkout

\* The steps an order takes after it is placed.
LEMMA ReserveSettlement ==
    ASSUME ReserveInv, TypeOK',
           \/ \E o \in Orders : Advance(o) \/ Reopen(o)
           \/ \E t \in Settlements : CommitCancel(t)
    PROVE  ReserveInv'
<1>t. TypeOK
  BY DEF ReserveInv
<1>1. ASSUME NEW o \in Orders, Advance(o), orderState'[o] # "delivered" PROVE ReserveInv'
  <2>1. orderState'[o] \in OpenStates /\ reserved' = reserved /\ draft' = draft
        /\ \A p \in Orders \ {o} : orderState'[p] = orderState[p]
    BY <1>1, <1>t DEF Advance, NextState, OpenStates, OrderStates, TypeOK
  <2> QED BY <2>1, ReserveFrame, CheckoutAssumption DEF Orders
<1>2. ASSUME NEW o \in Orders, Advance(o), orderState'[o] = "delivered" PROVE ReserveInv'
  <2>1. reserved' = DropReservation(o) /\ draft' = draft
        /\ \A p \in Orders \ {o} : orderState'[p] = orderState[p]
    BY <1>2, <1>t DEF Advance, TypeOK
  <2> QED BY <2>1, <1>t, Dropped, ReserveFrame, CheckoutAssumption DEF Orders
<1>3. ASSUME NEW o \in Orders, Reopen(o) PROVE ReserveInv'
  <2>1. orderState'[o] \in OpenStates /\ reserved' = reserved /\ draft' = draft
        /\ \A p \in Orders \ {o} : orderState'[p] = orderState[p]
    BY <1>3, <1>t DEF Reopen, OpenStates, OrderStates, TypeOK
  <2> QED BY <2>1, ReserveFrame, CheckoutAssumption DEF Orders
<1>4. ASSUME NEW t \in Settlements, CommitCancel(t) PROVE ReserveInv'
  <2>1. PICK o \in Orders : o = target[t]
    BY <1>4, <1>t DEF CommitCancel, TypeOK
  <2>2. reserved' = DropReservation(o)
        /\ \A p \in Orders \ {o} : orderState'[p] = orderState[p]
    BY <1>4, <1>t, <2>1 DEF CommitCancel, ReservedAfter, TypeOK
  <2>3. \A u \in Checkouts : draft'[u] \in {draft[u], NoDraft}
    BY <1>4 DEF CommitCancel, End
  <2> QED BY <2>2, <2>3, <1>t, Dropped, ReserveFrame, CheckoutAssumption DEF Orders
<1> QED BY <1>1, <1>2, <1>3, <1>4

LEMMA NextReserveInv == ReserveInv /\ [Next]_vars => ReserveInv'
<1> SUFFICES ASSUME ReserveInv, [Next]_vars PROVE ReserveInv'
  OBVIOUS
<1>t. TypeOK'
  BY NextTypeOK DEF ReserveInv
<1>1. ASSUME NEW t \in Checkouts, NEW e \in Outcomes, RejectCaller(t, e) PROVE ReserveInv'
  BY <1>t, <1>1, ReserveFrame DEF RejectCaller, Abort, End, tables
<1>2. ASSUME NEW t \in Tx, DeadlockAbort(t) \/ Fail(t) PROVE ReserveInv'
  BY <1>t, <1>2, ReserveFrame DEF DeadlockAbort, Fail, Abort, End, tables
<1>3. ASSUME NEW t \in Tx, NEW c \in Colors, Acquire(t, c) PROVE ReserveInv'
  BY <1>t, <1>3, ReserveFrame DEF Acquire, tables
<1>4. ASSUME NEW t \in Settlements, NEW o \in Orders, StartCancel(t, o) PROVE ReserveInv'
  BY <1>t, <1>4, ReserveFrame DEF StartCancel, tables
<1>5. CASE Environment \/ UNCHANGED vars
  <2>1. UNCHANGED <<draft, reserved, orderState>>
    BY <1>5 DEF Environment, InsertLine, ChangeQuantity, DeleteLine, EditCart, SetForSale,
       SetPrice, Restock, AllButCatalogue, vars
  <2> QED BY <1>t, <2>1, ReserveFrame
<1> QED
  BY <1>t, <1>1, <1>2, <1>3, <1>4, <1>5, ReserveCall, ReserveSettlement DEF Next

\* Whatever the customers edit and however calls fail, only an open order reserves.
THEOREM ClosedOrdersReserveNothing == Spec => []OnlyOpenOrdersReserve
<1>1. ReserveInv => OnlyOpenOrdersReserve
  BY DEF ReserveInv
<1> QED BY <1>1, InitReserveInv, NextReserveInv, PTL DEF Spec

-----------------------------------------------------------------------------
(* Units are conserved                                                     *)

\* What each call has reserved of colour c.
ReservedOf(c) == [t \in Checkouts |-> reserved[t][c]]

LEMMA ReservedIsSum == ASSUME NEW c PROVE ReservedUnits(c) = Sum(ReservedOf(c), Checkouts)
<1> DEFINE g == ReservedOf(c)
           Eqn(h) == h = [s \in SUBSET Checkouts |->
                             IF s = {} THEN 0
                             ELSE reserved[Pick(s)][c] + h[s \ {Pick(s)}]]
           k == CHOOSE h : Eqn(h)
<1>1. ReservedUnits(c) = k[Checkouts]
  BY DEF ReservedUnits, MapThenSumSet, MapThenFoldSet, Pick
<1>2. ASSUME NEW h PROVE Eqn(h) <=> IsSum(h, g, Checkouts)
  <2>1. ASSUME NEW s \in SUBSET Checkouts, s # {} PROVE reserved[Pick(s)][c] = g[Pick(s)]
    BY <2>1 DEF Pick, ReservedOf
  <2> HIDE DEF g
  <2> QED BY <2>1 DEF IsSum
<1>3. \E h : IsSum(h, g, Checkouts)
  <2> HIDE DEF IsSum, g
  <2> QED BY FinitelyManyCalls, SumExists
<1>4. IsSum(k, g, Checkouts)
  <2> HIDE DEF Eqn, IsSum, g
  <2> QED BY <1>2, <1>3
<1>5. k[Checkouts] = Sum(g, Checkouts)
  <2> HIDE DEF IsSum, g, k
  <2> QED BY <1>4, FinitelyManyCalls, SumIs
<1> QED BY <1>1, <1>5

LEMMA ReservedIsSumNext == ASSUME NEW c PROVE ReservedUnits(c)' = Sum(ReservedOf(c)', Checkouts)
<1>1. (ReservedUnits(c) = Sum(ReservedOf(c), Checkouts))'
  BY ReservedIsSum, PTL
<1> QED BY <1>1 DEF Sum, IsSum

\* The units of the orders of one call change, and no others.
LEMMA UnitsChange ==
    ASSUME TypeOK, TypeOK', NEW t \in Checkouts,
           \A u \in Checkouts \ {t} : reserved'[u] = reserved[u],
           NEW c \in Colors
    PROVE  /\ ReservedUnits(c) \in Int
           /\ ReservedUnits(c)' = (ReservedUnits(c) - reserved[t][c]) + reserved'[t][c]
<1> DEFINE f == ReservedOf(c)
           g == ReservedOf(c)'
<1>1. ASSUME NEW u \in Checkouts
      PROVE  /\ f[u] = reserved[u][c] /\ g[u] = reserved'[u][c]
             /\ f[u] \in Int /\ g[u] \in Int
  BY CheckoutAssumption DEF TypeOK, Quantities, ReservedOf
<1>2. \A u \in Checkouts \ {t} : f[u] = g[u]
  BY <1>1
<1>3. ReservedUnits(c) = Sum(f, Checkouts) /\ ReservedUnits(c)' = Sum(g, Checkouts)
  BY ReservedIsSum, ReservedIsSumNext
<1> HIDE DEF f, g
<1>4. /\ Sum(f, Checkouts) \in Int
      /\ Sum(g, Checkouts) = (Sum(f, Checkouts) - f[t]) + g[t]
  <2>1. \A x \in Checkouts : f[x] \in Int /\ g[x] \in Int
    BY <1>1
  <2> QED BY <2>1, <1>2, FinitelyManyCalls, SumChange
<1> QED BY <1>1, <1>3, <1>4

LEMMA UnitsSame ==
    ASSUME reserved' = reserved, NEW c
    PROVE  ReservedUnits(c)' = ReservedUnits(c)
  BY DEF ReservedUnits, MapThenSumSet, MapThenFoldSet

\* The units an order still reserves leave its call's reservation when dropped.
LEMMA UnitsDropped ==
    ASSUME TypeOK, TypeOK', NEW o \in Orders, reserved' = DropReservation(o),
           NEW c \in Colors
    PROVE  /\ ReservedUnits(c) \in Int /\ Reservation(o)[c] \in Int
           /\ ReservedUnits(c)' = ReservedUnits(c) - Reservation(o)[c]
<1>1. o[1] \in Checkouts
  BY DEF Orders
<1>2. \A u \in Checkouts \ {o[1]} : reserved'[u] = reserved[u]
  BY DEF DropReservation, TypeOK
<1>3. /\ reserved'[o[1]][c] = IF SellerOf[c] = o[2] THEN 0 ELSE reserved[o[1]][c]
      /\ Reservation(o)[c] = IF SellerOf[c] = o[2] THEN reserved[o[1]][c] ELSE 0
      /\ reserved[o[1]][c] \in Int
  BY <1>1, CheckoutAssumption
  DEF DropReservation, Write, Zero, Reservation, SoldBy, TypeOK, Quantities
<1>4. /\ ReservedUnits(c) \in Int
      /\ ReservedUnits(c)' = (ReservedUnits(c) - reserved[o[1]][c]) + reserved'[o[1]][c]
  BY <1>1, <1>2, UnitsChange
<1> QED BY <1>3, <1>4

\* A call that publishes its draft had published nothing before.
LEMMA UnitsPublished ==
    ASSUME IInv, TypeOK', NEW t \in Checkouts, Commit(t), NEW c \in Colors
    PROVE  /\ ReservedUnits(c) \in Int /\ draft[t].taken[c] \in Int
           /\ ReservedUnits(c)' = ReservedUnits(c) + draft[t].taken[c]
<1>t. TypeOK /\ pc[t] = "taking"
  BY DEF IInv, Commit
<1>1. reserved[t][c] = 0
  <2>1. line[t] = Zero
    BY <1>t DEF IInv, CallInv, NoOrderYet
  <2>2. reserved[t][c] \in {0, line[t][c]}
    BY DEF IInv, ReservationMatchesOrder
  <2> QED BY <2>1, <2>2 DEF Zero
<1>2. draft[t].reserved = draft[t].taken
  BY <1>t, DraftTakesCart
<1>3. /\ reserved'[t] = draft[t].taken
      /\ \A u \in Checkouts \ {t} : reserved'[u] = reserved[u]
  BY <1>2, <1>t DEF Commit, TypeOK
<1>4. draft[t].taken[c] \in Int
  BY <1>t, CheckoutAssumption DEF TypeOK, Drafts, Quantities
<1>5. /\ ReservedUnits(c) \in Int
      /\ ReservedUnits(c)' = (ReservedUnits(c) - reserved[t][c]) + reserved'[t][c]
  BY <1>t, <1>3, UnitsChange
<1> QED BY <1>1, <1>3, <1>4, <1>5

LEMMA InitUnits == Init => UnitsConserved
<1> SUFFICES ASSUME Init, NEW c \in Colors
             PROVE  stock[c] + ReservedUnits(c) + consumed[c] = supply[c]
  BY DEF UnitsConserved
<1>1. ReservedUnits(c) = 0
  <2> DEFINE f == ReservedOf(c)
  <2>1. \A u \in Checkouts : f[u] = 0
    BY DEF Init, ReservedOf, Zero
  <2> HIDE DEF f
  <2>2. 0 * Cardinality(Checkouts) = 0
    BY FinitelyManyCalls, FS_CardinalityType
  <2>3. /\ Sum(f, Checkouts) \in Int
        /\ 0 * Cardinality(Checkouts) <= Sum(f, Checkouts)
        /\ Sum(f, Checkouts) <= 0 * Cardinality(Checkouts)
    BY <2>1, FinitelyManyCalls, SumBounds
  <2>4. Sum(f, Checkouts) = 0
    BY <2>2, <2>3
  <2> QED BY <2>4, ReservedIsSum DEF f
<1>2. consumed[c] = 0 /\ supply[c] = stock[c] /\ stock[c] \in Int
  BY CheckoutAssumption DEF Init, Zero
<1> QED BY <1>1, <1>2

\* A step that writes none of the four tables the equation speaks of.
LEMMA UnitsFrame ==
    ASSUME UnitsConserved, UNCHANGED <<stock, reserved, consumed, supply>>
    PROVE  UnitsConserved'
<1> SUFFICES ASSUME NEW c \in Colors
             PROVE  (stock[c] + ReservedUnits(c) + consumed[c] = supply[c])'
  BY DEF UnitsConserved
<1>1. ReservedUnits(c)' = ReservedUnits(c)
  BY UnitsSame
<1> QED BY <1>1 DEF UnitsConserved

LEMMA NextUnits ==
    ASSUME IInv, TypeOK', UnitsConserved, [Next]_vars
    PROVE  UnitsConserved'
<1>t. TypeOK
  BY DEF IInv
<1>g. ASSUME NEW c \in Colors
      PROVE  stock[c] \in Int /\ consumed[c] \in Int /\ supply[c] \in Int
             /\ stock[c] + ReservedUnits(c) + consumed[c] = supply[c]
  BY <1>t DEF TypeOK, UnitsConserved
<1>a. ASSUME NEW t, NEW r, Abort(t, r) PROVE UnitsConserved'
  BY <1>a, UnitsFrame DEF Abort, tables
<1>u. ASSUME UNCHANGED tables PROVE UnitsConserved'
  BY <1>u, UnitsFrame DEF tables
<1>1. ASSUME NEW t \in Checkouts, Checkout(t), ~Commit(t) PROVE UnitsConserved'
  BY <1>1, <1>a, <1>u DEF Checkout, Begin, CartEmpty, LockColours, CheckForSale, CheckStock,
     OpenLoop, InsertLines, InsertReservation, UpdateStock, StockCheckFails
<1>2. ASSUME NEW t \in Checkouts, Commit(t) PROVE UnitsConserved'
  <2> SUFFICES ASSUME NEW c \in Colors
               PROVE  (stock[c] + ReservedUnits(c) + consumed[c] = supply[c])'
    BY DEF UnitsConserved
  <2>1. /\ ReservedUnits(c) \in Int /\ draft[t].taken[c] \in Int
        /\ ReservedUnits(c)' = ReservedUnits(c) + draft[t].taken[c]
    BY <1>2, UnitsPublished
  <2>2. stock'[c] = stock[c] - draft[t].taken[c] /\ UNCHANGED <<consumed, supply>>
    BY <1>2 DEF Commit
  <2> QED BY <2>1, <2>2, <1>g
<1>3. ASSUME NEW o \in Orders, Advance(o), orderState'[o] = "delivered" PROVE UnitsConserved'
  <2> SUFFICES ASSUME NEW c \in Colors
               PROVE  (stock[c] + ReservedUnits(c) + consumed[c] = supply[c])'
    BY DEF UnitsConserved
  <2>1. reserved' = DropReservation(o) /\ UNCHANGED <<stock, supply>>
        /\ consumed'[c] = consumed[c] + Reservation(o)[c]
    BY <1>3 DEF Advance
  <2>2. /\ ReservedUnits(c) \in Int /\ Reservation(o)[c] \in Int
        /\ ReservedUnits(c)' = ReservedUnits(c) - Reservation(o)[c]
    BY <2>1, <1>t, UnitsDropped
  <2> QED BY <2>1, <2>2, <1>g
<1>4. ASSUME NEW t \in Settlements, CommitCancel(t) PROVE UnitsConserved'
  <2> DEFINE o == target[t]
  <2> SUFFICES ASSUME NEW c \in Colors
               PROVE  (stock[c] + ReservedUnits(c) + consumed[c] = supply[c])'
    BY DEF UnitsConserved
  <2>1. o \in Orders
    BY <1>4, <1>t DEF CommitCancel, TypeOK
  <2>2. reserved' = DropReservation(o) /\ UNCHANGED <<consumed, supply>>
        /\ stock'[c] = stock[c] + Reservation(o)[c]
    BY <1>4 DEF CommitCancel, ReservedAfter, Returned
  <2>3. /\ ReservedUnits(c) \in Int /\ Reservation(o)[c] \in Int
        /\ ReservedUnits(c)' = ReservedUnits(c) - Reservation(o)[c]
    <3> HIDE DEF o
    <3> QED BY <2>1, <2>2, <1>t, UnitsDropped
  <2> QED BY <2>2, <2>3, <1>g
<1>5. ASSUME NEW d \in Colors, NEW n \in 0 .. MaxStock, Restock(d, n) PROVE UnitsConserved'
  <2> SUFFICES ASSUME NEW c \in Colors
               PROVE  (stock[c] + ReservedUnits(c) + consumed[c] = supply[c])'
    BY DEF UnitsConserved
  <2>1. reserved' = reserved /\ consumed' = consumed
    BY <1>5 DEF Restock, AllButCatalogue
  <2>2. ReservedUnits(c)' = ReservedUnits(c)
    BY <2>1, UnitsSame
  <2>3. ReservedUnits(c) \in Int
    <3> DEFINE f == ReservedOf(c)
    <3>1. \A u \in Checkouts : f[u] \in Int
      BY <1>t, CheckoutAssumption DEF TypeOK, Quantities, ReservedOf
    <3> HIDE DEF f
    <3>2. Sum(f, Checkouts) \in Int
      BY <3>1, FinitelyManyCalls, SumInt
    <3> QED BY <3>2, ReservedIsSum DEF f
  <2>4. CASE c = d
    <3>1. stock'[c] = n /\ supply'[c] = (supply[c] + n) - stock[c] /\ n \in Int
      BY <1>5, <2>4, <1>t, CheckoutAssumption DEF Restock, TypeOK
    <3> QED BY <3>1, <2>1, <2>2, <2>3, <1>g
  <2>5. CASE c # d
    <3>1. stock'[c] = stock[c] /\ supply'[c] = supply[c]
      BY <1>5, <2>5, <1>t DEF Restock, TypeOK
    <3> QED BY <3>1, <2>1, <2>2, <1>g
  <2> QED BY <2>4, <2>5
<1>6. ASSUME \/ \E t \in Checkouts, e \in Outcomes : RejectCaller(t, e)
             \/ \E t \in Tx : DeadlockAbort(t) \/ Fail(t)
      PROVE  UnitsConserved'
  BY <1>6, <1>a DEF RejectCaller, DeadlockAbort, Fail
<1>7. ASSUME \/ \E t \in Settlements, o \in Orders : StartCancel(t, o)
             \/ \E t \in Tx, c \in Colors : Acquire(t, c)
             \/ UNCHANGED vars
      PROVE  UnitsConserved'
  BY <1>7, <1>u DEF StartCancel, Acquire, vars, tables
<1>8. ASSUME NEW o \in Orders, \/ Advance(o) /\ orderState'[o] # "delivered"
                              \/ Reopen(o)
      PROVE  UnitsConserved'
  BY <1>8, UnitsFrame DEF Advance, Reopen
<1>9. ASSUME Environment, UNCHANGED <<stock, supply>> PROVE UnitsConserved'
  BY <1>9, UnitsFrame DEF Environment, InsertLine, ChangeQuantity, DeleteLine, EditCart,
     SetForSale, SetPrice, Restock, AllButCatalogue
<1>10. ASSUME Environment, ~UNCHANGED <<stock, supply>> PROVE UnitsConserved'
  BY <1>5, <1>10 DEF Environment, InsertLine, ChangeQuantity, DeleteLine, EditCart,
     SetForSale, SetPrice
<1> QED
  BY <1>1, <1>2, <1>3, <1>4, <1>6, <1>7, <1>8, <1>9, <1>10 DEF Next

\* With quiet carts, no unit is lost or returned twice: what the sellers put on the
\* shelf is on the shelf, reserved, or gone with a delivered order.
THEOREM NoUnitLost == QuietCart => (Spec => []UnitsConserved)
<1> SUFFICES ASSUME QuietCart PROVE Spec => []UnitsConserved
  OBVIOUS
<1>1. IInv /\ IInv' /\ UnitsConserved /\ [Next]_vars => UnitsConserved'
  BY NextUnits DEF IInv
<1>2. Spec => []IInv
  BY Invariance
<1> QED BY <1>1, <1>2, InitUnits, PTL DEF Spec

-----------------------------------------------------------------------------
(* Checkouts do not wait for each other in a circle                        *)

\* A call holds no lock and wants none before its first statement and after its
\* end; while that statement runs, it wants only colours above those it holds.
LocksInOrder(t) ==
    /\ pc[t] \in {"idle", "begun", "done"} => want[t] = {} /\ Held(t) = {}
    /\ pc[t] = "locking" => \A c \in Held(t), d \in want[t] : c < d
    /\ pc[t] # "returning"

OrderInv == \A t \in Checkouts : LocksInOrder(t)

LEMMA InitOrder == Init => OrderInv
  BY DEF Init, OrderInv, LocksInOrder, Held, Tx

\* A call that moves no lock and stays clear of its first statement.
LEMMA OrderFrame ==
    ASSUME NEW t \in Checkouts, LocksInOrder(t),
           lock'[t] = lock[t], want'[t] = want[t],
           pc'[t] = pc[t] \/ (pc[t] = "idle" /\ pc'[t] = "begun")
    PROVE  LocksInOrder(t)'
  BY DEF LocksInOrder, Held

LEMMA NextOrder == TypeOK /\ OrderInv /\ [Next]_vars => OrderInv'
<1> SUFFICES ASSUME TypeOK, OrderInv, [Next]_vars, NEW t \in Checkouts
             PROVE  LocksInOrder(t)'
  BY DEF OrderInv
<1>t. t \in Tx /\ t \notin Settlements /\ LocksInOrder(t)
  BY CheckoutAssumption DEF Tx, OrderInv
<1>e. ASSUME NEW u \in Tx, NEW r, End(u, r) PROVE LocksInOrder(t)'
  <2>1. CASE u = t
    BY <2>1, <1>e, <1>t DEF End, Released, LocksInOrder, Held, TypeOK
  <2>2. CASE u # t
    <3>1. lock'[t] = lock[t] /\ want'[t] = want[t] /\ pc'[t] = pc[t]
      BY <2>2, <1>e, <1>t DEF End, Released, TypeOK
    <3> QED BY <3>1, <1>t, OrderFrame
  <2> QED BY <2>1, <2>2
<1>u. ASSUME UNCHANGED <<lock, want, pc>> PROVE LocksInOrder(t)'
  BY <1>u, <1>t, OrderFrame
<1>1. ASSUME NEW u \in Checkouts, Checkout(u) PROVE LocksInOrder(t)'
  <2>u. u \in Tx
    BY DEF Tx
  <2>1. ASSUME NEW r, Abort(u, r) PROVE LocksInOrder(t)'
    BY <2>1, <2>u, <1>e DEF Abort
  <2>2. ASSUME u # t,
               \A v \in Tx \ {u} : want'[v] = want[v] /\ pc'[v] = pc[v],
               lock' = lock
        PROVE  LocksInOrder(t)'
    BY <2>2, <1>t, OrderFrame
  <2>3. ASSUME u = t, lock' = lock, pc'[t] \in AfterLocks PROVE LocksInOrder(t)'
    BY <2>3 DEF LocksInOrder, AfterLocks
  <2>4. CASE Begin(u)
    BY <2>4, <2>2, <1>t, <2>u, OrderFrame DEF Begin, Go, TypeOK
  <2>5. CASE LockColours(u)
    <3>1. CASE u = t
      <4>1. pc'[t] = "locking" /\ Held(t)' = {}
        BY <2>5, <3>1, <1>t DEF LockColours, Go, LocksInOrder, Held, TypeOK
      <4> QED BY <4>1 DEF LocksInOrder
    <3>2. CASE u # t
      BY <2>5, <3>2, <2>2, <2>u DEF LockColours, Go, TypeOK
    <3> QED BY <3>1, <3>2
  <2>6. CASE CartEmpty(u) \/ StockCheckFails(u)
    BY <2>6, <2>1 DEF CartEmpty, StockCheckFails
  <2>7. CASE CheckForSale(u) \/ CheckStock(u)
    <3>1. CASE lock' = lock /\ want' = want /\ \E q \in AfterLocks : \E p : Go(u, p, q)
      <4>1. CASE u = t
        BY <3>1, <4>1, <2>3, <1>t DEF Go, TypeOK
      <4>2. CASE u # t
        BY <3>1, <4>2, <2>2, <2>u DEF Go, TypeOK
      <4> QED BY <4>1, <4>2
    <3> QED BY <2>7, <3>1, <2>1 DEF CheckForSale, CheckStock, AfterLocks
  <2>8. CASE \/ OpenLoop(u) \/ UpdateStock(u)
             \/ \E s \in Sellers : InsertLines(u, s) \/ InsertReservation(u, s)
    <3>1. lock' = lock /\ \A v \in Tx \ {u} : want'[v] = want[v] /\ pc'[v] = pc[v]
      BY <2>8, <2>u DEF OpenLoop, UpdateStock, InsertLines, InsertReservation, Go, TypeOK
    <3>2. pc'[u] \in AfterLocks
      BY <2>8, <2>u DEF OpenLoop, UpdateStock, InsertLines, InsertReservation, Go, TypeOK,
         AfterLocks
    <3> QED BY <3>1, <3>2, <2>2, <2>3
  <2>9. CASE Commit(u)
    BY <2>9, <2>u, <1>e DEF Commit
  <2> QED BY <1>1, <2>4, <2>5, <2>6, <2>7, <2>8, <2>9 DEF Checkout
<1>2. ASSUME \/ \E u \in Checkouts, e \in Outcomes : RejectCaller(u, e)
             \/ \E u \in Tx : DeadlockAbort(u) \/ Fail(u)
             \/ \E u \in Settlements : CommitCancel(u)
      PROVE  LocksInOrder(t)'
  BY <1>2, <1>e DEF RejectCaller, DeadlockAbort, Fail, CommitCancel, Abort, Tx
<1>3. ASSUME NEW u \in Settlements, NEW o \in Orders, StartCancel(u, o)
      PROVE  LocksInOrder(t)'
  <2>1. u # t /\ u \in Tx
    BY <1>t DEF Tx
  <2> QED BY <2>1, <1>3, <1>t, OrderFrame DEF StartCancel, Go, TypeOK
<1>4. ASSUME NEW u \in Tx, NEW c \in Colors, Acquire(u, c) PROVE LocksInOrder(t)'
  <2>1. CASE u # t
    <3>1. lock'[t] = lock[t] /\ want'[t] = want[t] /\ pc'[t] = pc[t]
      BY <2>1, <1>4, <1>t DEF Acquire, TypeOK
    <3> QED BY <3>1, <1>t, OrderFrame
  <2>2. CASE u = t
    <3>1. c \in want[t] /\ want'[t] = want[t] \ {c} /\ pc' = pc
      BY <2>2, <1>4, <1>t DEF Acquire, NextColours, TypeOK
    <3>2. \A d \in Colors : d # c => lock'[t][d] = lock[t][d]
      BY <2>2, <1>4, <1>t DEF Acquire, TypeOK
    <3>3. pc[t] \notin {"idle", "begun", "done"}
      BY <3>1, <1>t DEF LocksInOrder
    <3>4. ASSUME pc[t] = "locking", NEW d \in Held(t)', NEW e \in want'[t] PROVE d < e
      <4>1. \A x \in want[t] : c <= x
        BY <2>2, <1>4, <3>4 DEF Acquire, NextColours
      <4>2. want[t] \subseteq Colors /\ Colors \subseteq Nat
        BY <1>t, CheckoutAssumption DEF TypeOK
      <4>3. CASE d = c
        <5>1. e \in want[t] /\ e # c
          BY <3>1
        <5>2. c \in Nat /\ e \in Nat /\ c <= e
          BY <3>1, <4>1, <4>2, <5>1
        <5> QED BY <4>3, <5>1, <5>2
      <4>4. CASE d # c
        <5>1. d \in Held(t)
          BY <4>4, <3>2 DEF Held
        <5> QED BY <5>1, <3>1, <3>4, <1>t DEF LocksInOrder
      <4> QED BY <4>3, <4>4
    <3> QED BY <3>1, <3>3, <3>4, <1>t DEF LocksInOrder
  <2> QED BY <2>1, <2>2
<1>5. ASSUME \/ \E o \in Orders : Advance(o) \/ Reopen(o)
             \/ Environment
             \/ UNCHANGED vars
      PROVE  LocksInOrder(t)'
  BY <1>5, <1>u DEF Advance, Reopen, Environment, InsertLine, ChangeQuantity, DeleteLine,
     EditCart, SetForSale, SetPrice, Restock, AllButCatalogue, vars
<1> QED
  BY <1>1, <1>2, <1>3, <1>4, <1>5 DEF Next

\* The next colour of a call that waits for another is below the next colour of
\* that one, if it waits too: what is held is below what is still wanted.
LEMMA WaitsAbove ==
    ASSUME IInv, OrderInv, NEW t \in Checkouts, NEW u \in Checkouts, Waits(t, u),
           NEW c \in NextColours(t), NEW d \in NextColours(u)
    PROVE  c < d
<1>t. TypeOK /\ Colors \subseteq Nat /\ t \in Tx /\ u \in Tx
  BY CheckoutAssumption DEF IInv, Tx
<1>1. ASSUME NEW v \in Checkouts, NEW e \in NextColours(v)
      PROVE  /\ pc[v] = "locking" /\ e \in want[v] /\ e \in Nat
             /\ \A f \in want[v] : e <= f
  <2>1. e \in want[v]
    BY DEF NextColours
  <2>2. pc[v] \notin AfterLocks
    BY <2>1 DEF IInv, CallInv, HoldsCart
  <2>3. pc[v] \notin {"idle", "begun", "done"}
    BY <2>1 DEF OrderInv, LocksInOrder
  <2>4. pc[v] # "returning" /\ pc[v] \in Phases
    BY <1>t DEF TypeOK, Tx, OrderInv, LocksInOrder
  <2>5. pc[v] = "locking"
    BY <2>2, <2>3, <2>4 DEF AfterLocks, Phases
  <2>6. e \in Nat
    BY <2>1, <1>t DEF TypeOK, Tx
  <2> QED BY <2>1, <2>5, <2>6 DEF NextColours
<1>2. PICK e \in NextColours(t) : Conflict(lock[u][e], LockMode(t))
  BY DEF Waits
<1>3. e = c
  BY <1>1
<1>4. e \in Held(u)
  BY <1>1, <1>2, <1>t DEF Conflict, LockMode, Held, TypeOK
<1>5. pc[u] = "locking" /\ d \in want[u]
  BY <1>1
<1> QED BY <1>3, <1>4, <1>5 DEF OrderInv, LocksInOrder

LEMMA NoCycle == IInv /\ OrderInv => NoCheckoutDeadlock
<1> SUFFICES ASSUME IInv, OrderInv, NEW D \in SUBSET Checkouts, Deadlocked(D) PROVE FALSE
  BY DEF NoCheckoutDeadlock
<1> DEFINE next == [t \in D |-> CHOOSE c \in NextColours(t) : TRUE]
           N == {next[t] : t \in D}
<1>1. ASSUME NEW t \in D PROVE next[t] \in NextColours(t)
  BY DEF Deadlocked, Waits
<1>2. D # {} /\ \A t \in D : \E u \in D : Waits(t, u)
  BY DEF Deadlocked
<1>3. \A n \in N : n \in Int
  <2>1. ASSUME NEW t \in D PROVE next[t] \in Int
    <3>1. want[t] \subseteq Colors /\ Colors \subseteq Nat
      BY CheckoutAssumption DEF IInv, TypeOK, Tx
    <3>2. NextColours(t) \subseteq want[t]
      BY DEF NextColours
    <3>3. next[t] \in NextColours(t)
      BY <1>1
    <3> HIDE DEF next
    <3>4. next[t] \in Nat
      BY <3>1, <3>2, <3>3
    <3> QED BY <3>4
  <2> HIDE DEF next
  <2> QED BY <2>1
<1>4. IsFiniteSet(N) /\ N # {}
  <2>1. IsFiniteSet(D)
    BY FinitelyManyCalls, FS_Subset
  <2>2. N # {}
    BY <1>2
  <2>3. next \in Surjection(D, N)
    BY DEF Surjection
  <2> HIDE DEF next, N
  <2>4. IsFiniteSet(N)
    BY <2>1, <2>3, FS_Surjection
  <2> QED BY <2>2, <2>4
<1>5. PICK m \in N : \A n \in N : n <= m
  <2> HIDE DEF N
  <2> QED BY <1>3, <1>4, LargestMember
<1>6. PICK t \in D : m = next[t]
  OBVIOUS
<1>7. PICK u \in D : Waits(t, u)
  BY <1>2
<1>8. next[t] < next[u]
  <2>1. next[t] \in NextColours(t) /\ next[u] \in NextColours(u)
    BY <1>1
  <2> HIDE DEF next
  <2> QED BY <2>1, <1>7, WaitsAbove
<1>9. next[u] <= m /\ next[u] \in Int /\ m \in Int
  BY <1>3, <1>5
<1> QED
  <2> HIDE DEF next
  <2> QED BY <1>6, <1>8, <1>9

\* With quiet carts, no set of checkouts ever wait for each other: place_order takes
\* the locks of its cart in the order of the colours' ids.
THEOREM CheckoutsNeverDeadlock == QuietCart => (Spec => []NoCheckoutDeadlock)
<1> SUFFICES ASSUME QuietCart PROVE Spec => []NoCheckoutDeadlock
  OBVIOUS
<1>1. Spec => []IInv
  BY Invariance
<1>2. IInv /\ OrderInv /\ [Next]_vars => OrderInv'
  BY NextOrder DEF IInv
<1> QED BY <1>1, <1>2, InitOrder, NoCycle, PTL DEF Spec

-----------------------------------------------------------------------------
(* Checkout implements AtomicCheckout, when customers leave their carts     *)
(* alone during their own checkouts. What a transaction does before it ends *)
(* is invisible; Commit is Place, an error is Refuse, CommitCancel Cancel.  *)


AStep == [Atomic!ANext]_(Atomic!avars)

\* Nothing AtomicCheckout speaks of changes.
Silent == /\ UNCHANGED <<stock, cart, orderState, line, reserved>>
          /\ \A t \in Checkouts : outcome'[t] = outcome[t]

\* What the mapping needs besides IInv: a call is answered when it ends and
\* waits for nothing afterwards; an order that is being cancelled is not yet,
\* and by one transaction only.
Unanswered == \A t \in Checkouts : pc[t] # "done" => outcome[t] = "none"
Unwaiting == \A t \in Tx : pc[t] = "done" => want[t] = {}
TargetsOpen ==
    \A t \in Settlements : pc[t] = "returning" => orderState[target[t]] \notin {"none", "cancelled"}
TargetsApart ==
    \A t, u \in Settlements :
        t # u /\ pc[t] = "returning" /\ pc[u] = "returning" => target[t] # target[u]

RInv == Unanswered /\ Unwaiting /\ TargetsOpen /\ TargetsApart

LEMMA SilentMaps == Silent => AStep
  BY DEF Silent, AStep, Atomic!avars

LEMMA InitMaps == Init => RInv /\ Atomic!AInit
<1> SUFFICES ASSUME Init PROVE RInv /\ Atomic!AInit
  OBVIOUS
<1>1. RInv
  BY DEF Init, RInv, Unanswered, Unwaiting, TargetsOpen, TargetsApart, Tx
<1>2. stock \in [Colors -> Nat]
  <2>1. 0 .. MaxStock \subseteq Nat
    BY CheckoutAssumption
  <2> QED BY <2>1 DEF Init
<1>3. [t \in Checkouts |-> outcome[t]] = [t \in Checkouts |-> "none"]
  BY DEF Init, Tx
<1>4. Atomic!AInit
  BY <1>2, <1>3 DEF Init, Atomic!AInit, Atomic!AOrders, Atomic!Nothing, Orders, Zero
<1> QED BY <1>1, <1>4

\* What the end of a transaction does to it and to the others.
LEMMA EndEffect ==
    ASSUME TypeOK, NEW t \in Tx, NEW r, End(t, r)
    PROVE  /\ pc'[t] = "done" /\ want'[t] = {} /\ outcome'[t] = r
           /\ \A u \in Tx \ {t} : pc'[u] = pc[u] /\ want'[u] = want[u] /\ outcome'[u] = outcome[u]
           /\ \A u \in Settlements \ {t} : target'[u] = target[u]
  BY DEF End, TypeOK, Tx

LEMMA EndKeepsRInv ==
    ASSUME TypeOK, RInv, NEW t \in Tx, NEW r, End(t, r),
           \A u \in Settlements \ {t} :
               pc[u] = "returning" => orderState'[target[u]] \notin {"none", "cancelled"}
    PROVE  RInv'
<1>1. /\ pc'[t] = "done" /\ want'[t] = {}
      /\ \A u \in Tx \ {t} : pc'[u] = pc[u] /\ want'[u] = want[u] /\ outcome'[u] = outcome[u]
      /\ \A u \in Settlements \ {t} : target'[u] = target[u]
  BY EndEffect
<1>2. Unanswered' /\ Unwaiting'
  BY <1>1 DEF RInv, Unanswered, Unwaiting, Tx
<1>3. TargetsOpen' /\ TargetsApart'
  BY <1>1 DEF RInv, TargetsOpen, TargetsApart, Tx
<1> QED BY <1>2, <1>3 DEF RInv

\* An error is a refusal, and the end of a cancellation that did nothing.
LEMMA AbortMaps ==
    ASSUME TypeOK, RInv, NEW t \in Tx, NEW r \in Outcomes \ {"none", "placed"}, Abort(t, r),
           pc[t] # "done"
    PROVE  RInv' /\ AStep
<1>1. End(t, r) /\ UNCHANGED <<stock, cart, orderState, line, reserved>>
  BY DEF Abort, tables
<1>2. RInv'
  BY <1>1, EndKeepsRInv DEF RInv, TargetsOpen
<1>3. outcome'[t] = r /\ \A u \in Tx \ {t} : outcome'[u] = outcome[u]
  BY <1>1, EndEffect
<1>4. CASE t \in Checkouts
  <2>1. [u \in Checkouts |-> outcome'[u]] = [[u \in Checkouts |-> outcome[u]] EXCEPT ![t] = r]
    BY <1>3, <1>4 DEF Tx
  <2>2. outcome[t] = "none"
    BY <1>4 DEF RInv, Unanswered
  <2>3. Atomic!Refuse(t)
    BY <1>1, <1>4, <2>1, <2>2 DEF Atomic!Refuse
  <2> QED BY <1>2, <1>4, <2>3 DEF AStep, Atomic!ANext
<1>5. CASE t \notin Checkouts
  BY <1>1, <1>2, <1>3, <1>5, SilentMaps DEF Silent, Tx
<1> QED BY <1>4, <1>5

\* A transaction goes from one statement to the next.
LEMMA GoMaps ==
    ASSUME TypeOK, RInv, NEW t \in Checkouts, NEW from, NEW to, Go(t, from, to),
           from # "done", to # "done", UNCHANGED <<tables, target, outcome>>,
           \A u \in Tx \ {t} : want'[u] = want[u]
    PROVE  RInv' /\ AStep
<1>1. pc'[t] = to /\ pc[t] = from /\ \A u \in Tx \ {t} : pc'[u] = pc[u]
  BY DEF Go, TypeOK, Tx
<1>2. t \notin Settlements
  BY CheckoutAssumption
<1>3. RInv'
  BY <1>1, <1>2 DEF RInv, Unanswered, Unwaiting, TargetsOpen, TargetsApart, Tx, tables
<1>4. Silent
  BY DEF Silent, tables
<1> QED BY <1>3, <1>4, SilentMaps

-----------------------------------------------------------------------------
(* The steps of a checkout                                                 *)

LEMMA CommitMaps ==
    ASSUME IInv, RInv, NEW t \in Checkouts, Commit(t)
    PROVE  RInv' /\ AStep
<1>t. TypeOK /\ t \in Tx /\ pc[t] = "taking" /\ End(t, "placed")
  BY DEF Commit, IInv, Tx
<1>1. /\ line' = [line EXCEPT ![t] = MyCart(t)]
      /\ reserved' = [reserved EXCEPT ![t] = MyCart(t)]
      /\ stock' = [c \in Colors |-> stock[c] - MyCart(t)[c]]
      /\ cart' = [cart EXCEPT ![Buyer[t]] = Zero]
      /\ orderState' = [o \in Orders |->
             IF o[1] = t /\ o[2] \in draft[t].sellers THEN "pending" ELSE orderState[o]]
      /\ draft[t].sellers = {SellerOf[c] : c \in Lines(MyCart(t))}
  BY <1>t, DraftTakesCart DEF Commit, CartAfter
<1>2. RInv'
  <2>1. \A u \in Settlements :
            pc[u] = "returning" => orderState'[target[u]] \notin {"none", "cancelled"}
    BY <1>1, <1>t DEF RInv, TargetsOpen, TypeOK
  <2> QED BY <1>t, <2>1, EndKeepsRInv
<1>3. \A c \in Colors : MyCart(t)[c] <= stock[c]
  BY <1>t DEF IInv, CallInv, StockSuffices, AfterCheck
<1>4. [u \in Checkouts |-> outcome'[u]] = [[u \in Checkouts |-> outcome[u]] EXCEPT ![t] = "placed"]
  BY <1>t, EndEffect DEF Tx
<1>5. outcome[t] = "none"
  BY <1>t DEF RInv, Unanswered
<1>6. orderState' = [o \in Orders |->
          IF o[1] = t /\ \E c \in Colors : SellerOf[c] = o[2] /\ MyCart(t)[c] > 0
          THEN "pending" ELSE orderState[o]]
  <2>1. \A s : s \in draft[t].sellers <=> \E c \in Colors : SellerOf[c] = s /\ MyCart(t)[c] > 0
    BY <1>1 DEF Lines
  <2> QED BY <1>1, <2>1
<1>7. Atomic!Place(t)
  BY <1>1, <1>3, <1>4, <1>5, <1>6
  DEF Atomic!Place, Atomic!Nothing, Atomic!AOrders, Orders, Zero, MyCart
<1> QED BY <1>2, <1>7 DEF AStep, Atomic!ANext

LEMMA CheckoutMaps ==
    ASSUME IInv, RInv, NEW t \in Checkouts, Checkout(t)
    PROVE  RInv' /\ AStep
<1>t. TypeOK /\ t \in Tx
  BY DEF IInv, Tx
<1>1. CASE Begin(t) \/ OpenLoop(t)
  BY <1>1, <1>t, GoMaps DEF Begin, OpenLoop, TypeOK
<1>2. CASE LockColours(t) \/ UpdateStock(t)
  BY <1>2, <1>t, GoMaps DEF LockColours, UpdateStock, TypeOK
<1>3. ASSUME NEW s \in Sellers, InsertLines(t, s) \/ InsertReservation(t, s)
      PROVE  RInv' /\ AStep
  BY <1>3, <1>t, GoMaps DEF InsertLines, InsertReservation, TypeOK
<1>4. CASE CartEmpty(t)
  BY <1>4, <1>t, AbortMaps DEF CartEmpty, Outcomes
<1>5. CASE StockCheckFails(t)
  BY <1>5, <1>t, AbortMaps DEF StockCheckFails, Outcomes
<1>6. CASE CheckForSale(t)
  <2>1. CASE Unavailable(t) # {}
    BY <1>6, <2>1, <1>t, AbortMaps DEF CheckForSale, Outcomes
  <2>2. CASE Unavailable(t) = {}
    BY <1>6, <2>2, <1>t, GoMaps DEF CheckForSale
  <2> QED BY <2>1, <2>2
<1>7. CASE CheckStock(t)
  <2>1. CASE Short(t) # {}
    BY <1>7, <2>1, <1>t, AbortMaps DEF CheckStock, Outcomes
  <2>2. CASE Short(t) = {}
    BY <1>7, <2>2, <1>t, GoMaps DEF CheckStock
  <2> QED BY <2>1, <2>2
<1> QED BY <1>1, <1>2, <1>3, <1>4, <1>5, <1>6, <1>7, CommitMaps DEF Checkout

\* A colour is locked: nobody sees it.
LEMMA AcquireMaps ==
    ASSUME IInv, RInv, NEW t \in Tx, NEW c \in Colors, Acquire(t, c)
    PROVE  RInv' /\ AStep
<1>1. Silent
  BY DEF Acquire, Silent, tables
<1>2. Unwaiting'
  BY DEF Acquire, RInv, Unwaiting, IInv, TypeOK
<1>3. Unanswered' /\ TargetsOpen' /\ TargetsApart'
  BY DEF Acquire, RInv, Unanswered, TargetsOpen, TargetsApart, tables
<1> QED BY <1>1, <1>2, <1>3, SilentMaps DEF RInv

\* The database, or the caller's account, ends a transaction under way.
LEMMA EndedMaps ==
    ASSUME IInv, RInv, NEW t \in Tx,
           \/ DeadlockAbort(t) \/ Fail(t)
           \/ t \in Checkouts /\ \E e \in Outcomes : RejectCaller(t, e)
    PROVE  RInv' /\ AStep
<1>t. TypeOK
  BY DEF IInv
<1>1. CASE DeadlockAbort(t)
  <2>1. PICK D \in SUBSET Tx : t \in D /\ Deadlocked(D)
    BY <1>1 DEF DeadlockAbort
  <2>2. PICK u \in D : Waits(t, u)
    BY <2>1 DEF Deadlocked
  <2>3. want[t] # {}
    BY <2>2 DEF Waits, NextColours
  <2>4. pc[t] # "done"
    BY <2>3 DEF RInv, Unwaiting
  <2> QED BY <1>1, <1>t, <2>4, AbortMaps DEF DeadlockAbort, Outcomes
<1>2. CASE Fail(t)
  BY <1>2, <1>t, AbortMaps DEF Fail, InFlight, Outcomes
<1>3. CASE \E e \in Outcomes : RejectCaller(t, e)
  <2>1. PICK e \in Outcomes : RejectCaller(t, e)
    BY <1>3
  <2> QED BY <1>t, <2>1, AbortMaps DEF RejectCaller
<1> QED BY <1>1, <1>2, <1>3

-----------------------------------------------------------------------------
(* The steps of an order, and of the others                                *)

LEMMA StartCancelMaps ==
    ASSUME IInv, RInv, NEW t \in Settlements, NEW o \in Orders, StartCancel(t, o)
    PROVE  RInv' /\ AStep
<1>t. TypeOK /\ t \in Tx
  BY DEF IInv, Tx
<1>1. /\ pc'[t] = "returning" /\ \A u \in Tx \ {t} : pc'[u] = pc[u] /\ want'[u] = want[u]
      /\ target'[t] = o /\ \A u \in Settlements \ {t} : target'[u] = target[u] /\ target[u] # o
      /\ orderState' = orderState /\ outcome' = outcome /\ pc[t] = "idle"
  BY <1>t DEF StartCancel, Go, TypeOK, Settling, tables, Tx
<1>2. Unanswered'
  <2>1. \A u \in Checkouts : u \in Tx \ {t}
    BY CheckoutAssumption DEF Tx
  <2> QED BY <1>1, <2>1 DEF RInv, Unanswered
<1>3. Unwaiting'
  BY <1>1 DEF RInv, Unwaiting
<1>4. TargetsOpen' /\ TargetsApart'
  BY <1>1 DEF RInv, TargetsOpen, TargetsApart, StartCancel, Cancellable, Tx
<1>5. Silent
  BY DEF StartCancel, Silent, tables
<1> QED BY <1>2, <1>3, <1>4, <1>5, SilentMaps DEF RInv

LEMMA CommitCancelMaps ==
    ASSUME IInv, RInv, NEW t \in Settlements, CommitCancel(t)
    PROVE  RInv' /\ AStep
<1> DEFINE o == target[t]
<1>t. TypeOK /\ t \in Tx /\ t \notin Checkouts /\ pc[t] = "returning" /\ o \in Orders /\ End(t, "settled")
  BY CheckoutAssumption DEF CommitCancel, IInv, TypeOK, Tx
<1>1. /\ stock' = [c \in Colors |-> stock[c] + SoldBy(o[2], reserved[o[1]])[c]]
      /\ reserved' = [reserved EXCEPT ![o[1]] = Write(@, o[2], Zero)]
      /\ orderState' = [orderState EXCEPT ![o] = "cancelled"]
      /\ cart' = cart /\ line' = line
  BY DEF CommitCancel, Returned, Reservation, ReservedAfter, DropReservation
<1>2. orderState[o] \notin {"none", "cancelled"}
  BY <1>t DEF RInv, TargetsOpen
<1>3. RInv'
  <2>1. \A u \in Settlements \ {t} :
            pc[u] = "returning" => orderState'[target[u]] \notin {"none", "cancelled"}
    BY <1>1, <1>t DEF RInv, TargetsOpen, TargetsApart, TypeOK
  <2> QED BY <1>t, <2>1, EndKeepsRInv
<1>4. [u \in Checkouts |-> outcome'[u]] = [u \in Checkouts |-> outcome[u]]
  BY <1>t, EndEffect DEF Tx
<1>5. Write(reserved[o[1]], o[2], Zero) = Atomic!Without(o[2], reserved[o[1]])
  BY DEF Write, Zero, Atomic!Without
<1>6. SoldBy(o[2], reserved[o[1]]) = Atomic!PartOf(o[2], reserved[o[1]])
  BY DEF SoldBy, Atomic!PartOf
<1> HIDE DEF o
<1>7. Atomic!Cancel(o)
  BY <1>1, <1>2, <1>4, <1>5, <1>6 DEF Atomic!Cancel
<1> QED BY <1>t, <1>3, <1>7 DEF AStep, Atomic!ANext, Atomic!AOrders, Orders

\* Transactions and calls stand still, and so do the orders being cancelled.
LEMMA StandingStill ==
    ASSUME RInv, UNCHANGED <<pc, want, target, outcome>>,
           \A t \in Settlements : pc[t] = "returning" => orderState'[target[t]] = orderState[target[t]]
    PROVE  RInv'
  BY DEF RInv, Unanswered, Unwaiting, TargetsOpen, TargetsApart

LEMMA OrderMaps ==
    ASSUME IInv, RInv, NEW o \in Orders, Advance(o) \/ Reopen(o)
    PROVE  RInv' /\ AStep
<1>t. TypeOK /\ orderState \in [Orders -> OrderStates \cup {"none"}]
  BY DEF IInv, TypeOK
<1>1. /\ UNCHANGED <<stock, cart, line, pc, want, target, outcome>> /\ ~Settling(o)
      /\ \A p \in Orders \ {o} : orderState'[p] = orderState[p]
  BY <1>t DEF Advance, Reopen
<1>2. RInv'
  <2>1. \A t \in Settlements : pc[t] = "returning" => target[t] \in Orders \ {o}
    BY <1>1, <1>t DEF TypeOK, Settling
  <2> QED BY <1>1, <2>1, StandingStill
<1>3. [u \in Checkouts |-> outcome'[u]] = [u \in Checkouts |-> outcome[u]]
  BY <1>1
<1>4. CASE Reopen(o)
  <2>1. orderState[o] = "cancelled" /\ orderState' = [orderState EXCEPT ![o] = "pending"]
        /\ reserved' = reserved
    BY <1>4 DEF Reopen
  <2>2. orderState'[o] = "pending"
    BY <1>t, <2>1
  <2>3. Atomic!Relabel(o)
    BY <1>1, <1>3, <2>1, <2>2 DEF Atomic!Relabel
  <2> QED BY <1>2, <2>3 DEF AStep, Atomic!ANext, Atomic!AOrders, Orders
<1>5. CASE Advance(o)
  <2>1. /\ orderState[o] \in {"pending", "confirmed", "preparing", "out_for_delivery"}
        /\ orderState' = [orderState EXCEPT ![o] = NextState[orderState[o]]]
    BY <1>5 DEF Advance, NextState
  <2>2. orderState'[o] = NextState[orderState[o]]
    BY <1>t, <2>1
  <2>3. CASE orderState[o] = "out_for_delivery"
    <3>1. orderState'[o] = "delivered" /\ orderState' = [orderState EXCEPT ![o] = "delivered"]
      BY <2>1, <2>2, <2>3 DEF NextState
    <3>2. reserved' = [reserved EXCEPT ![o[1]] = Write(@, o[2], Zero)]
      BY <1>5, <3>1 DEF Advance, DropReservation
    <3>3. Write(reserved[o[1]], o[2], Zero) = Atomic!Without(o[2], reserved[o[1]])
      BY DEF Write, Zero, Atomic!Without
    <3>4. Atomic!Deliver(o)
      BY <1>1, <1>3, <2>3, <3>1, <3>2, <3>3 DEF Atomic!Deliver
    <3> QED BY <1>2, <3>4 DEF AStep, Atomic!ANext, Atomic!AOrders, Orders
  <2>4. CASE orderState[o] # "out_for_delivery"
    <3>1. /\ <<orderState[o], orderState'[o]>> \in
                 {<<"pending", "confirmed">>, <<"confirmed", "preparing">>,
                  <<"preparing", "out_for_delivery">>, <<"cancelled", "pending">>}
          /\ orderState'[o] # "delivered"
          /\ orderState' = [orderState EXCEPT ![o] = orderState'[o]]
      <4>1. orderState' = [orderState EXCEPT ![o] = orderState'[o]]
        BY <2>1, <2>2
      <4>2. CASE orderState[o] = "pending"
        BY <2>2, <4>1, <4>2 DEF NextState
      <4>3. CASE orderState[o] = "confirmed"
        BY <2>2, <4>1, <4>3 DEF NextState
      <4>4. CASE orderState[o] = "preparing"
        BY <2>2, <4>1, <4>4 DEF NextState
      <4> QED BY <2>1, <2>4, <4>2, <4>3, <4>4
    <3>2. reserved' = reserved
      BY <1>5, <3>1 DEF Advance
    <3>3. Atomic!Relabel(o)
      BY <1>1, <1>3, <3>1, <3>2 DEF Atomic!Relabel
    <3> QED BY <1>2, <3>3 DEF AStep, Atomic!ANext, Atomic!AOrders, Orders
  <2> QED BY <2>3, <2>4
<1> QED BY <1>4, <1>5

LEMMA EnvironmentMaps ==
    ASSUME IInv, RInv, Environment
    PROVE  RInv' /\ AStep
<1> USE CheckoutAssumption
<1>1. ASSUME NEW b \in Customers, NEW c \in Colors, NEW q \in 0 .. MaxQty, EditCart(b, c, q)
      PROVE  RInv' /\ AStep
  <2>1. RInv'
    BY <1>1, StandingStill DEF EditCart
  <2>2. Atomic!FillCart(b)
    BY <1>1 DEF EditCart, Atomic!FillCart
  <2> QED BY <2>1, <2>2 DEF AStep, Atomic!ANext
<1>2. ASSUME NEW c \in Colors, NEW n \in 0 .. MaxStock, Restock(c, n)
      PROVE  RInv' /\ AStep
  <2>1. RInv'
    BY <1>2, StandingStill DEF Restock, AllButCatalogue
  <2>2. stock'[c] = n /\ stock' = [stock EXCEPT ![c] = n] /\ n \in Nat
    BY <1>2 DEF Restock, IInv, TypeOK
  <2>3. Atomic!SetStock(c)
    BY <1>2, <2>2 DEF Restock, AllButCatalogue, Atomic!SetStock
  <2> QED BY <2>1, <2>3 DEF AStep, Atomic!ANext
<1>3. ASSUME NEW c \in Colors, SetForSale(c) \/ \E p \in Prices : SetPrice(c, p)
      PROVE  RInv' /\ AStep
  <2>1. RInv'
    BY <1>3, StandingStill DEF SetForSale, SetPrice, AllButCatalogue
  <2>2. Silent
    BY <1>3 DEF SetForSale, SetPrice, AllButCatalogue, Silent
  <2> QED BY <2>1, <2>2, SilentMaps
<1>4. \A b \in Customers, c \in Colors, q \in 1 .. MaxQty :
          InsertLine(b, c, q) \/ ChangeQuantity(b, c, q) => EditCart(b, c, q) /\ q \in 0 .. MaxQty
  BY DEF InsertLine, ChangeQuantity
<1>5. \A b \in Customers, c \in Colors : DeleteLine(b, c) => EditCart(b, c, 0) /\ 0 \in 0 .. MaxQty
  BY DEF DeleteLine
<1> QED BY <1>1, <1>2, <1>3, <1>4, <1>5 DEF Environment

LEMMA StepMaps == IInv /\ RInv /\ [Next]_vars => RInv' /\ AStep
<1> SUFFICES ASSUME IInv, RInv, [Next]_vars PROVE RInv' /\ AStep
  OBVIOUS
<1>1. CASE UNCHANGED vars
  <2>1. RInv'
    BY <1>1, StandingStill DEF vars
  <2>2. Silent
    BY <1>1 DEF vars, Silent
  <2> QED BY <2>1, <2>2, SilentMaps
<1>2. \A t \in Checkouts : t \in Tx
  BY DEF Tx
<1> QED
  BY <1>1, <1>2, CheckoutMaps, EndedMaps, AcquireMaps, StartCancelMaps, CommitCancelMaps,
     OrderMaps, EnvironmentMaps DEF Next

\* With quiet carts, every behaviour of the interleaved transactions, seen through
\* the committed tables and the answers, is one of the atomic checkout.
THEOREM Implementation == QuietCart => (Spec => ImplementsAtomicCheckout)
<1> SUFFICES ASSUME QuietCart PROVE Spec => ImplementsAtomicCheckout
  OBVIOUS
<1>1. Spec => []IInv
  BY Invariance
<1>2. Init => RInv /\ Atomic!AInit
  BY InitMaps
<1>3. IInv /\ RInv /\ [Next]_vars => RInv' /\ [Atomic!ANext]_(Atomic!avars)
  BY StepMaps DEF AStep
<1> QED BY <1>1, <1>2, <1>3, PTL DEF Spec, ImplementsAtomicCheckout, Atomic!ASpec
=============================================================================
