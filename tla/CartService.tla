---------------------------- MODULE CartService ----------------------------
(***************************************************************************)
(* POST /v1/cart: read the caller's profile, read the cart, create it when *)
(* there is none, read it back when another call created it first.  Each   *)
(* upstream request is a step of its own: between two of them other calls  *)
(* of the same customer, and the customer's own session, reach the         *)
(* database.  An answer may be lost although the request took effect.       *)
(***************************************************************************)
EXTENDS Integers

CONSTANTS
    Calls,        \* requests to the endpoint
    Customers,
    Caller,       \* the customer whose token each call carries
    MaxCarts      \* bound: rows ever inserted into public.cart

ASSUME CartAssumption ==
    /\ Caller \in [Calls -> Customers]
    /\ MaxCarts \in Nat

NoCart == 0
CartIds == 1 .. MaxCarts

VARIABLES
    account,      \* of each customer: is there a customer_profile row?
    cart,         \* public.cart: the id of each customer's row, or NoCart
    inserted,     \* carts inserted so far: the last id given out
    creator,      \* TRUE: the server holds the secret key
    step,         \* the upstream request each call is waiting for; "late": it
                  \* gave up on its insert, which may still arrive
    answer,       \* what the call returned
    madeBy,       \* history: the call that inserted each cart
    owned,        \* history: the carts its caller had while each call ran
    disturbed     \* history: calls during which an upstream request failed, or
                  \* the caller removed the cart or the account

database == <<account, cart, inserted, madeBy>>
vars == <<account, cart, inserted, creator, step, answer, madeBy, owned, disturbed>>

Accounts == {"none", "open", "closed"}
Steps == {"idle", "profile", "cart", "create", "read back", "late", "done"}
Errors == {"customer_profile_required", "cart_unavailable", "cart_upstream_error"}
Found(id, created) == [cart_id |-> id, created |-> created]
Existing_Created(id) == Found(id, TRUE)
Existing(id) == Found(id, FALSE)
Pending == [error |-> "none"]
Refused(error) == [error |-> error]
Responses == [cart_id: CartIds, created: BOOLEAN]
                \cup [error: Errors \cup {"none"}]

TypeOK ==
    /\ account \in [Customers -> Accounts]
    /\ cart \in [Customers -> CartIds \cup {NoCart}]
    /\ inserted \in 0 .. MaxCarts
    /\ creator \in BOOLEAN
    /\ step \in [Calls -> Steps]
    /\ answer \in [Calls -> Responses]
    /\ madeBy \in [CartIds -> SUBSET Calls]
    /\ owned \in [Calls -> SUBSET CartIds]
    /\ disturbed \subseteq Calls

Init ==
    /\ account \in [Customers -> {"none", "open"}]
    /\ cart = [b \in Customers |-> NoCart]
    /\ inserted = 0
    /\ creator \in BOOLEAN
    /\ step = [t \in Calls |-> "idle"]
    /\ answer = [t \in Calls |-> Pending]
    /\ madeBy = [id \in CartIds |-> {}]
    /\ owned = [t \in Calls |-> {}]
    /\ disturbed = {}

-----------------------------------------------------------------------------
MyCart(t) == cart[Caller[t]]
Running(t) == step[t] \notin {"idle", "late", "done"}

\* The carts of each running call's caller, after the database changed to c.
Witness(c) ==
    owned' = [t \in Calls |-> IF Running(t) /\ c[Caller[t]] # NoCart
                              THEN owned[t] \cup {c[Caller[t]]} ELSE owned[t]]

Return(t, response) ==
    /\ step' = [step EXCEPT ![t] = "done"]
    /\ answer' = [answer EXCEPT ![t] = response]

Await(t, next) == step' = [step EXCEPT ![t] = next] /\ UNCHANGED answer

Call(t) ==
    /\ step[t] = "idle" /\ Await(t, "profile")
    /\ owned' = [owned EXCEPT ![t] = {MyCart(t)} \ {NoCart}]
    /\ UNCHANGED <<database, creator, disturbed>>

ReadProfile(t) ==
    /\ step[t] = "profile"
    /\ IF account[Caller[t]] = "open" THEN Await(t, "cart")
                                      ELSE Return(t, Refused("customer_profile_required"))
    /\ UNCHANGED <<database, creator, owned, disturbed>>

ReadCart(t) ==
    /\ step[t] = "cart"
    /\ \/ MyCart(t) # NoCart /\ Return(t, Existing(MyCart(t)))
       \/ MyCart(t) = NoCart /\ ~creator /\ Return(t, Refused("cart_unavailable"))
       \/ MyCart(t) = NoCart /\ creator /\ Await(t, "create")
    /\ UNCHANGED <<database, creator, owned, disturbed>>

\* The database answers 409: cart_customer_unique, or no such profile any more.
Conflict_Never(t) == FALSE
Conflict(t) == MyCart(t) # NoCart \/ account[Caller[t]] # "open"

Insert(t) ==
    /\ ~Conflict(t) /\ inserted < MaxCarts
    /\ inserted' = inserted + 1
    /\ cart' = [cart EXCEPT ![Caller[t]] = inserted']
    /\ madeBy' = [madeBy EXCEPT ![inserted'] = {t}]
    /\ Witness(cart')
    /\ UNCHANGED <<account, creator>>

Create(t) ==
    /\ step[t] = "create" /\ Insert(t)
    /\ Return(t, Found(inserted', TRUE))
    /\ UNCHANGED disturbed

\* The row is inserted; its answer is lost, or cannot be read.
CreateUnanswered(t) ==
    /\ step[t] = "create" /\ Insert(t)
    /\ \E error \in {"cart_unavailable", "cart_upstream_error"} :
          Return(t, Refused(error))
    /\ disturbed' = disturbed \cup {t}

\* The call times out before the database has seen its insert ...
GiveUp(t) ==
    /\ step[t] = "create"
    /\ step' = [step EXCEPT ![t] = "late"]
    /\ answer' = [answer EXCEPT ![t] = Refused("cart_unavailable")]
    /\ disturbed' = disturbed \cup {t}
    /\ UNCHANGED <<database, creator, owned>>

\* ... which runs all the same.
LateInsert(t) ==
    /\ step[t] = "late" /\ Insert(t)
    /\ Return(t, answer[t])
    /\ UNCHANGED disturbed

AfterConflict_Fail(t) == Return(t, Refused("cart_upstream_error"))
AfterConflict(t) == Await(t, "read back")

CreateConflict(t) ==
    /\ step[t] = "create" /\ Conflict(t)
    /\ AfterConflict(t)
    /\ UNCHANGED <<database, creator, owned, disturbed>>

ReadBack_Unchecked(t) ==
    /\ step[t] = "read back"
    /\ Return(t, Existing(MyCart(t)))
    /\ UNCHANGED <<database, creator, owned, disturbed>>

ReadBack(t) ==
    /\ step[t] = "read back"
    /\ IF MyCart(t) # NoCart THEN Return(t, Existing(MyCart(t)))
                             ELSE Return(t, Refused("cart_upstream_error"))
    /\ UNCHANGED <<database, creator, owned, disturbed>>

\* A timeout, a connection error, 5xx or 429; any other status or body.
UpstreamFails(t) ==
    /\ Running(t)
    /\ \E error \in {"cart_unavailable", "cart_upstream_error"} :
          Return(t, Refused(error))
    /\ disturbed' = disturbed \cup {t}
    /\ UNCHANGED <<database, creator, owned>>

-----------------------------------------------------------------------------
(* The customer's own session                                              *)

CallsOf(b) == {t \in Calls : Caller[t] = b /\ Running(t)}

SignUp(b) ==
    /\ account[b] = "none" /\ account' = [account EXCEPT ![b] = "open"]
    /\ UNCHANGED <<cart, inserted, creator, step, answer, madeBy, owned, disturbed>>

DeleteCart(b) ==
    /\ cart[b] # NoCart
    /\ cart' = [cart EXCEPT ![b] = NoCart]
    /\ disturbed' = disturbed \cup CallsOf(b)
    /\ UNCHANGED <<account, inserted, creator, step, answer, madeBy, owned>>

\* The profile goes, and its cart with it; the same user has no profile again.
CloseAccount(b) ==
    /\ account[b] = "open" /\ account' = [account EXCEPT ![b] = "closed"]
    /\ cart' = [cart EXCEPT ![b] = NoCart]
    /\ disturbed' = disturbed \cup CallsOf(b)
    /\ UNCHANGED <<inserted, creator, step, answer, madeBy, owned>>

EnsureCart(t) ==
    \/ Call(t)
    \/ ReadProfile(t)
    \/ ReadCart(t)
    \/ Create(t)
    \/ CreateUnanswered(t)
    \/ GiveUp(t)
    \/ LateInsert(t)
    \/ CreateConflict(t)
    \/ ReadBack(t)
    \/ UpstreamFails(t)

Next ==
    \/ \E t \in Calls : EnsureCart(t)
    \/ \E b \in Customers : SignUp(b) \/ DeleteCart(b) \/ CloseAccount(b)

Spec == Init /\ [][Next]_vars

-----------------------------------------------------------------------------
Answered(t) == "cart_id" \in DOMAIN answer[t]

\* "It is idempotent: the first call creates the cart, every later call returns
\* the same one": `created` is true of at most one call for a cart, the one that
\* inserted it, and a call never returns a cart its caller did not have while it ran.
CreatedByOneCall ==
    \A t \in Calls : Answered(t) =>
        /\ answer[t].cart_id \in owned[t]
        /\ answer[t].created <=> madeBy[answer[t].cart_id] = {t}

\* However many calls of a customer run at once, each ends with the one cart there
\* was meanwhile, unless an upstream request failed or the customer removed it: the
\* call that loses the race to create it is not an error.
ParallelCallsAgree ==
    \A t \in Calls :
        step[t] = "done" /\ t \notin disturbed /\ creator =>
            \/ Answered(t) /\ owned[t] = {answer[t].cart_id}
            \/ answer[t] = Refused("customer_profile_required")
=============================================================================
