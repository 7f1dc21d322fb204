------------------------- MODULE CartServiceProofs -------------------------
(***************************************************************************)
(* POST /v1/cart for any number of calls, customers and carts, with lost   *)
(* answers, late inserts and deletions: who is told that the cart was      *)
(* created, and that calls which nothing disturbs end with the same cart.  *)
(***************************************************************************)
EXTENDS CartService, TLAPS

\* Carts are numbered in the order of their inserts, and the call that inserted
\* one has ended.
Numbered ==
    /\ \A b \in Customers : cart[b] \in 0 .. inserted
    /\ \A id \in CartIds : /\ \A u \in madeBy[id] : step[u] = "done"
                           /\ id > inserted => madeBy[id] = {}

\* What a call knows: it has seen every cart its caller had, and says so only of
\* those.
Witnesses(t) ==
    /\ owned[t] \subseteq 1 .. inserted
    /\ step[t] # "done" => ~Answered(t)
    /\ Running(t) /\ MyCart(t) # NoCart => MyCart(t) \in owned[t]
    /\ Answered(t) => /\ answer[t].cart_id \in owned[t]
                      /\ answer[t].created <=> madeBy[answer[t].cart_id] = {t}

\* What holds of a call nobody disturbed.
Undisturbed(t) ==
    /\ step[t] # "late"
    /\ Running(t) => owned[t] = {MyCart(t)} \ {NoCart}
    /\ step[t] \in {"cart", "create", "read back"} => account[Caller[t]] = "open"
    /\ step[t] = "read back" => MyCart(t) # NoCart
    /\ step[t] = "done" /\ creator =>
          \/ Answered(t) /\ owned[t] = {answer[t].cart_id}
          \/ answer[t] = Refused("customer_profile_required")

IInv ==
    /\ TypeOK
    /\ Numbered
    /\ \A t \in Calls : Witnesses(t)
    /\ \A t \in Calls \ disturbed : Undisturbed(t)

-----------------------------------------------------------------------------
\* The two shapes of an answer are told apart by their fields.
LEMMA Shapes ==
    /\ \A id, created : /\ "cart_id" \in DOMAIN Found(id, created)
                        /\ Found(id, created).cart_id = id
                        /\ Found(id, created).created = created
    /\ \A error : "cart_id" \notin DOMAIN Refused(error)
    /\ "cart_id" \notin DOMAIN Pending
    /\ \A r \in Responses : "cart_id" \in DOMAIN r =>
          r.cart_id \in CartIds /\ r.created \in BOOLEAN
    /\ \A id \in CartIds, created \in BOOLEAN : Found(id, created) \in Responses
    /\ \A error \in Errors : Refused(error) \in Responses
    /\ Pending \in Responses
BY DEF Found, Refused, Pending, Responses, Errors

LEMMA InitIInv == Init => IInv
<1> SUFFICES ASSUME Init PROVE IInv
  OBVIOUS
<1>1. TypeOK
  BY CartAssumption, Shapes DEF Init, TypeOK, Accounts, Steps, NoCart
<1>2. Numbered
  BY DEF Init, Numbered, NoCart
<1>3. ASSUME NEW t \in Calls PROVE Witnesses(t) /\ Undisturbed(t)
  BY Shapes DEF Init, Witnesses, Undisturbed, Answered, Running
<1> QED
  BY <1>1, <1>2, <1>3 DEF IInv

-----------------------------------------------------------------------------
\* A step that moves one call and leaves the database alone.
CallMoves(t) ==
    /\ step' \in [Calls -> Steps]
    /\ answer' \in [Calls -> Responses]
    /\ owned' \in [Calls -> SUBSET CartIds]
    /\ \A u \in Calls \ {t} :
          step'[u] = step[u] /\ answer'[u] = answer[u] /\ owned'[u] = owned[u]
    /\ disturbed' \in {disturbed, disturbed \cup {t}}
    /\ step[t] # "done"
    /\ UNCHANGED <<database, creator>>

\* It keeps what holds of the other calls.
LEMMA OtherCalls ==
    ASSUME IInv, NEW t \in Calls, CallMoves(t)
    PROVE  /\ TypeOK' /\ Numbered'
           /\ \A u \in Calls \ {t} : Witnesses(u)' /\ (u \notin disturbed' => Undisturbed(u)')
<1> USE DEF IInv
<1>1. TypeOK'
  BY DEF CallMoves, TypeOK, database
<1>2. Numbered'
  BY DEF CallMoves, TypeOK, Numbered, database
<1>3. ASSUME NEW u \in Calls \ {t}
      PROVE  Witnesses(u)' /\ (u \notin disturbed' => Undisturbed(u)')
  <2>1. /\ step'[u] = step[u] /\ answer'[u] = answer[u] /\ owned'[u] = owned[u]
        /\ UNCHANGED <<account, cart, inserted, madeBy, creator>>
    BY DEF CallMoves, TypeOK, database
  <2>2. u \notin disturbed' => u \notin disturbed
    BY DEF CallMoves
  <2>3. Witnesses(u)'
    BY <2>1 DEF Witnesses, Answered, Running, MyCart
  <2>4. u \notin disturbed => Undisturbed(u)'
    BY <2>1 DEF Undisturbed, Answered, Running, MyCart
  <2> QED
    BY <2>2, <2>3, <2>4
<1> QED
  BY <1>1, <1>2, <1>3

\* So only the call itself remains to be looked at.
LEMMA CallStep ==
    ASSUME IInv, NEW t \in Calls, CallMoves(t), Witnesses(t)', t \notin disturbed' => Undisturbed(t)'
    PROVE  IInv'
BY OtherCalls DEF IInv

\* The requests that leave the database alone.
LEMMA Reads ==
    ASSUME IInv, NEW t \in Calls,
           Call(t) \/ ReadProfile(t) \/ ReadCart(t) \/ CreateConflict(t)
              \/ ReadBack(t) \/ UpstreamFails(t) \/ GiveUp(t)
    PROVE  IInv'
<1> DEFINE mine == {MyCart(t)} \ {NoCart}
<1>0. /\ TypeOK /\ Numbered /\ Witnesses(t) /\ (t \notin disturbed => Undisturbed(t))
      /\ MyCart(t) \in 0 .. inserted /\ 1 .. inserted \subseteq CartIds
      /\ mine \subseteq 1 .. inserted
  BY CartAssumption DEF IInv, Numbered, MyCart, TypeOK, CartIds, NoCart
<1>1. CASE Call(t)
  <2>1. /\ step[t] = "idle" /\ step' = [step EXCEPT ![t] = "profile"] /\ answer' = answer
        /\ owned' = [owned EXCEPT ![t] = mine] /\ disturbed' = disturbed
        /\ UNCHANGED <<database, creator>>
    BY <1>1 DEF Call, Await
  <2>2. CallMoves(t)
    BY <1>0, <2>1 DEF CallMoves, TypeOK, Steps
  <2>3. /\ step'[t] = "profile" /\ answer'[t] = answer[t] /\ owned'[t] = mine
        /\ MyCart(t)' = MyCart(t) /\ inserted' = inserted
    BY <1>0, <2>1 DEF TypeOK, database, MyCart
  <2>4. Witnesses(t)'
    BY <1>0, <2>1, <2>3 DEF Witnesses, Answered, Running
  <2>5. Undisturbed(t)'
    BY <2>3 DEF Undisturbed, Running
  <2> QED
    BY <2>2, <2>4, <2>5, CallStep
<1>2. ASSUME NEW next \in {"cart", "create", "read back"}, Running(t), Await(t, next),
             UNCHANGED <<database, creator, owned, disturbed>>,
             t \notin disturbed => account[Caller[t]] = "open",
             t \notin disturbed /\ next = "read back" => MyCart(t) # NoCart
      PROVE  IInv'
  <2>1. CallMoves(t)
    BY <1>0, <1>2 DEF CallMoves, Await, Running, TypeOK, Steps
  <2>2. /\ step'[t] = next /\ answer'[t] = answer[t] /\ owned'[t] = owned[t]
        /\ MyCart(t)' = MyCart(t) /\ UNCHANGED <<inserted, account, disturbed>>
    BY <1>0, <1>2 DEF TypeOK, database, MyCart, Await
  <2>3. Witnesses(t)'
    BY <1>0, <1>2, <2>2 DEF Witnesses, Answered, Running
  <2>4. t \notin disturbed' => Undisturbed(t)'
    BY <1>0, <1>2, <2>2 DEF Undisturbed, Running
  <2> QED
    BY <2>1, <2>3, <2>4, CallStep
<1>3. ASSUME NEW error \in Errors, Running(t),
             step' \in {[step EXCEPT ![t] = "done"], [step EXCEPT ![t] = "late"]},
             answer' = [answer EXCEPT ![t] = Refused(error)],
             UNCHANGED <<database, creator, owned>>,
             disturbed' \in {disturbed, disturbed \cup {t}},
             t \notin disturbed' =>
                step'[t] = "done" /\ (creator => error = "customer_profile_required")
      PROVE  IInv'
  <2>0. Refused(error) \in Responses
    BY <1>3, Shapes
  <2>1. CallMoves(t)
    BY <1>0, <1>3, <2>0 DEF CallMoves, Running, TypeOK, Steps
  <2>2. /\ step'[t] \in {"done", "late"} /\ answer'[t] = Refused(error)
        /\ owned'[t] = owned[t] /\ inserted' = inserted /\ creator' = creator
    BY <1>0, <1>3 DEF TypeOK, database
  <2>3. Witnesses(t)'
    BY <1>0, <2>2, Shapes DEF Witnesses, Answered, Running
  <2>4. ASSUME t \notin disturbed' PROVE Undisturbed(t)'
    <3>1. step'[t] = "done" /\ (creator' => answer'[t] = Refused("customer_profile_required"))
      BY <1>3, <2>2, <2>4
    <3> QED
      BY <3>1 DEF Undisturbed, Running
  <2> QED
    BY <2>1, <2>3, <2>4, CallStep
<1>4. ASSUME Running(t), MyCart(t) # NoCart, Return(t, Existing(MyCart(t))),
             UNCHANGED <<database, creator, owned, disturbed>>
      PROVE  IInv'
  <2>1. MyCart(t) \in CartIds /\ MyCart(t) \in owned[t]
    BY <1>0, <1>4 DEF NoCart, Witnesses
  <2>2. Existing(MyCart(t)) \in Responses
    BY <2>1, Shapes DEF Existing
  <2>3. CallMoves(t)
    BY <1>0, <1>4, <2>2 DEF CallMoves, Return, Running, TypeOK, Steps
  <2>4. /\ step'[t] = "done" /\ answer'[t] = Found(MyCart(t), FALSE)
        /\ owned'[t] = owned[t] /\ UNCHANGED <<inserted, disturbed, madeBy>>
    BY <1>0, <1>4 DEF TypeOK, database, Return, Existing
  <2>5. t \notin madeBy[MyCart(t)]
    BY <1>0, <1>4, <2>1 DEF Numbered, Running
  <2>6. /\ Answered(t)' /\ answer'[t].cart_id = MyCart(t)
        /\ answer'[t].created = FALSE
    BY <2>4 DEF Answered, Found
  <2>7. Witnesses(t)'
    BY <1>0, <2>1, <2>4, <2>5, <2>6 DEF Witnesses, Running
  <2>8. ASSUME t \notin disturbed' PROVE Undisturbed(t)'
    <3>1. owned'[t] = {MyCart(t)}
      BY <1>0, <1>4, <2>4, <2>8 DEF Undisturbed
    <3> QED
      BY <2>4, <2>6, <3>1 DEF Undisturbed, Running
  <2> QED
    BY <2>3, <2>7, <2>8, CallStep
<1>5. CASE ReadProfile(t)
  <2>1. CASE account[Caller[t]] = "open"
    BY <1>2, <1>5, <2>1 DEF ReadProfile, Running
  <2>2. CASE account[Caller[t]] # "open"
    <3>1. step'[t] = "done"
      BY <1>0, <1>5, <2>2 DEF ReadProfile, Return, TypeOK
    <3> QED
      BY <1>3, <1>5, <2>2, <3>1 DEF ReadProfile, Return, Running, Errors
  <2> QED
    BY <2>1, <2>2
<1>6. CASE ReadCart(t)
  <2>0. Running(t) /\ (t \notin disturbed => account[Caller[t]] = "open")
    BY <1>0, <1>6 DEF ReadCart, Running, Undisturbed
  <2>1. CASE MyCart(t) # NoCart
    BY <1>4, <1>6, <2>0, <2>1 DEF ReadCart
  <2>2. CASE MyCart(t) = NoCart /\ creator
    BY <1>2, <1>6, <2>0, <2>2 DEF ReadCart
  <2>3. CASE MyCart(t) = NoCart /\ ~creator
    <3>1. Return(t, Refused("cart_unavailable"))
      BY <1>6, <2>3 DEF ReadCart
    <3>2. step'[t] = "done"
      BY <1>0, <3>1 DEF Return, TypeOK
    <3> QED
      BY <1>3, <1>6, <2>0, <2>3, <3>1, <3>2 DEF ReadCart, Return, Errors
  <2> QED
    BY <2>1, <2>2, <2>3
<1>7. CASE CreateConflict(t)
  BY <1>0, <1>2, <1>7 DEF CreateConflict, AfterConflict, Conflict, Running, Undisturbed
<1>8. CASE ReadBack(t)
  <2>0. Running(t) /\ (t \notin disturbed => MyCart(t) # NoCart)
    BY <1>0, <1>8 DEF ReadBack, Running, Undisturbed
  <2>1. CASE MyCart(t) # NoCart
    BY <1>4, <1>8, <2>0, <2>1 DEF ReadBack
  <2>2. CASE MyCart(t) = NoCart
    BY <1>3, <1>8, <2>0, <2>2 DEF ReadBack, Return, Errors
  <2> QED
    BY <2>1, <2>2
<1>9. CASE UpstreamFails(t)
  BY <1>3, <1>9 DEF UpstreamFails, Return, Errors
<1>10. CASE GiveUp(t)
  BY <1>3, <1>10 DEF GiveUp, Running, Errors
<1> QED
  BY <1>1, <1>5, <1>6, <1>7, <1>8, <1>9, <1>10

-----------------------------------------------------------------------------
\* An insert, whether its call still waits for it or not: the new cart has one
\* maker, and the running calls of the same customer have seen it.
LEMMA InsertKeeps ==
    ASSUME IInv, NEW t \in Calls, step[t] \in {"create", "late"}, Insert(t),
           step' = [step EXCEPT ![t] = "done"],
           NEW r \in Responses, answer' = [answer EXCEPT ![t] = r],
           disturbed' \in {disturbed, disturbed \cup {t}},
           \/ r = Found(inserted', TRUE) /\ step[t] = "create"
           \/ "cart_id" \notin DOMAIN r /\ t \in disturbed'
    PROVE  IInv'
<1> DEFINE b == Caller[t]
           new == inserted + 1
<1>0. TypeOK /\ Numbered /\ b \in Customers
  BY CartAssumption DEF IInv
<1>1. /\ inserted' = new /\ new \in CartIds /\ new \notin 1 .. inserted
      /\ cart' = [cart EXCEPT ![b] = new] /\ madeBy' = [madeBy EXCEPT ![new] = {t}]
      /\ Witness(cart') /\ UNCHANGED <<account, creator>> /\ ~Conflict(t)
  BY <1>0, CartAssumption DEF Insert, TypeOK, CartIds
<1>2. \A u \in Calls : owned'[u] = IF Running(u) /\ cart'[Caller[u]] # NoCart
                                   THEN owned[u] \cup {cart'[Caller[u]]} ELSE owned[u]
  BY <1>1 DEF Witness
<1>3. \A c \in Customers : cart'[c] \in 0 .. new /\ (c # b => cart'[c] = cart[c])
  BY <1>0, <1>1 DEF Numbered, TypeOK
<1>4. TypeOK'
  <2>1. cart' \in [Customers -> CartIds \cup {NoCart}]
    BY <1>0, <1>1 DEF TypeOK
  <2>2. owned' \in [Calls -> SUBSET CartIds]
    <3>1. ASSUME NEW u \in Calls PROVE owned'[u] \in SUBSET CartIds
      <4>1. owned[u] \in SUBSET CartIds /\ cart'[Caller[u]] \in CartIds \cup {NoCart}
        BY <1>0, <2>1, CartAssumption DEF TypeOK
      <4> QED
        BY <1>2, <4>1
    <3> QED
      BY <1>1, <3>1 DEF Witness
  <2>3. madeBy' \in [CartIds -> SUBSET Calls]
    BY <1>0, <1>1 DEF TypeOK
  <2>4. step' \in [Calls -> Steps] /\ answer' \in [Calls -> Responses] /\ disturbed' \subseteq Calls
    BY <1>0 DEF TypeOK, Steps
  <2>5. inserted' \in 0 .. MaxCarts /\ creator' \in BOOLEAN /\ account' \in [Customers -> Accounts]
    BY <1>0, <1>1 DEF TypeOK, CartIds
  <2> QED
    BY <2>1, <2>2, <2>3, <2>4, <2>5 DEF TypeOK
<1>5. Numbered'
  <2>1. ASSUME NEW id \in CartIds
        PROVE  /\ \A u \in madeBy'[id] : step'[u] = "done"
               /\ id > inserted' => madeBy'[id] = {}
    <3>1. CASE id = new
      BY <1>0, <1>1, <3>1 DEF TypeOK
    <3>2. CASE id # new
      <4>1. madeBy'[id] = madeBy[id] /\ (id > inserted' => id > inserted)
        BY <1>0, <1>1, <3>2 DEF TypeOK, CartIds
      <4> QED
        BY <1>0, <4>1 DEF Numbered, TypeOK
    <3> QED
      BY <3>1, <3>2
  <2> QED
    BY <1>1, <1>3, <2>1 DEF Numbered
<1>6. ASSUME NEW u \in Calls PROVE Witnesses(u)'
  <2>0. Witnesses(u) /\ Caller[u] \in Customers
    BY CartAssumption DEF IInv
  <2>1. owned'[u] \subseteq 1 .. inserted'
    <3>1. owned[u] \subseteq 1 .. new
      BY <1>0, <2>0 DEF Witnesses, TypeOK
    <3>2. cart'[Caller[u]] # NoCart => cart'[Caller[u]] \in 1 .. new
      BY <1>0, <1>3, <2>0 DEF NoCart, TypeOK
    <3> QED
      BY <1>1, <1>2, <3>1, <3>2
  <2>2. Running(u)' => Running(u)
    BY <1>0 DEF Running, TypeOK
  <2>3. Running(u)' /\ MyCart(u)' # NoCart => MyCart(u)' \in owned'[u]
    BY <1>2, <2>2 DEF MyCart
  <2>4. CASE u # t
    <3>1. step'[u] = step[u] /\ answer'[u] = answer[u]
      BY <1>0, <2>4 DEF TypeOK
    <3>2. ASSUME Answered(u) PROVE madeBy'[answer[u].cart_id] = madeBy[answer[u].cart_id]
      BY <1>0, <1>1, <2>0, <3>2 DEF Witnesses, TypeOK
    <3>3. owned[u] \subseteq owned'[u]
      BY <1>2
    <3> QED
      BY <2>0, <2>1, <2>3, <3>1, <3>2, <3>3 DEF Witnesses, Answered
  <2>5. CASE u = t
    <3>1. step'[t] = "done" /\ answer'[t] = r
      BY <1>0 DEF TypeOK
    <3>2. ASSUME Answered(t)'
          PROVE  /\ r.cart_id = new /\ r.created = TRUE
                 /\ new \in owned'[t] /\ madeBy'[new] = {t}
      <4>1. r = Found(new, TRUE) /\ step[t] = "create"
        BY <1>1, <3>1, <3>2 DEF Answered
      <4>2. r.cart_id = new /\ r.created = TRUE
        BY <4>1 DEF Found
      <4>3. cart'[b] = new /\ new # NoCart /\ madeBy'[new] = {t}
        BY <1>0, <1>1 DEF TypeOK, CartIds, NoCart
      <4>4. Running(t)
        BY <4>1 DEF Running
      <4> QED
        BY <1>2, <4>2, <4>3, <4>4
    <3> QED
      BY <2>1, <2>3, <2>5, <3>1, <3>2 DEF Witnesses
  <2> QED
    BY <2>4, <2>5
<1>7. ASSUME NEW u \in Calls, u \notin disturbed' PROVE Undisturbed(u)'
  <2>0. Undisturbed(u) /\ Witnesses(u) /\ Caller[u] \in Customers /\ cart[b] = NoCart
    BY <1>1, <1>7, CartAssumption DEF IInv, Conflict, MyCart
  <2>1. CASE u # t
    <3>1. /\ step'[u] = step[u] /\ answer'[u] = answer[u]
          /\ UNCHANGED <<account, creator>>
      BY <1>0, <1>1, <2>1 DEF TypeOK
    <3>2. Running(u) => owned'[u] = {MyCart(u)'} \ {NoCart}
      <4>1. CASE Caller[u] = b
        BY <1>0, <1>1, <1>2, <2>0, <4>1 DEF Undisturbed, MyCart, TypeOK
      <4>2. CASE Caller[u] # b
        BY <1>2, <1>3, <2>0, <4>2 DEF Undisturbed, MyCart
      <4> QED
        BY <4>1, <4>2
    <3>3. step[u] = "read back" => MyCart(u)' # NoCart
      BY <1>0, <1>1, <1>3, <2>0 DEF Undisturbed, MyCart, TypeOK, CartIds, NoCart
    <3>4. step[u] = "done" => owned'[u] = owned[u]
      BY <1>2 DEF Running
    <3> QED
      BY <2>0, <3>1, <3>2, <3>3, <3>4 DEF Undisturbed, Answered, Running
  <2>2. CASE u = t
    <3>1. r = Found(new, TRUE) /\ step[t] = "create"
      BY <1>1, <1>7, <2>2
    <3>2. step'[t] = "done" /\ answer'[t] = r
      BY <1>0 DEF TypeOK
    <3>3. owned[t] = {} /\ Running(t)
      BY <2>0, <2>2, <3>1 DEF Undisturbed, Running, MyCart
    <3>4. owned'[t] = {new}
      <4>1. cart'[Caller[t]] = new /\ new # NoCart
        BY <1>0, <1>1 DEF TypeOK, CartIds, NoCart
      <4> QED
        BY <1>2, <3>3, <4>1
    <3>5. Answered(t)' /\ answer'[t].cart_id = new
      BY <3>1, <3>2 DEF Answered, Found
    <3> QED
      BY <2>2, <3>2, <3>4, <3>5 DEF Undisturbed, Running
  <2> QED
    BY <2>1, <2>2
<1> QED
  BY <1>4, <1>5, <1>6, <1>7 DEF IInv

LEMMA Inserts ==
    ASSUME IInv, NEW t \in Calls, Create(t) \/ CreateUnanswered(t) \/ LateInsert(t)
    PROVE  IInv'
<1>0. TypeOK /\ Witnesses(t) /\ (step[t] = "late" => t \in disturbed)
  BY DEF IInv, Undisturbed
<1>1. CASE Create(t)
  <2>1. inserted' \in CartIds
    BY <1>0, <1>1, CartAssumption DEF Create, Insert, TypeOK, CartIds
  <2>2. Found(inserted', TRUE) \in Responses
    BY <2>1, Shapes
  <2> QED
    BY <1>1, <2>2, InsertKeeps DEF Create, Return
<1>2. CASE CreateUnanswered(t)
  <2>1. PICK error \in {"cart_unavailable", "cart_upstream_error"} :
           Return(t, Refused(error))
    BY <1>2 DEF CreateUnanswered
  <2>2. Refused(error) \in Responses /\ "cart_id" \notin DOMAIN Refused(error)
    BY Shapes DEF Errors
  <2> QED
    BY <1>2, <2>1, <2>2, InsertKeeps DEF CreateUnanswered, Return
<1>3. CASE LateInsert(t)
  <2>1. answer[t] \in Responses /\ "cart_id" \notin DOMAIN answer[t]
    BY <1>0, <1>3 DEF LateInsert, Witnesses, Answered, TypeOK
  <2> QED
    BY <1>0, <1>3, <2>1, InsertKeeps DEF LateInsert, Return
<1> QED
  BY <1>1, <1>2, <1>3

-----------------------------------------------------------------------------
\* The customer's own session: what it removes disturbs the customer's calls.
LEMMA Sessions ==
    ASSUME IInv, NEW b \in Customers, SignUp(b) \/ DeleteCart(b) \/ CloseAccount(b)
    PROVE  IInv'
<1>0. TypeOK /\ Numbered /\ UNCHANGED <<inserted, creator, step, answer, madeBy, owned>>
  BY DEF IInv, SignUp, DeleteCart, CloseAccount
<1>1. \A c \in Customers : cart'[c] \in {cart[c], NoCart}
  BY <1>0 DEF SignUp, DeleteCart, CloseAccount, TypeOK
<1>2. TypeOK'
  <2>1. account' \in [Customers -> Accounts] /\ disturbed' \subseteq Calls
    BY <1>0 DEF SignUp, DeleteCart, CloseAccount, CallsOf, TypeOK, Accounts
  <2>2. cart' \in [Customers -> CartIds \cup {NoCart}]
    BY <1>0 DEF SignUp, DeleteCart, CloseAccount, TypeOK
  <2> QED
    BY <1>0, <2>1, <2>2 DEF TypeOK
<1>3. Numbered'
  BY <1>0, <1>1 DEF Numbered, NoCart, TypeOK
<1>4. ASSUME NEW t \in Calls PROVE Witnesses(t)'
  <2>1. Witnesses(t) /\ Caller[t] \in Customers
    BY CartAssumption DEF IInv
  <2>2. MyCart(t)' \in {MyCart(t), NoCart}
    BY <1>1, <2>1 DEF MyCart
  <2> QED
    BY <1>0, <2>1, <2>2 DEF Witnesses, Answered, Running
<1>5. ASSUME NEW t \in Calls, t \notin disturbed' PROVE Undisturbed(t)'
  <2>1. Undisturbed(t) /\ Caller[t] \in Customers
    BY <1>5, CartAssumption DEF IInv, SignUp, DeleteCart, CloseAccount
  <2>2. Running(t) => /\ MyCart(t)' = MyCart(t)
                      /\ account[Caller[t]] = "open" => account'[Caller[t]] = "open"
    BY <1>0, <1>5, <2>1 DEF SignUp, DeleteCart, CloseAccount, CallsOf, MyCart, TypeOK
  <2> QED
    BY <1>0, <2>1, <2>2 DEF Undisturbed, Answered, Running
<1> QED
  BY <1>2, <1>3, <1>4, <1>5 DEF IInv

-----------------------------------------------------------------------------
\* The inductive invariant.
THEOREM CartInvariance == Spec => []IInv
<1>1. IInv /\ UNCHANGED vars => IInv'
  <2> SUFFICES ASSUME IInv, UNCHANGED vars PROVE IInv'
    OBVIOUS
  <2>1. TypeOK' /\ Numbered'
    BY DEF IInv, vars, TypeOK, Numbered
  <2>2. \A t \in Calls : Witnesses(t)'
    BY DEF IInv, vars, Witnesses, Answered, Running, MyCart
  <2>3. \A t \in Calls \ disturbed' : Undisturbed(t)'
    BY DEF IInv, vars, Undisturbed, Answered, Running, MyCart
  <2> QED
    BY <2>1, <2>2, <2>3 DEF IInv
<1>2. IInv /\ [Next]_vars => IInv'
  BY <1>1, Reads, Inserts, Sessions DEF Next, EnsureCart
<1> QED
  BY InitIInv, <1>2, PTL DEF Spec

\* "The first call creates the cart, every later call returns the same one."
THEOREM OneCallCreates == Spec => []CreatedByOneCall
<1>1. IInv => CreatedByOneCall
  BY DEF IInv, Witnesses, CreatedByOneCall
<1> QED
  BY CartInvariance, <1>1, PTL

\* Calls that nothing disturbs end with the one cart there was meanwhile.
THEOREM RacesEndAlike == Spec => []ParallelCallsAgree
<1>1. IInv => ParallelCallsAgree
  BY DEF IInv, Undisturbed, ParallelCallsAgree
<1> QED
  BY CartInvariance, <1>1, PTL

\* The type invariant.
THEOREM CartTypes == Spec => []TypeOK
<1>1. IInv => TypeOK
  BY DEF IInv
<1> QED
  BY CartInvariance, <1>1, PTL
=============================================================================
