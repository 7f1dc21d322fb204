----------------------- MODULE ServiceRequestsProofs -----------------------
(***************************************************************************)
(* Whatever calls race on service requests, however often parties are      *)
(* approved, suspended or change what they declare: TRUE is told once per  *)
(* transition and in order, what was agreed stays, and a review is of      *)
(* finished work.                                                          *)
(***************************************************************************)
EXTENDS ServiceRequests, TLAPS

\* A call has no answer before it has ended.
AnsweredLast == \A t \in Calls : phase[t] # "done" => answer[t] = "none"

IInv == TypeOK /\ AnsweredLast /\ TrueMeansItHappened

\* What a call that writes does to its request: a step along the life cycle, or an
\* edit of a pending one.
Transition(t) ==
    LET c == call[t]  r == c.request IN
    /\ phase[t] = "updating"
    /\ state[r] \in From[c.kind]
    /\ c.kind = "accept" => party[r] = Nobody
    /\ c.kind \in {"start", "complete"} => party[r] = c.caller
    /\ Write(t)
    /\ Returns(t, "true")
    /\ UNCHANGED <<approved, capable, reviewed, call>>

\* Every other step of a call leaves the requests alone and tells nobody TRUE.
NoTransition(t) ==
    /\ phase[t] # "done"
    /\ \/ phase' \in {[phase EXCEPT ![t] = "reading"], [phase EXCEPT ![t] = "updating"]}
          /\ answer' = answer
       \/ Returns(t, "false")
    /\ UNCHANGED <<rows, approved, capable, reviewed, call>>

-----------------------------------------------------------------------------
\* Every step of a call is a transition of its request or changes no request.
LEMMA CallSteps ==
    ASSUME TypeOK, NEW t \in Calls, ReadParty(t) \/ StartUpdate(t) \/ FinishUpdate(t)
    PROVE  Transition(t) \/ NoTransition(t)
<1>1. CASE ReadParty(t)
  BY <1>1 DEF ReadParty, NoTransition, False, rows
<1>2. CASE StartUpdate(t)
  <2>1. phase[t] # "done"
    BY <1>2 DEF StartUpdate
  <2> QED
    BY <1>2, <2>1 DEF StartUpdate, NoTransition, False, rows
<1>3. CASE FinishUpdate(t)
  BY <1>3 DEF FinishUpdate, Matches, Transition, NoTransition, False
<1> QED
  BY <1>1, <1>2, <1>3

LEMMA InitTypes == Init => TypeOK
BY DEF Init, TypeOK, States, Phases

\* The call a transition serves is well typed.
LEMMA CallTyped ==
    ASSUME TypeOK, NEW t \in Calls
    PROVE  /\ call[t].kind \in Kinds
           /\ call[t].request \in Requests
           /\ call[t].caller \in Parties \cup {Nobody}
           /\ call[t].price \in Prices \cup {NoPrice}
BY DEF TypeOK, CallRecords

LEMMA TransitionTypes ==
    ASSUME TypeOK, NEW t \in Calls, Transition(t)
    PROVE  TypeOK'
<1> DEFINE c == call[t]  r == call[t].request
<1>1. /\ c.kind \in Kinds /\ r \in Requests
      /\ c.caller \in Parties \cup {Nobody} /\ c.price \in Prices \cup {NoPrice}
  BY CallTyped
<1>2. phase' \in [Calls -> Phases] /\ answer' \in [Calls -> {"none", "true", "false"}]
  BY DEF Transition, Returns, TypeOK, Phases
<1>3. CASE c.kind = "edit"
  <2>1. details' \in [Requests -> Nat]
    BY <1>1, <1>3 DEF Transition, Write, TypeOK
  <2> QED
    BY <1>2, <1>3, <2>1 DEF Transition, Write, TypeOK
<1>4. CASE c.kind # "edit"
  <2>1. NextState[c.kind] \in States
    BY <1>1, <1>4 DEF NextState, States, Kinds
  <2>2. state' \in [Requests -> States]
    BY <1>1, <1>4, <2>1 DEF Transition, Write, TypeOK
  <2>3. /\ party' \in [Requests -> Parties \cup {Nobody}]
        /\ price' \in [Requests -> Prices \cup {NoPrice}]
    BY <1>1, <1>4 DEF Transition, Write, TypeOK
  <2> QED
    BY <1>2, <1>4, <2>2, <2>3 DEF Transition, Write, TypeOK
<1> QED
  BY <1>3, <1>4

LEMMA NextTypes ==
    ASSUME TypeOK, [Next]_vars
    PROVE  TypeOK'
<1>1. ASSUME NEW t \in Calls, ReadParty(t) \/ StartUpdate(t) \/ FinishUpdate(t)
      PROVE  TypeOK'
  <2>1. CASE Transition(t)
    BY <2>1, TransitionTypes
  <2>2. CASE NoTransition(t)
    BY <2>2 DEF NoTransition, Returns, TypeOK, Phases, rows
  <2> QED
    BY <1>1, <2>1, <2>2, CallSteps
<1>2. ASSUME NEW r \in Requests, Submit(r) PROVE TypeOK'
  BY <1>2 DEF Submit, TypeOK, States
<1>3. ASSUME NEW r \in Requests, Review(r) PROVE TypeOK'
  BY <1>3 DEF Review, TypeOK, rows
<1>4. ASSUME NEW p \in Parties, Approve(p) PROVE TypeOK'
  BY <1>4 DEF Approve, TypeOK, rows
<1>5. ASSUME NEW p \in Parties, Declare(p) PROVE TypeOK'
  BY <1>5 DEF Declare, TypeOK, rows
<1>6. CASE UNCHANGED vars
  BY <1>6 DEF vars, rows, TypeOK
<1> QED
  BY <1>1, <1>2, <1>3, <1>4, <1>5, <1>6 DEF Next

-----------------------------------------------------------------------------
\* A transition adds its call to those that were told TRUE, and no other.
LEMMA ToldAfter ==
    ASSUME TypeOK, NEW t \in Calls, Transition(t), NEW kind, NEW q
    PROVE  Succeeded(kind, q)' = IF kind = call[t].kind /\ q = call[t].request
                                 THEN Succeeded(kind, q) \cup {t}
                                 ELSE Succeeded(kind, q)
<1>1. answer' = [answer EXCEPT ![t] = "true"] /\ call' = call
  BY DEF Transition, Returns
<1>2. answer \in [Calls -> {"none", "true", "false"}]
  BY DEF TypeOK
<1>3. ASSUME NEW u \in Calls
      PROVE  answer'[u] = "true" <=> answer[u] = "true" \/ u = t
  BY <1>1, <1>2
<1> QED
  BY <1>1, <1>3 DEF Succeeded

\* A transition leaves the other requests alone.
LEMMA OtherRequests ==
    ASSUME TypeOK, NEW t \in Calls, Transition(t),
           NEW q \in Requests, q # call[t].request, AnswersFit(q)
    PROVE  AnswersFit(q)'
<1>1. \A kind : Succeeded(kind, q)' = Succeeded(kind, q)
  BY ToldAfter
<1>2. state'[q] = state[q] /\ party'[q] = party[q] /\ price'[q] = price[q]
  BY CallTyped DEF Transition, Write, TypeOK
<1>3. call' = call
  BY DEF Transition
<1> QED
  BY <1>1, <1>2, <1>3 DEF AnswersFit

LEMMA TransitionFits ==
    ASSUME TypeOK, NEW t \in Calls, Transition(t),
           NEW r \in Requests, r = call[t].request, AnswersFit(r)
    PROVE  AnswersFit(r)'
<1> DEFINE c == call[t]
<1>0. c.kind \in Kinds
  BY CallTyped
<1>1. \A kind : Succeeded(kind, r)' = IF kind = c.kind THEN Succeeded(kind, r) \cup {t}
                                                      ELSE Succeeded(kind, r)
  BY ToldAfter
<1>2. call' = call
  BY DEF Transition
<1>3. state[r] \in From[c.kind]
  BY DEF Transition
<1>4. CASE c.kind = "edit"
  <2>1. state'[r] = state[r] /\ party'[r] = party[r] /\ price'[r] = price[r]
    BY <1>4 DEF Transition, Write
  <2>2. \A kind \in Kinds \ {"edit"} : Succeeded(kind, r)' = Succeeded(kind, r)
    BY <1>1, <1>4
  <2>3. /\ Succeeded("cancel", r)' = Succeeded("cancel", r)
        /\ Succeeded("accept", r)' = Succeeded("accept", r)
        /\ Succeeded("start", r)' = Succeeded("start", r)
        /\ Succeeded("complete", r)' = Succeeded("complete", r)
    BY <2>2 DEF Kinds
  <2> QED
    BY <1>2, <2>1, <2>2, <2>3 DEF AnswersFit
<1>5. CASE c.kind = "cancel"
  <2>1. state[r] = "pending" /\ state'[r] = "cancelled"
    BY <1>0, <1>3, <1>5 DEF From, NextState, Transition, Write, TypeOK
  <2>2. party'[r] = party[r] /\ price'[r] = price[r]
    BY <1>0, <1>5 DEF Transition, Write, TypeOK
  <2>3. /\ Succeeded("cancel", r) = {}
        /\ Succeeded("accept", r) = {}
        /\ Succeeded("start", r) = {}
        /\ Succeeded("complete", r) = {}
    BY <2>1 DEF AnswersFit
  <2>4. /\ Succeeded("cancel", r)' = {t}
        /\ Succeeded("accept", r)' = Succeeded("accept", r)
        /\ Succeeded("start", r)' = Succeeded("start", r)
        /\ Succeeded("complete", r)' = Succeeded("complete", r)
    BY <1>1, <1>5, <2>3
  <2> QED
    BY <1>2, <2>1, <2>2, <2>3, <2>4 DEF AnswersFit, Kinds
<1>6. CASE c.kind = "accept"
  <2>1. state[r] = "pending" /\ state'[r] = "accepted"
    BY <1>0, <1>3, <1>6 DEF From, NextState, Transition, Write, TypeOK
  <2>2. party'[r] = c.caller /\ price'[r] = c.price
    BY <1>0, <1>6 DEF Transition, Write, TypeOK
  <2>3. /\ Succeeded("cancel", r) = {}
        /\ Succeeded("accept", r) = {}
        /\ Succeeded("start", r) = {}
        /\ Succeeded("complete", r) = {}
    BY <2>1 DEF AnswersFit
  <2>4. /\ Succeeded("accept", r)' = {t}
        /\ Succeeded("cancel", r)' = Succeeded("cancel", r)
        /\ Succeeded("start", r)' = Succeeded("start", r)
        /\ Succeeded("complete", r)' = Succeeded("complete", r)
    BY <1>1, <1>6, <2>3
  <2> QED
    BY <1>2, <2>1, <2>2, <2>3, <2>4 DEF AnswersFit, Kinds
<1>7. CASE c.kind = "start"
  <2>1. state[r] = "accepted" /\ state'[r] = "in_progress"
    BY <1>0, <1>3, <1>7 DEF From, NextState, Transition, Write, TypeOK
  <2>2. party'[r] = party[r] /\ price'[r] = price[r] /\ party[r] = c.caller
    BY <1>0, <1>7 DEF Transition, Write, TypeOK
  <2>3. /\ Succeeded("cancel", r) = {}
        /\ Succeeded("start", r) = {}
        /\ Succeeded("complete", r) = {}
    BY <2>1 DEF AnswersFit
  <2>4. /\ Succeeded("start", r)' = {t}
        /\ Succeeded("cancel", r)' = Succeeded("cancel", r)
        /\ Succeeded("accept", r)' = Succeeded("accept", r)
        /\ Succeeded("complete", r)' = Succeeded("complete", r)
    BY <1>1, <1>7, <2>3
  <2> QED
    BY <1>2, <2>1, <2>2, <2>3, <2>4 DEF AnswersFit, Kinds
<1>8. CASE c.kind = "complete"
  <2>1. state[r] = "in_progress" /\ state'[r] = "completed"
    BY <1>0, <1>3, <1>8 DEF From, NextState, Transition, Write, TypeOK
  <2>2. party'[r] = party[r] /\ price'[r] = price[r] /\ party[r] = c.caller
    BY <1>0, <1>8 DEF Transition, Write, TypeOK
  <2>3. /\ Succeeded("cancel", r) = {}
        /\ Succeeded("complete", r) = {}
    BY <2>1 DEF AnswersFit
  <2>4. /\ Succeeded("complete", r)' = {t}
        /\ Succeeded("cancel", r)' = Succeeded("cancel", r)
        /\ Succeeded("accept", r)' = Succeeded("accept", r)
        /\ Succeeded("start", r)' = Succeeded("start", r)
    BY <1>1, <1>8, <2>3
  <2> QED
    BY <1>2, <2>1, <2>2, <2>3, <2>4 DEF AnswersFit, Kinds
<1> QED
  BY <1>0, <1>4, <1>5, <1>6, <1>7, <1>8 DEF Kinds

\* A step that tells nobody TRUE and changes no request keeps what was said true.
LEMMA QuietSteps ==
    ASSUME TypeOK, TrueMeansItHappened, UNCHANGED <<state, party, price, call>>,
           \A u \in Calls : answer'[u] = "true" <=> answer[u] = "true"
    PROVE  TrueMeansItHappened'
<1>1. \A kind, q : Succeeded(kind, q)' = Succeeded(kind, q)
  BY DEF Succeeded
<1> QED
  BY <1>1 DEF TrueMeansItHappened, AnswersFit

LEMMA NextTruth ==
    ASSUME TypeOK, TypeOK', AnsweredLast, TrueMeansItHappened, [Next]_vars
    PROVE  AnsweredLast' /\ TrueMeansItHappened'
<1>1. ASSUME NEW t \in Calls, Transition(t)
      PROVE  AnsweredLast' /\ TrueMeansItHappened'
  <2>1. AnsweredLast'
    BY <1>1 DEF Transition, Returns, AnsweredLast, TypeOK
  <2>2. ASSUME NEW q \in Requests PROVE AnswersFit(q)'
    <3>1. CASE q = call[t].request
      BY <1>1, <3>1, TransitionFits DEF TrueMeansItHappened
    <3>2. CASE q # call[t].request
      BY <1>1, <3>2, OtherRequests DEF TrueMeansItHappened
    <3> QED
      BY <3>1, <3>2
  <2> QED
    BY <2>1, <2>2 DEF TrueMeansItHappened
<1>2. ASSUME NEW t \in Calls, NoTransition(t)
      PROVE  AnsweredLast' /\ TrueMeansItHappened'
  <2>1. AnsweredLast'
    BY <1>2 DEF NoTransition, Returns, AnsweredLast, TypeOK
  <2>2. \A u \in Calls : answer'[u] = "true" <=> answer[u] = "true"
    BY <1>2 DEF NoTransition, Returns, AnsweredLast, TypeOK
  <2> QED
    BY <1>2, <2>1, <2>2, QuietSteps DEF NoTransition, rows
<1>3. ASSUME NEW r \in Requests, Submit(r)
      PROVE  AnsweredLast' /\ TrueMeansItHappened'
  <2>1. \A kind, q : Succeeded(kind, q)' = Succeeded(kind, q)
    BY <1>3 DEF Submit, Succeeded
  <2>2. ASSUME NEW q \in Requests PROVE AnswersFit(q)'
    <3>1. AnswersFit(q)
      BY DEF TrueMeansItHappened
    <3>2. state'[q] = IF q = r THEN "pending" ELSE state[q]
      BY <1>3 DEF Submit, TypeOK
    <3>3. state[r] = "none" /\ UNCHANGED <<party, price, call>>
      BY <1>3 DEF Submit
    <3> QED
      BY <2>1, <3>1, <3>2, <3>3 DEF AnswersFit
  <2> QED
    BY <1>3, <2>2 DEF Submit, AnsweredLast, TrueMeansItHappened
<1>4. ASSUME NEW r \in Requests, Review(r)
      PROVE  AnsweredLast' /\ TrueMeansItHappened'
  BY <1>4, QuietSteps DEF Review, rows, AnsweredLast
<1>5. ASSUME NEW p \in Parties, Approve(p) \/ Declare(p)
      PROVE  AnsweredLast' /\ TrueMeansItHappened'
  BY <1>5, QuietSteps DEF Approve, Declare, rows, AnsweredLast
<1>6. CASE UNCHANGED vars
  BY <1>6, QuietSteps DEF vars, rows, AnsweredLast
<1> QED
  BY <1>1, <1>2, <1>3, <1>4, <1>5, <1>6, CallSteps DEF Next

\* The type invariant.
THEOREM TypeCorrect == Spec => []TypeOK
<1>1. TypeOK /\ [Next]_vars => TypeOK'
  BY NextTypes
<1> QED
  BY InitTypes, <1>1, PTL DEF Spec

\* "Each returns true if it happened": once per transition, along the life cycle
\* only, and to the caller whose party and price are on the row.
THEOREM AnswersTrue == Spec => []TrueMeansItHappened
<1>1. Init => AnsweredLast /\ TrueMeansItHappened
  BY DEF Init, AnsweredLast, TrueMeansItHappened, AnswersFit, Succeeded
<1>2. IInv /\ [Next]_vars => IInv'
  BY NextTypes, NextTruth DEF IInv
<1>3. Init => IInv
  BY <1>1, InitTypes DEF IInv
<1>4. IInv => TrueMeansItHappened
  BY DEF IInv
<1> QED
  BY <1>2, <1>3, <1>4, PTL DEF Spec

-----------------------------------------------------------------------------
\* A request past pending keeps its party, its price and its details.
LEMMA StepKeepsAgreement ==
    ASSUME TypeOK, [Next]_vars, NEW r \in Requests, state[r] \notin {"none", "pending"}
    PROVE  /\ UNCHANGED <<party[r], price[r], details[r]>>
           /\ state[r] = "completed" => state'[r] = "completed"
<1>1. ASSUME NEW t \in Calls, Transition(t)
      PROVE  /\ UNCHANGED <<party[r], price[r], details[r]>>
             /\ state[r] = "completed" => state'[r] = "completed"
  <2>1. CASE r # call[t].request
    BY <1>1, <2>1, CallTyped DEF Transition, Write, TypeOK
  <2>2. CASE r = call[t].request
    <3>1. call[t].kind \in {"start", "complete"} /\ state[r] # "completed"
      BY <1>1, <2>2, CallTyped DEF Transition, From, Editable, Kinds
    <3> QED
      BY <1>1, <2>2, <3>1 DEF Transition, Write, TypeOK
  <2> QED
    BY <2>1, <2>2
<1>2. ASSUME NEW t \in Calls, NoTransition(t)
      PROVE  UNCHANGED rows
  BY <1>2 DEF NoTransition
<1>3. ASSUME NEW q \in Requests, Submit(q)
      PROVE  UNCHANGED <<party, price, details>> /\ state'[r] = state[r]
  BY <1>3 DEF Submit, TypeOK
<1>4. (\E q \in Requests : Review(q)) \/ (\E p \in Parties : Approve(p) \/ Declare(p))
         \/ UNCHANGED vars => UNCHANGED rows
  BY DEF Review, Approve, Declare, vars
<1> QED
  BY <1>1, <1>2, <1>3, <1>4, CallSteps DEF Next, rows

\* What was agreed at acceptance stays.
THEOREM AgreementKept == Spec => AgreementStands
<1>1. TypeOK /\ [Next]_vars =>
        [\A r \in Requests : state[r] \notin {"none", "pending"} =>
            UNCHANGED <<party[r], price[r], details[r]>>]_vars
  BY StepKeepsAgreement
<1> QED
  BY TypeCorrect, <1>1, PTL DEF Spec, AgreementStands

\* A review names a completed request and the party that served it, for ever.
THEOREM ReviewsOfDoneWork == Spec => []ReviewsEarned
<1>1. Init => ReviewsEarned
  BY DEF Init, ReviewsEarned
<1>2. TypeOK /\ ReviewsEarned /\ [Next]_vars => ReviewsEarned'
  <2> SUFFICES ASSUME TypeOK, ReviewsEarned, [Next]_vars, NEW v \in reviewed'
               PROVE  state'[v[1]] = "completed" /\ party'[v[1]] = v[2]
    BY DEF ReviewsEarned
  <2>1. CASE v \in reviewed
    <3>1. v[1] \in Requests /\ state[v[1]] = "completed" /\ party[v[1]] = v[2]
      BY <2>1 DEF TypeOK, ReviewsEarned
    <3> QED
      BY <3>1, StepKeepsAgreement
  <2>2. CASE v \notin reviewed
    <3>1. PICK r \in Requests : Review(r)
      BY <2>2, CallSteps DEF Next, vars, rows, Submit, Approve, Declare,
                             Transition, NoTransition
    <3> QED
      BY <2>2, <3>1 DEF Review, Reviewable, rows
  <2> QED
    BY <2>1, <2>2
<1> QED
  BY TypeCorrect, <1>1, <1>2, PTL DEF Spec
=============================================================================
