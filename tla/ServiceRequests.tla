-------------------------- MODULE ServiceRequests --------------------------
(***************************************************************************)
(* A service request and the calls that change it: the customer edits and  *)
(* cancels it while pending, an approved seller accepts it, then starts    *)
(* and completes it.  Each call is one conditional UPDATE (accept reads    *)
(* the caller's party in a statement before it).  Under READ COMMITTED an  *)
(* UPDATE chooses the row and evaluates its subqueries in the snapshot of  *)
(* its start, may wait for another transaction that holds the row, and     *)
(* then checks the row again as that transaction left it.                  *)
(***************************************************************************)
EXTENDS Integers

CONSTANTS
    Calls,
    Requests,
    Parties,      \* sellers
    Prices,
    MaxEdits      \* bound: versions of scheduled_date, scheduled_time, details

States == {"none", "pending", "accepted", "in_progress", "completed", "cancelled"}
Kinds == {"edit", "cancel", "accept", "start", "complete"}
Nobody == "nobody"
NoPrice == -1     \* null, or an agreed price below zero

VARIABLES
    state,        \* service_request.lifecycle_state, "none": no row yet
    party,        \* service_request.marketplace_party_id
    price,        \* service_request.price
    details,      \* service_request.details, as the number of its last edit
    approved,     \* parties with approval_state = 'approved'
    capable,      \* parties with a party_capability for the service type
    reviewed,     \* reviews of a request, or of the party that served it
    phase,        \* how far each call is
    call,         \* kind, request, caller and agreed price of each call (fixed)
    answer        \* the Boolean each call returned

rows == <<state, party, price, details>>
vars == <<rows, approved, capable, reviewed, phase, call, answer>>

Phases == {"idle", "reading", "updating", "done"}
\* What a call is made with: the customer edits and cancels, a party does the rest.
CallRecords ==
    {c \in [kind: Kinds, request: Requests, caller: Parties \cup {Nobody},
            price: Prices \cup {NoPrice}] :
        /\ c.kind \in {"edit", "cancel"} <=> c.caller = Nobody
        /\ c.kind # "accept" => c.price = NoPrice}

TypeOK ==
    /\ state \in [Requests -> States]
    /\ party \in [Requests -> Parties \cup {Nobody}]
    /\ price \in [Requests -> Prices \cup {NoPrice}]
    /\ details \in [Requests -> Nat]
    /\ approved \subseteq Parties
    /\ capable \subseteq Parties
    /\ reviewed \subseteq Requests \X (Parties \cup {Nobody})
    /\ phase \in [Calls -> Phases]
    /\ call \in [Calls -> CallRecords]
    /\ answer \in [Calls -> {"none", "true", "false"}]

Init ==
    /\ state = [r \in Requests |-> "none"]
    /\ party = [r \in Requests |-> Nobody]
    /\ price = [r \in Requests |-> NoPrice]
    /\ details = [r \in Requests |-> 0]
    /\ approved \in SUBSET Parties
    /\ capable \in SUBSET Parties
    /\ reviewed = {}
    /\ phase = [t \in Calls |-> "idle"]
    /\ call \in [Calls -> CallRecords]
    /\ answer = [t \in Calls |-> "none"]

-----------------------------------------------------------------------------
(* One call, statement by statement                                        *)

Returns(t, result) ==
    /\ phase' = [phase EXCEPT ![t] = "done"]
    /\ answer' = [answer EXCEPT ![t] = result]

\* Refused, or no row matched: affected_rows is 0 and nothing is written.
False(t) == Returns(t, "false") /\ UNCHANGED rows

\* accept_service_request: a price that is null or negative (NoPrice), or a caller
\* without an approved party, is refused before the UPDATE.
ReadParty(t) ==
    /\ phase[t] = "idle" /\ call[t].kind = "accept"
    /\ IF call[t].price = NoPrice \/ call[t].caller \notin approved
       THEN False(t)
       ELSE phase' = [phase EXCEPT ![t] = "reading"] /\ UNCHANGED <<rows, answer>>
    /\ UNCHANGED <<approved, capable, reviewed, call>>

Editable_Accepted == {"pending", "accepted"}
Editable == {"pending"}

\* EXISTS in the WHERE clause: an approved party of the caller's, or one that
\* declared the service.
Entitled(t) == LET c == call[t] IN
    \/ c.kind \in {"edit", "cancel"}
    \/ c.kind = "accept" /\ c.caller \in capable
    \/ c.kind \in {"start", "complete"} /\ c.caller \in approved

From_Skips == [edit |-> Editable, cancel |-> {"pending"}, accept |-> {"pending"},
               start |-> {"accepted"}, complete |-> {"accepted", "in_progress"}]
From == [edit |-> Editable, cancel |-> {"pending"}, accept |-> {"pending"},
         start |-> {"accepted"}, complete |-> {"in_progress"}]

\* The rest of the WHERE clause, about the row itself.
Matches(t) == LET c == call[t]  r == c.request IN
    /\ state[r] \in From[c.kind]
    /\ c.kind = "accept" => party[r] = Nobody
    /\ c.kind \in {"start", "complete"} => party[r] = c.caller

StartUpdate(t) ==
    /\ phase[t] = IF call[t].kind = "accept" THEN "reading" ELSE "idle"
    /\ IF Matches(t) /\ Entitled(t)
       THEN phase' = [phase EXCEPT ![t] = "updating"] /\ UNCHANGED <<rows, answer>>
       ELSE False(t)
    /\ UNCHANGED <<approved, capable, reviewed, call>>

NextState_Delivered == [cancel |-> "cancelled", accept |-> "accepted",
                        start |-> "in_progress", complete |-> "delivered"]
NextState == [cancel |-> "cancelled", accept |-> "accepted",
              start |-> "in_progress", complete |-> "completed"]

Write(t) ==
    LET c == call[t]  r == c.request IN
    \/ /\ c.kind = "edit" /\ details[r] < MaxEdits
       /\ details' = [details EXCEPT ![r] = @ + 1]
       /\ UNCHANGED <<state, party, price>>
    \/ /\ c.kind # "edit"
       /\ state' = [state EXCEPT ![r] = NextState[c.kind]]
       /\ party' = [party EXCEPT ![r] = IF c.kind = "accept" THEN c.caller ELSE @]
       /\ price' = [price EXCEPT ![r] = IF c.kind = "accept" THEN c.price ELSE @]
       /\ UNCHANGED details

\* The row is checked again once no other transaction holds it; what the EXISTS
\* read stays.
FinishUpdate(t) ==
    /\ phase[t] = "updating"
    /\ IF Matches(t) THEN Write(t) /\ Returns(t, "true") ELSE False(t)
    /\ UNCHANGED <<approved, capable, reviewed, call>>

-----------------------------------------------------------------------------
(* Single statements of the other sessions                                 *)

Submit(r) ==
    /\ state[r] = "none"
    /\ state' = [state EXCEPT ![r] = "pending"]
    /\ UNCHANGED <<party, price, details, approved, capable, reviewed, phase, call, answer>>

\* An administrator approves a party or suspends it.
Approve(p) ==
    /\ approved' = IF p \in approved THEN approved \ {p} ELSE approved \cup {p}
    /\ UNCHANGED <<rows, capable, reviewed, phase, call, answer>>

\* An approved party declares the service or removes it.
Declare(p) ==
    /\ p \in approved
    /\ capable' = IF p \in capable THEN capable \ {p} ELSE capable \cup {p}
    /\ UNCHANGED <<rows, approved, reviewed, phase, call, answer>>

Reviewable_Started == {"in_progress", "completed"}
Reviewable == {"completed"}

\* phase32d_review_insert_verified, for a service request or its party.
Review(r) ==
    /\ state[r] \in Reviewable
    /\ reviewed' = reviewed \cup {<<r, party[r]>>}
    /\ UNCHANGED <<rows, approved, capable, phase, call, answer>>

Next ==
    \/ \E t \in Calls : ReadParty(t) \/ StartUpdate(t) \/ FinishUpdate(t)
    \/ \E r \in Requests : Submit(r) \/ Review(r)
    \/ \E p \in Parties : Approve(p) \/ Declare(p)

Spec == Init /\ [][Next]_vars

-----------------------------------------------------------------------------
\* The calls of a kind on request r that were told TRUE.
Succeeded(kind, r) ==
    {t \in Calls : answer[t] = "true" /\ call[t].kind = kind /\ call[t].request = r}

\* The answers given about request r agree with its row.
AnswersFit(r) ==
    /\ \A kind \in Kinds \ {"edit"} : \A t, u \in Succeeded(kind, r) : t = u
    /\ Succeeded("cancel", r) # {} => state[r] = "cancelled"
    /\ Succeeded("accept", r) # {} <=>
          state[r] \in {"accepted", "in_progress", "completed"}
    /\ Succeeded("start", r) # {} <=> state[r] \in {"in_progress", "completed"}
    /\ Succeeded("complete", r) # {} <=> state[r] = "completed"
    /\ \A t \in Succeeded("accept", r) :
          party[r] = call[t].caller /\ price[r] = call[t].price
    /\ \A t \in Succeeded("start", r) \cup Succeeded("complete", r) :
          party[r] = call[t].caller

\* Each function "returns true if it happened": TRUE goes to exactly one caller per
\* transition, and only along pending, accepted, in_progress, completed; the party
\* and the price on the request are those of the call that accepted it.
TrueMeansItHappened == \A r \in Requests : AnswersFit(r)

\* From acceptance on, what was agreed stays: the party, the price and what the
\* customer asked for.
AgreementStands ==
    [][\A r \in Requests : state[r] \notin {"none", "pending"} =>
          UNCHANGED <<party[r], price[r], details[r]>>]_vars

\* A review names a request that was completed, and the party that did the work.
ReviewsEarned ==
    \A v \in reviewed : state[v[1]] = "completed" /\ party[v[1]] = v[2]
=============================================================================
