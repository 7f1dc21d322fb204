------------------------------- MODULE Intake -------------------------------
(***************************************************************************)
(* Filling in a form from a description (app/intake): which of the         *)
(* marketplace's own services a problem is, and which rooms, budget and    *)
(* look a furnishing job has. Nothing is written. A confidence is in       *)
(* thousandths as the model sends it and in hundredths as it is answered.  *)
(***************************************************************************)
EXTENDS Search

MAX_ROOM_QUANTITY == 10
MIN_CONFIDENCE == 30

MAX_CHOICES == 3
MAX_ROOMS == 8
ValidTriageDraft(draft) == Len(draft.choices) <= MAX_CHOICES
ValidBriefDraft(draft) ==
    Len(draft.rooms) <= MAX_ROOMS /\ Surfaces(draft.styles) /\ Surfaces(draft.feels)

(* A directory row without a usable id or any name column is dropped.       *)
ParseServiceRows(rows) == SelectSeq(rows, LAMBDA r : r.active /\ r.identified /\ r.named)

(* The model answers with positions in the list it was sent. A position     *)
(* outside it, repeated, or not sure enough after rounding is dropped.      *)
ServicesFromDraft(choices, services) ==
    LET rounded(c) == RoundHalfEven(c.confidence, 10)
        usable  == SelectSeq(choices, LAMBDA c : /\ c.number \in DOMAIN services
                                                 /\ c.confidence \in 1 .. 1000
                                                 /\ rounded(c) >= MIN_CONFIDENCE)
        fresh   == {i \in DOMAIN usable : \A j \in 1 .. i - 1 : usable[j].number # usable[i].number}
        order   == SetToSortSeq(fresh, <)
    IN  [n \in DOMAIN order |-> [id |-> services[usable[order[n]].number].id,
                                 confidence |-> rounded(usable[order[n]])]]

(* A room keeps its largest count; a count out of range falls back to one.  *)
RoomCount(entry) ==
    LET stated == entry.quantity \cap (1 .. MAX_ROOM_QUANTITY)
    IN  IF stated = {} THEN 1 ELSE CHOOSE q \in stated : TRUE
BriefRooms(entries) ==
    LET slug(e) == Lookup(ROOM_TYPES, e.room)
    IN  [s \in {slug(e) : e \in Range(entries)} \ {Unmapped} |->
            Max({RoomCount(e) : e \in {d \in Range(entries) : slug(d) = s}})]

BriefFromDraft(draft) ==
    [rooms        |-> BriefRooms(draft.rooms),
     total_budget |-> SoftValue(draft.total_budget, MAX_PRICE),
     styles       |-> Resolved(STYLES, draft.styles),
     feels        |-> Resolved(FEELS, draft.feels),
     unresolved   |-> Unresolved(ROOM_TYPES, {e.room : e \in Range(draft.rooms)})
                      \cup Unresolved(STYLES, draft.styles) \cup Unresolved(FEELS, draft.feels)]
=============================================================================
