----------------------------- MODULE MCModelCalls -----------------------------
(* Three calls, two at a time, of two customers against small caches and     *)
(* short windows, in quarters of a second.                                   *)
EXTENDS ModelCalls, TLC

CONSTANTS c1, c2, u1, u2, a1, p1, p2, p3, grey, s1, s2

CallsMC == {c1, c2}
UsersMC == {u1, u2}
BucketsMC == {"search", "room_plan", "room_image", "intake"}
LimitMC == [b \in BucketsMC |-> IF b = "search" THEN 2 ELSE 1]
\* Of four instants a second: a wait of 7 or 6 is told as two seconds (6 is a half,
\* rounded to even), 5 to 3 as one, and so are 2 and 1, which would round to none.
PerMC == [b \in BucketsMC |-> IF b = "intake" THEN 7 ELSE 2]
\* A product with a photo of its own colour, one with its primary photo, one with none.
ColoursOfMC == [p \in {p1, p2, p3} |-> IF p = p1 THEN {grey} ELSE {}]
PhotosOfMC == [p \in {p1, p2, p3} |-> CASE p = p1 -> <<NoColour, grey>> [] p = p2 -> <<NoColour>>
                                          [] p = p3 -> <<>>]

Item(p, colour) == [product |-> p, colour |-> colour, quantity |-> 1]

\* Every endpoint on one sentence, one of them blank, and a preview with a
\* piece listed twice around two others.
RequestsMC ==
  {[kind |-> k, ask |-> a1] : k \in {"search", "room_plan", "service"}}
    \cup {[kind |-> "furnishing", ask |-> Blank],
          [kind |-> "room_image",
           ask |-> <<Item(p1, grey), Item(p2, grey), Item(p3, NoColour), Item(p1, NoColour)>>]}

\* Two bounds.  Past ShortNow the clock runs on only while the long window alone
\* has admitted calls.  And time passes and edits happen only where calls can race
\* with them: after the first call, with caches to go stale.
ShortNow == 2
LongWindowOnly == \A k \in Keys : k[2] = "intake" \/ history[k] = <<>>

MCSpec == Init /\ [][/\ Next
                     /\ now' > ShortNow => LongWindowOnly'
                     /\ happened = 0 \/ config.ttl = 0 => UNCHANGED <<now, world>>]_vars

Symmetry == Permutations(CallsMC) \cup Permutations(UsersMC) \cup Permutations({s1, s2})
=============================================================================
