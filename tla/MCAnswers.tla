------------------------------ MODULE MCAnswers ------------------------------
(***************************************************************************)
(* Every shop that stocks up to MaxRows of nine products (one fewer for a  *)
(* customer who bought before), and the requests put to it. The nine       *)
(* differ in what the answers tell apart: two prices that tie, colours in  *)
(* and out of stock, a style confirmed or guessed, a discount, a missing   *)
(* width, no category, not for sale.                                       *)
(***************************************************************************)
EXTENDS Answers

CONSTANT MaxRows

Plain == [lifecycle_state |-> "published", approval_state |-> "approved", category_active |-> TRUE,
          category |-> {"sofas"}, colours |-> {[label |-> {"grey"}, stock |-> 2]}, materials |-> {{"wood"}},
          price |-> 1000, discount |-> {}, width |-> {160}, height |-> {}, depth |-> {80},
          enrichment |-> {}, text |-> {"sofa"}]
Row(id, facts) == [id |-> id] @@ facts @@ Plain
Modern(state) == [kind |-> "style", label |-> {"modern"}, state |-> state]

Pool == {
    Row(1, [enrichment |-> {Modern("party_confirmed")}, price |-> 1200, height |-> {85}]),
    Row(2, [price |-> 1000, height |-> {95}, enrichment |-> {Modern("ai_proposed")},
            colours |-> {[label |-> {"grey"}, stock |-> 1], [label |-> {"bej"}, stock |-> 0]}]),
    Row(3, [price |-> 1000, materials |-> {{"wood"}, {"geld"}}, width |-> {},
            colours |-> {[label |-> {"beige"}, stock |-> 3]}]),
    Row(4, [price |-> 1400, discount |-> {1300}, width |-> {200}, depth |-> {95}, height |-> {80}, text |-> {"sofa", "wide"},
            enrichment |-> {[kind |-> "feel", label |-> {"dafy"}, state |-> "party_confirmed"]}]),
    Row(5, [category |-> {"beds", "sereer"}, price |-> 1500, text |-> {"bed"}]),
    Row(6, [category |-> {"bed"}, price |-> 1650, width |-> {}, materials |-> {},
            enrichment |-> {Modern("party_confirmed")}]),
    Row(7, [category |-> {"tables"}, price |-> 500, text |-> {"wide"}, depth |-> {},
            colours |-> {[label |-> {"grey"}, stock |-> 5], [label |-> {"teal"}, stock |-> 1]}]),
    Row(8, [category |-> {"puf"}, price |-> 700]),
    Row(9, [lifecycle_state |-> "draft", price |-> 900])}

Tag(id, kind, slug, confidence) == [product |-> id, kind |-> kind, slug |-> slug, confidence |-> confidence]
Tags == <<Tag(2, "style", "modern", 100), Tag(3, "style", "modern", 40), Tag(3, "style", "modern", 90),
          Tag(3, "feel", "cosy", 70), Tag(5, "style", "modrn", 90), Tag(7, "room_type", "office", 60),
          Tag(6, "style", "classic", 101), Tag(1, "feel", "cosy", 80)>>
Services == <<[id |-> 11, active |-> TRUE, identified |-> TRUE, named |-> TRUE],
              [id |-> 12, active |-> TRUE, identified |-> TRUE, named |-> FALSE],
              [id |-> 13, active |-> TRUE, identified |-> TRUE, named |-> TRUE]>>
Offers == <<[id |-> 21, published |-> FALSE, titled |-> TRUE, identified |-> TRUE, price |-> {}],
            [id |-> 22, published |-> TRUE, titled |-> FALSE, identified |-> TRUE, price |-> {900}],
            [id |-> 23, published |-> TRUE, titled |-> TRUE, identified |-> TRUE, price |-> {}]>>
Review(id, at, target) == [id |-> id, at |-> at, targets |-> {target}]
Reviews == {Review(1, 5, <<"product", 1>>), Review(2, 7, <<"product", 1>>), Review(3, 7, <<"product", 1>>),
            Review(4, 6, <<"product", 2>>), Review(5, 8, <<"party", 1>>)}

Shop(rows, bought, paid) ==
    [rows |-> rows, tags |-> Tags, bought |-> bought, paid |-> paid, services |-> Services,
     offers |-> Offers, reviews |-> Reviews]
SomeShops == {Shop(rows, <<>>, <<>>) : rows \in {s \in SUBSET Pool : Cardinality(s) <= MaxRows}}
BuyerShops == {Shop(rows, b, <<1000, 1500>>) : rows \in {s \in SUBSET Pool : Cardinality(s) < MaxRows},
                                               b \in {<<3, 5>>, <<7, 7>>}}
AllShops == SomeShops \cup BuyerShops

---------------------------------------------------------------------------

Says(words) == [words |-> words, size |-> 100]
Blank == [words |-> <<>>, size |-> 0]
Long(words) == [words |-> words, size |-> 450]
Silent == [category |-> {}, colours |-> {}, materials |-> {}, price |-> {}, width |-> {}, height |-> {},
           depth |-> {}, in_stock_only |-> TRUE, preferred_colours |-> {}, preferred_materials |-> {},
           styles |-> {}, feels |-> {}, room |-> {}, near_width |-> {}, near_height |-> {},
           near_depth |-> {}, near_price |-> {}, unclear |-> FALSE]
Upto(high) == {[minimum |-> {}, maximum |-> {high}]}
Asked(message, history, draft, limit) ==
    [kind |-> "search", message |-> message, history |-> history, draft |-> draft @@ Silent, limit |-> limit]
Searches == {
    Asked(Says(<<"furniture">>), <<>>, [price |-> {}], 3),
    Asked(Says(<<"the">>), <<>>, [unclear |-> TRUE], 3),
    Asked(Blank, <<>>, [price |-> {}], 3),
    Asked(Says(<<"sofa">>), <<>>, [category |-> {{"sofa"}}, styles |-> {{"modern"}}], 2),
    Asked(Says(<<"grey">>), <<Long(<<"sofa">>), Says(<<"modern">>)>>,
          [category |-> {{"couch"}}, colours |-> {{"gray"}}, styles |-> {{"asry"}}], 20),
    Asked(Says(<<"beige">>), <<>>, [colours |-> {{"beige"}}, in_stock_only |-> FALSE, near_price |-> {0}], 3),
    Asked(Says(<<"cheap">>), <<>>, [price |-> Upto(1000), materials |-> {{"wood"}}, feels |-> {{"cozy"}}], 3),
    Asked(Says(<<"wide", "sofa", "wide">>), <<>>, [category |-> {{"sofa"}}, width |-> {[minimum |-> {150}, maximum |-> {190}]},
                                         colours |-> {{"bej"}}], 3),
    Asked(Says(<<"leather">>), <<>>, [category |-> {{"sofa"}}, materials |-> {{"leather"}}, price |-> Upto(900)], 3),
    Asked(Says(<<"odd">>), <<>>, [price |-> {[minimum |-> {2000}, maximum |-> {1000}]}], 3),
    Asked(Says(<<"tall">>), <<>>, [category |-> {{"sofa"}}, height |-> {[minimum |-> {200}, maximum |-> {100}]}], 3),
    Asked(Says(<<"low">>), <<>>, [category |-> {{"sofa"}}, height |-> Upto(90), near_depth |-> {90},
                                  preferred_materials |-> {{"wood"}, {"silk"}}], 3),
    Asked(Says(<<"deep">>), <<>>, [depth |-> {[minimum |-> {90}, maximum |-> {}]}, near_height |-> {0}], 3),
    Asked(Says(<<"odd">>), <<>>, [category |-> {{"lamp"}}, preferred_colours |-> {{"grey"}}, near_price |-> {400}], 3),
    Asked(Says(<<"near">>), <<>>, [near_width |-> {180}, near_price |-> {1600}, room |-> {{"study"}}, materials |-> {{"khashab"}}], 4)}

Piece(category, quantity, budget) ==
    [category |-> {category}, quantity |-> quantity, budget |-> budget, materials |-> <<>>, colours |-> <<>>]
Room(message, items, budget, facts) ==
    [kind |-> "room", message |-> message, history |-> <<>>,
     draft |-> facts @@ [items |-> items, budget |-> budget, styles |-> {}, room |-> {}, colours |-> <<>>]]
RoomRequests == {
    Room(Says(<<"modern", "two">>), <<Piece({"sofa"}, 1, {}), Piece({"bed"}, 1, {})>>, {2600}, [styles |-> {{"modern"}}]),
    Room(Says(<<"grey">>), <<Piece({"sofa"}, 2, {}), Piece({"table"}, 1, {}), Piece({"couch"}, 1, {900})>>, {4000},
         [colours |-> <<{"beige"}>>]),
    Room(Says(<<"wide">>), <<Piece({"bed"}, 1, {1400}), Piece({"sofa"}, 1, {1100}), Piece({"lamp"}, 1, {})>>, {},
         [room |-> {{"nom"}}, styles |-> {{"modern"}}]),
    Room(Says(<<"one">>), <<Piece({"sofa"}, 1, {1150}), Piece({"table"}, 1, {})>>, {1700}, [room |-> {}]),
    Room(Says(<<"sofa">>), <<Piece({"sofa"}, 1, {}), [Piece({"table"}, 1, {}) EXCEPT !.materials = <<{"leather"}>>]>>, {}, [room |-> {}]),
    Room(Says(<<"sofa", "two">>),
         <<[Piece({"sofa"}, 1, {}) EXCEPT !.colours = <<{"grey"}, {"bej"}>>, !.materials = <<{"wood"}>>],
           [Piece({"couch"}, 1, {}) EXCEPT !.colours = <<{"brown"}>>, !.materials = <<{"geld"}, {"metal"}>>]>>,
         {3000}, [colours |-> <<{"beige"}>>]),
    Room(Says(<<"sofa">>), <<Piece({"sofa"}, 6, {}), Piece({"sofa"}, 5, {})>>, {}, [room |-> {}]),
    Room(Says(<<"sofa">>), <<Piece({"sofa"}, 1, {0})>>, {}, [room |-> {}])}

ModelChoices == <<[number |-> 2, confidence |-> 295], [number |-> 3, confidence |-> 900],
             [number |-> 2, confidence |-> 800], [number |-> 1, confidence |-> 299]>>
BriefDraft == [rooms |-> <<[room |-> {"nom"}, quantity |-> {2}], [room |-> {"bedroom"}, quantity |-> {40}],
                           [room |-> {"roof"}, quantity |-> {}]>>,
               total_budget |-> {0}, styles |-> {{"modern"}}, feels |-> {{"loud"}}]
OtherRequests ==
    {[kind |-> "compare", ids |-> ids] : ids \in {<<1, 2>>, <<3, 5, 4>>, <<7, 6>>, <<1, 1>>, <<4>>}}
    \cup {[kind |-> "similar", id |-> id, limit |-> 2] : id \in {1, 3, 8}}
    \cup {[kind |-> "view", id |-> id] : id \in {2, 9}}
    \cup {[kind |-> "reviews", targets |-> {<<"product", 1>>}, limit |-> limit, offset |-> offset] :
              limit \in {1, 2}, offset \in 0 .. 2}
    \cup {[kind |-> "reviews", targets |-> {<<"product", 1>>, <<"party", 1>>}, limit |-> 1, offset |-> 0]}
    \cup {[kind |-> "page", limit |-> limit, offset |-> offset] : limit \in {1, 2}, offset \in 0 .. 3}
    \cup {[kind |-> "service", message |-> message, history |-> <<>>, draft |-> [choices |-> choices]] :
              message \in {Says(<<"leak">>), Blank},
              choices \in {SubSeq(ModelChoices, 1, 3), ModelChoices}}
    \cup {[kind |-> "brief", message |-> message, history |-> <<>>, draft |-> BriefDraft] :
              message \in {Says(<<"bedrooms">>), Blank}}

AllRequests == Searches \cup RoomRequests \cup OtherRequests
=============================================================================
