----------------------------- MODULE MCCheckout -----------------------------
(* Values for the constants of Checkout: up to two colours and two sellers.  *)
EXTENDS Checkout, TLC

CONSTANTS t1, t2, k1, k2, amal, badr, s1, s2

OneBuyer == (t1 :> amal) @@ (t2 :> amal)
TwoBuyers == (t1 :> amal) @@ (t2 :> badr)
OneCall == t1 :> amal

TwoSellers == (1 :> s1) @@ (2 :> s2)
OneSeller == (1 :> s1) @@ (2 :> s1)
ThreeColours == (1 :> s1) @@ (2 :> s1) @@ (3 :> s2)
OneColour == 1 :> s1
=============================================================================
