--------------------------- MODULE MCCartService ---------------------------
(* Four calls for a cart: three of one customer, one of another.              *)
EXTENDS CartService, TLC

CONSTANTS c1, c2, c3, c4, amal, badr

Callers == c1 :> amal @@ c2 :> amal @@ c3 :> amal @@ c4 :> badr
Symmetry == Permutations({c1, c2, c3})
=============================================================================
