------------------------- MODULE MCServiceRequests -------------------------
(* Three calls of any kind on one service request that two parties can serve. *)
EXTENDS ServiceRequests, TLC

CONSTANTS r1, p1, p2, q1, q2, q3

Symmetry == Permutations({q1, q2, q3}) \cup Permutations({p1, p2})
=============================================================================
