\* Three calls of one customer and one of another race for their carts.
SPECIFICATION Spec
CONSTANTS
    c1 = c1
    c2 = c2
    c3 = c3
    c4 = c4
    amal = amal
    badr = badr
    Calls = {c1, c2, c3, c4}
    Customers = {amal, badr}
    Caller <- Callers
    MaxCarts = 3
SYMMETRY Symmetry
INVARIANTS
    TypeOK
    CreatedByOneCall
    ParallelCallsAgree
\* All calls may have ended with every account closed.
CHECK_DEADLOCK FALSE
