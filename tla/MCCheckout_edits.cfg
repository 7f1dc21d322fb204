\* One customer edits the cart while two submissions of it run.
SPECIFICATION Spec
CONSTANTS
    t1 = t1
    t2 = t2
    k1 = k1
    k2 = k2
    amal = amal
    badr = badr
    s1 = s1
    s2 = s2
    Checkouts = {t1, t2}
    Settlements = {k1}
    Customers = {amal}
    Sellers = {s1}
    Colors = {1}
    Buyer <- OneBuyer
    SellerOf <- OneColour
    Prices = {1, 2}
    MaxQty = 2
    MaxStock = 1
    Restocked = {}
    Withdrawable = {}
    QuietCart = FALSE
INVARIANTS
    OnlyOpenOrdersReserve
\* Once the calls have ended and nothing is in stock, nothing is left to do.
CHECK_DEADLOCK FALSE
