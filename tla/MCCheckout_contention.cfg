\* Two submissions of a cart of three colours of two sellers while an order is cancelled.
SPECIFICATION FairSpec
CONSTANTS
    t1 = t1
    t2 = t2
    k1 = k1
    k2 = k2
    amal = amal
    badr = badr
    s1 = s1
    s2 = s2
    Checkouts = {t1, t2}
    Settlements = {k1}
    Customers = {amal}
    Sellers = {s1, s2}
    Colors = {1, 2, 3}
    Buyer <- OneBuyer
    SellerOf <- ThreeColours
    Prices = {1}
    MaxQty = 1
    MaxStock = 1
    Restocked = {}
    Withdrawable = {}
    QuietCart = TRUE
INVARIANTS
    TypeOK
    OneOrderPerSeller
    NoCheckoutDeadlock
PROPERTIES
    PlacesWholeCart
    EveryCallEnds
    ImplementsAtomicCheckout
\* Once the calls have ended and nothing is in stock, nothing is left to do.
CHECK_DEADLOCK FALSE
