\* Two customers want the last two units of a colour that goes off sale and back.
SPECIFICATION Spec
CONSTANTS
    t1 = t1
    t2 = t2
    k1 = k1
    k2 = k2
    amal = amal
    badr = badr
    s1 = s1
    s2 = s2
    Checkouts = {t1, t2}
    Settlements = {k1, k2}
    Customers = {amal, badr}
    Sellers = {s1}
    Colors = {1}
    Buyer <- TwoBuyers
    SellerOf <- OneColour
    Prices = {1}
    MaxQty = 2
    MaxStock = 2
    Restocked = {1}
    Withdrawable = {1}
    QuietCart = TRUE
INVARIANTS
    ReservationMatchesOrder
    UnitsConserved
    NeverOversells
    OnlyOpenOrdersReserve
PROPERTIES
    ImplementsAtomicCheckout
