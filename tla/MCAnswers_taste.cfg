\* Searches of a customer who bought before.
SPECIFICATION Spec
CONSTANTS
    Shops <- BuyerShops
    Requests <- Searches
    CANDIDATE_LIMIT = 4
    MAX_TAGS = 6
    MIN_BROAD_MATCHES = 3
    MAX_TERMS = 2
    MaxRows = 5
    BestPerSlot = 1
    CheapestPerSlot = 1
INVARIANTS
    TasteOnlyBreaksTies
CHECK_DEADLOCK FALSE
