\* Every request, put to every shop of up to six products.
SPECIFICATION Spec
CONSTANTS
    Shops <- AllShops
    Requests <- AllRequests
    CANDIDATE_LIMIT = 5
    MAX_TAGS = 6
    MIN_BROAD_MATCHES = 3
    MAX_TERMS = 2
    MaxRows = 6
    BestPerSlot = 1
    CheapestPerSlot = 1
INVARIANTS
    TypeOK
    ConfirmedBeatsGuessed
    SamePageInAnyOrder
    EmptyPageExplained
    ShortfallsAreTheWayBack
    StatedLimitsHold
    PagesTile
    AffordableRoomFound
    ClosestRoomIsCheapest
    UpgradesKeepTheirPromise
    PlanIsBuyable
    MentionOrderImmaterial
\* One request is answered, and then nothing is left to do.
CHECK_DEADLOCK FALSE
