SPECIFICATION Spec
CONSTANTS
    PRICE_SCALE = 4
    DEADLINE_MARGIN_SECS = 1
    MarketIds = {"m1"}
    Orders <- MixedOrders
    MayLosePublish = FALSE
    MaxCreates = 1
    MaxTime = 1
INVARIANTS
    FillsRespectOrders
    CrossedOnlyIfUnmatchable
PROPERTIES
    PriceTimePriority
