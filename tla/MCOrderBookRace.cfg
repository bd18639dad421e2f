SPECIFICATION Spec
CONSTANTS
    PRICE_SCALE = 4
    DEADLINE_MARGIN_SECS = 1
    MarketIds = {"m1"}
    Orders <- TwoOrders
    MayLosePublish = FALSE
    MaxCreates = 2
    MaxTime = 1
PROPERTIES
    BooksNotOverwritten
