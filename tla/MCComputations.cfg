SPECIFICATION AllSpec
CONSTANTS
    PRICE_SCALE = 5
    DEADLINE_MARGIN_SECS = 1
    Bids <- MCBids
    Asks <- MCAsks
    MaxUpper = 9
    TypeFields <- MCSchema
    TypeProperties <- MCInterfaces
    ServiceMethods <- MCServices
    ClientStubs <- MCClients
    Replies <- MCReplies
    Keys = {"k1", "k2"}
    MaxSet = 2
    MaxReplies = 2
    Undefined = Undefined
INVARIANTS ResultIsLargest TicketIsHonest BothSidesAgree PortfolioIsRight
PROPERTY CallEnds
CHECK_DEADLOCK FALSE
