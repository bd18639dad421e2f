SPECIFICATION DeployedSpec
SYMMETRY MatchSymmetry
CONSTANTS
    alice = alice
    bob = bob
    carol = carol
    admin = admin
    x1 = x1
    x2 = x2
    This = This
    NoAddress = NoAddress
    NoHash = NoHash
    Accounts = {alice, bob, carol, admin}
    PRICE_SCALE = 4
    DEADLINE_MARGIN_SECS = 2
    MarketIds = {"m1"}
    Orders <- MCOrders
    MayLosePublish = TRUE
    MaxCreates = 1
    MaxTime = 4
    MAX_RAKE_BPS = 5
    BPS = 10
    InitialRoles <- MCRoles
    InitialRake = 5
    InitialWallet <- MCWallet
    CloseTimes = {5}
CHECK_DEADLOCK FALSE
INVARIANTS
    NextFillIsValid
    ContractNotAheadOfBook
    TotalsAreSums
