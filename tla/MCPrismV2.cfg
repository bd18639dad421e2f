SPECIFICATION Spec
SYMMETRY MatchSymmetry
CONSTANTS
    alice = alice
    bob = bob
    carol = carol
    admin = admin
    This = This
    NoAddress = NoAddress
    NoHash = NoHash
    Accounts = {alice, bob, carol, admin}
    MarketIds = {"m1"}
    TxIds = {"t1", "t2"}
    MatchIds = {x1, x2, x3}
    Auths <- TradeAuths
    Signed <- TradeAuths
    PRICE_SCALE = 4
    MAX_RAKE_BPS = 5
    BPS = 10
    InitialRoles <- MCRoles
    InitialRake = 5
    InitialWallet <- TradeWallet
    RoleArgs = {}
    RakeArgs = {}
    CloseTimes = {2}
    FillArgs = {2, 3}
    PriceArgs = {1, 2, 3}
    CancelArgs <- TradeCancels
    Donors = {admin}
    MaxTime = 2
INVARIANTS
    CompleteSetsBacked
    RedeemNeverReverts
    VoidDustBounded
    FillsWithinAuthorization
    LimitPriceKept
    LedgerMatchesFills
PROPERTIES
    SurplusNeverShrinks
    MarketMovesForward
