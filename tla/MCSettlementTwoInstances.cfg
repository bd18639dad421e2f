SPECIFICATION Spec
SYMMETRY WorkerSymmetry
CONSTANTS
    m1 = m1
    m2 = m2
    bid = bid
    ask1 = ask1
    ask2 = ask2
    Matches = {m1, m2}
    Orders = {bid, ask1, ask2}
    Bid <- MCBid
    Ask <- MCAsk
    Shares <- MCShares
    Collateral <- MCCollateral
    Qty <- Exceeded
    Cap <- MCCap
    Published <- MCPublished
    Workers = {w1, w2}
    MaxDeliver = 2
    CancelArgs = {ask2}
    ExpireArgs = {ask2}
    MaxCrashes = 0
CHECK_DEADLOCK FALSE
INVARIANTS
    NeverAheadOfChain
    BookedAtMostOnce
PROPERTIES
    ImplementsLedger
