SPECIFICATION FairSpec
CONSTANTS
    m1 = m1
    m2 = m2
    bid = bid
    ask1 = ask1
    ask2 = ask2
    Matches = {m1, m2}
    Orders = {bid, ask1, ask2}
    Bid <- MCBid
    Ask <- MCAsk
    Shares <- MCShares
    Collateral <- MCCollateral
    Qty <- Covering
    Cap <- MCCap
    Published <- MCPublished
    Workers = {w1}
    MaxDeliver = 0
    CancelArgs = {}
    ExpireArgs = {}
    MaxCrashes = 2
CHECK_DEADLOCK FALSE
PROPERTIES
    ExecutedGetsRecorded
