SPECIFICATION OfficeSafety
CONSTANTS
    m1 = m1  a1 = a1  a2 = a2  o1 = o1  o2 = o2  t1 = t1  t2 = t2
    c1 = c1  c2 = c2  h1 = h1  h2 = h2  NoPass = NoPass
    PRICE_SCALE = 4  DEADLINE_MARGIN_SECS = 1  Orders <- MCOrders
    MaxCrashes = 1  MaxCancels = 1  MaxFaults = 1  MaxEnds = 1
    FundedMarkets = {1}  PlacedOrders = {1, 2, 3}  Terms <- MCSellTerms  Funds <- MCSellFunds
    MaxMoves = 0  MaxFundingFaults = 1
    Traders = {a1, a2}  Intents = {o1, o2}  Owner <- MCTwoOwners  Sells = {o2}  NoIntent = NoIntent
    MaxCancelCalls = 2  MaxPageLeaves = 0  MaxSwitches = 1  MaxCancelFaults = 0  MaxRedeliveries = 1
    Tabs = {t1}  Rewards = {r1, r2}  MaxClaims = 3  MaxClaimFaults = 1  MaxClaimLeaves = 1  NoClaim = NoClaim
    Parts = {"admin", "rebuild", "faulty", "restarts", "funding", "cancel", "claim", "relay", "lookback", "stored"}
    Markets = {m1}  Jobs <- MCJobs  MaxAdminFaults = 1  MaxToggles = 1
INVARIANTS PlacesAgree RebuildIsSafe 
PROPERTIES OrdersAreBacked RelayIsFaithful
CHECK_DEADLOCK FALSE
