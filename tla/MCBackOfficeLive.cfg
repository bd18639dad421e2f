SPECIFICATION OfficeSpec
CONSTANTS
    m1 = m1  a1 = a1  a2 = a2  o1 = o1  o2 = o2  t1 = t1  t2 = t2
    c1 = c1  c2 = c2  h1 = h1  h2 = h2  NoPass = NoPass
    PRICE_SCALE = 4  DEADLINE_MARGIN_SECS = 1  Orders <- MCOrders
    MaxCrashes = 1  MaxCancels = 1  MaxFaults = 1  MaxEnds = 1
    FundedMarkets = {1}  PlacedOrders = {1, 2}  Terms <- MCSellTerms  Funds <- MCSellFunds
    MaxMoves = 1  MaxFundingFaults = 0
    Traders = {a1}  Intents = {o2}  Owner <- MCOneOwner  Sells = {o2}  NoIntent = NoIntent
    MaxCancelCalls = 2  MaxPageLeaves = 1  MaxSwitches = 0  MaxCancelFaults = 1  MaxRedeliveries = 0
    Tabs = {t1, t2}  Rewards = {r1}  MaxClaims = 2  MaxClaimFaults = 1  MaxClaimLeaves = 1  NoClaim = NoClaim
    Parts = {"admin", "restarts", "funding", "page", "claiming"}
    Markets = {m1}  Jobs <- MCJobs  MaxAdminFaults = 1  MaxToggles = 0
PROPERTY OfficeRecovers
CHECK_DEADLOCK FALSE
