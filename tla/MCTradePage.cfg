SPECIFICATION PageSpec
CONSTANTS
    o1 = o1  o2 = o2  x = x  tab = tab  tab2 = tab2  lock = lock  NoCall = NoCall  NoTime = NoTime
    Calls <- MCCalls  Orders <- MCOrders  Tabs = {tab}  TabOf <- MCTabOf
    Locks = {lock}  LockOf <- MCLockOf  Timed <- MCCalls
    CallTimeout = 2  HoldCeiling = 3  CancelGrace = 1
    Ids = {"s1", "s2"}  Shares = 1  TTL = 1  SUPPRESS = 1  MaxFetches = 1  Reloads = TRUE
    PRICE_SCALE = 2000  DEADLINE_MARGIN_SECS = 0  BUY_NO_CAP_SLACK = 100  Typed <- MCTyped
    Books <- MCBooks  Windows <- MCWindows  Trades <- MCTrades
INVARIANTS SigningIsSafe FormInStep OpenSellsCovered ChartIsHistory
PROPERTY PageRecovers
CHECK_DEADLOCK FALSE
