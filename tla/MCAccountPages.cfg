SPECIFICATION AccountSpec
CONSTANTS
    a1 = a1  a2 = a2  testnet = testnet  mainnet = mainnet  old = old  new = new
    m1 = m1  m2 = m2  m3 = m3  m4 = m4  None = None  NoData = NoData  Listing <- MCListing
    Accounts = {a1, a2}  Networks = {testnet, mainnet}  NoAccount = NoAccount
    MaxSelects = 2  MaxLookups = 1
    INACTIVITY_TIMEOUT = 3  WARNING_COUNTDOWN = 1  IDLE_LIMIT = 5  THROTTLE = 2
    MaxTime = 10  NoTime = NoTime
    Contracts = {old, new}  Default = old  Created <- MCCreated  NoContract = NoContract
    Amounts = {1}  MaxAllowance = 1  Validity = 1  Patience = 2
    MaxRequests = 0  MaxSteps = 1
    Redeemers = {a1}  Markets = {m1}  NoSigner = NoSigner  MaxRedeems = 2  MaxChanges = 2
INVARIANTS SignerIsSession UnattendedSessionEnds BoardIsRight
PROPERTIES GrantIsSafe RedeemIsHonest AccountRecovers
CHECK_DEADLOCK FALSE
