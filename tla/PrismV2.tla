------------------------------ MODULE PrismV2 ------------------------------
(***************************************************************************)
(* The custody and settlement contract scs/contracts/PrismV2.sol.          *)
(*                                                                         *)
(* Every external function is one action; a call that reverts is no step,  *)
(* so the guards of an action are the negated revert conditions of the     *)
(* function and of everything it calls.  The chain serialises calls, so a  *)
(* call is one atomic step.  Quantities are naturals: Solidity's checked   *)
(* arithmetic reverts on underflow, which appears as a guard, and no       *)
(* quantity comes near 2^256.                                              *)
(*                                                                         *)
(* An authorization's hash is collision free and is modelled by the        *)
(* authorization itself.  The HAS precompile (signatures) is the constant  *)
(* set Signed, the collateral token is the function wallet; allowances are *)
(* taken to suffice.                                                       *)
(***************************************************************************)
EXTENDS Integers, FiniteSets, Functions

CONSTANTS
    Accounts,       \* addresses that hold collateral or positions
    This,           \* the address of the contract (proxy) itself
    NoAddress,      \* address(0)
    NoHash,         \* bytes32(0)
    MarketIds,
    TxIds,
    MatchIds,
    Auths,          \* the authorizations an operator can present
    Signed,         \* those whose signature the HAS precompile accepts
    PRICE_SCALE,    \* 1_000_000 in the code
    MAX_RAKE_BPS,   \* 1_000 in the code
    BPS,            \* the literal 10_000 in redeem
    InitialRoles,   \* the arguments of initialize
    InitialRake,
    InitialWallet,  \* collateral of every account, the contract included
    RoleArgs,       \* bound: addresses passed to the role setters
    RakeArgs,       \* bound: values passed to setDefaultRake
    CloseTimes,     \* bound: closeTime arguments of createMarket
    FillArgs,       \* bound: fillShares arguments of settle
    PriceArgs,      \* bound: executionYesPrice arguments of settle
    CancelArgs,     \* bound: <<signer, txId>> pairs of cancelAuthorization
    Donors,         \* bound: who sends tokens to the contract directly
    MaxTime         \* bound: last block timestamp

Addresses == Accounts \cup {This}

AuthorizationType ==
    [signer : Accounts, marketId : MarketIds, txId : TxIds,
     side : {"YES", "NO"}, action : {"BUY", "SELL"},
     limitYesPrice : Nat, qtyShares : Nat, collateralCap : Nat,
     deadline : Nat,
     here : BOOLEAN]   \* version, chainId and verifyingContract are ours

ASSUME ConstantsAssumption ==
    /\ This \notin Accounts
    /\ NoAddress \notin Addresses
    /\ NoHash \notin Auths
    /\ Auths \subseteq AuthorizationType
    /\ Signed \subseteq Auths
    /\ PRICE_SCALE \in Nat \ {0}
    /\ BPS \in Nat \ {0}
    /\ MAX_RAKE_BPS \in 0 .. BPS
    /\ InitialRoles \in [{"owner", "operator", "oracle", "dao"} -> Accounts]
    /\ InitialRake \in 0 .. MAX_RAKE_BPS
    /\ InitialWallet \in [Addresses -> Nat]
    /\ RoleArgs \subseteq Accounts
    /\ RakeArgs \subseteq Nat
    /\ CloseTimes \subseteq Nat
    /\ FillArgs \subseteq Nat
    /\ PriceArgs \subseteq Nat
    /\ CancelArgs \subseteq Accounts \X TxIds
    /\ Donors \subseteq Accounts
    /\ MaxTime \in Nat

\* Positions, reserves and fills are summed over finitely many holders, markets
\* and authorizations.
ASSUME FiniteAssumption == IsFiniteSet(Accounts) /\ IsFiniteSet(MarketIds) /\ IsFiniteSet(Auths)

VARIABLES
    roles,                \* owner, operator, oracle, dao
    pendingOwner,
    defaultRakeBps,
    associated,           \* the proxy can receive the collateral token
    aggregateReserved,
    markets,
    yesBalance,
    noBalance,
    fills,
    authorizationByNonce,
    canceled,
    executedMatches,
    wallet,               \* balanceOf of the collateral token
    now                   \* block.timestamp

adminVars == <<roles, pendingOwner, defaultRakeBps, associated>>
authVars  == <<fills, authorizationByNonce, canceled, executedMatches>>
moneyVars == <<aggregateReserved, yesBalance, noBalance, wallet>>
vars == <<adminVars, authVars, moneyVars, markets, now>>

States == {"UNINITIALIZED", "OPEN", "HALTED", "CLOSED",
           "RESOLVED_YES", "RESOLVED_NO", "VOID"}
Terminal == {"RESOLVED_YES", "RESOLVED_NO", "VOID"}

MarketType ==
    [state : States, closeTime : Nat, rakeBps : 0 .. MAX_RAKE_BPS,
     reserve : Nat, totalYes : Nat, totalNo : Nat]

NoMarket == [state |-> "UNINITIALIZED", closeTime |-> 0, rakeBps |-> 0,
             reserve |-> 0, totalYes |-> 0, totalNo |-> 0]

\* The proxy runs initialize in its constructor.
Init ==
    /\ roles = InitialRoles
    /\ pendingOwner = NoAddress
    /\ defaultRakeBps = InitialRake
    /\ associated = FALSE
    /\ aggregateReserved = 0
    /\ markets = [m \in MarketIds |-> NoMarket]
    /\ yesBalance = [m \in MarketIds |-> [acct \in Accounts |-> 0]]
    /\ noBalance = [m \in MarketIds |-> [acct \in Accounts |-> 0]]
    /\ fills = [h \in Auths |-> [shares |-> 0, collateral |-> 0]]
    /\ authorizationByNonce = [s \in Accounts |-> [t \in TxIds |-> NoHash]]
    /\ canceled = [s \in Accounts |-> [t \in TxIds |-> FALSE]]
    /\ executedMatches = {}
    /\ wallet = [acct \in Addresses |-> IF acct = This THEN 0 ELSE InitialWallet[acct]]
    /\ now = 0

-----------------------------------------------------------------------------
(* The collateral token. *)

\* safeTransfer and safeTransferFrom of a conserving token.
Moved(w, from, to, amount) ==
    [w EXCEPT ![from] = @ - amount, ![to] = @ + amount]

CanMove(w, from, to, amount) ==
    /\ w[from] >= amount
    /\ to = This => associated

_assertSolvent(w, reserved) == w[This] >= reserved

-----------------------------------------------------------------------------
(* Administration. *)

associateCollateralToken(sender) ==
    /\ sender = roles.owner
    /\ ~associated
    /\ associated' = TRUE
    /\ UNCHANGED <<roles, pendingOwner, defaultRakeBps, authVars, moneyVars, markets, now>>

transferOwnership(sender, newOwner) ==
    /\ sender = roles.owner
    /\ pendingOwner' = newOwner
    /\ UNCHANGED <<roles, defaultRakeBps, associated, authVars, moneyVars, markets, now>>

acceptOwnership(sender) ==
    /\ sender = pendingOwner
    /\ roles' = [roles EXCEPT !.owner = sender]
    /\ pendingOwner' = NoAddress
    /\ UNCHANGED <<defaultRakeBps, associated, authVars, moneyVars, markets, now>>

\* setOperator, setOracle and setDao differ in the slot they write.
setRole(sender, slot, account) ==
    /\ sender = roles.owner
    /\ roles' = [roles EXCEPT ![slot] = account]
    /\ UNCHANGED <<pendingOwner, defaultRakeBps, associated, authVars, moneyVars, markets, now>>

setDefaultRake(sender, newRakeBps) ==
    /\ sender = roles.owner
    /\ newRakeBps <= MAX_RAKE_BPS
    /\ defaultRakeBps' = newRakeBps
    /\ UNCHANGED <<roles, pendingOwner, associated, authVars, moneyVars, markets, now>>

-----------------------------------------------------------------------------
(* The life of a market. *)

\* Mutant: a market can be created again.
createMarketAgain(sender, m, closeTime) ==
    /\ sender = roles.owner
    /\ closeTime > now
    /\ markets' = [markets EXCEPT ![m] =
           [NoMarket EXCEPT !.state = "OPEN", !.closeTime = closeTime, !.rakeBps = defaultRakeBps]]
    /\ UNCHANGED <<adminVars, authVars, moneyVars, now>>

createMarket(sender, m, closeTime) ==
    /\ sender = roles.owner
    /\ markets[m].state = "UNINITIALIZED"
    /\ closeTime > now
    /\ markets' = [markets EXCEPT ![m] =
           [NoMarket EXCEPT !.state = "OPEN", !.closeTime = closeTime, !.rakeBps = defaultRakeBps]]
    /\ UNCHANGED <<adminVars, authVars, moneyVars, now>>

SetState(m, state) ==
    /\ markets' = [markets EXCEPT ![m].state = state]
    /\ UNCHANGED <<adminVars, authVars, moneyVars, now>>

haltMarket(sender, m) ==
    /\ sender \in {roles.owner, roles.oracle}
    /\ markets[m].state = "OPEN"
    /\ SetState(m, "HALTED")

resumeMarket(sender, m) ==
    /\ sender = roles.owner
    /\ markets[m].state = "HALTED"
    /\ now < markets[m].closeTime
    /\ SetState(m, "OPEN")

\* Anybody may close a market whose time has come.
closeMarket(m) ==
    /\ markets[m].state \in {"OPEN", "HALTED"}
    /\ now >= markets[m].closeTime
    /\ SetState(m, "CLOSED")

resolveMarket(sender, m, yesWon) ==
    /\ sender = roles.oracle
    /\ markets[m].state \in {"OPEN", "HALTED", "CLOSED"}
    /\ now >= markets[m].closeTime
    /\ SetState(m, IF yesWon THEN "RESOLVED_YES" ELSE "RESOLVED_NO")

\* The oracle may void before the close time.
voidMarket(sender, m) ==
    /\ sender = roles.oracle
    /\ markets[m].state \in {"OPEN", "HALTED", "CLOSED"}
    /\ SetState(m, "VOID")

-----------------------------------------------------------------------------
(* Settlement. *)

WithinLimit(auth, price) ==
    IF (auth.side = "YES") = (auth.action = "BUY")
    THEN price <= auth.limitYesPrice
    ELSE price >= auth.limitYesPrice

_validateAuthorization(auth, price) ==
    /\ auth.here
    /\ auth.qtyShares # 0
    /\ auth.action = "BUY" => auth.collateralCap # 0
    /\ auth.deadline >= now
    /\ auth.limitYesPrice <= PRICE_SCALE
    /\ ~canceled[auth.signer][auth.txId]
    /\ WithinLimit(auth, price)
    /\ auth \in Signed

\* Mutant: the YES leg is rounded up.
YesRoundedUp(shares, price) == (shares * price + PRICE_SCALE - 1) \div PRICE_SCALE
YesCollateral(shares, price) == (shares * price) \div PRICE_SCALE

\* Mutant: the NO leg is rounded down too, a unit is missing.
NoRoundedDown(shares, price) == (shares * (PRICE_SCALE - price)) \div PRICE_SCALE
NoCollateral(shares, price) == shares - YesCollateral(shares, price)

\* Mutant: the leg is chosen by what the order does, not by its side.
LegByAction(auth, shares, price) ==
    IF auth.action = "BUY" THEN YesCollateral(shares, price) ELSE NoCollateral(shares, price)

LegCollateral(auth, shares, price) ==
    IF auth.side = "YES" THEN YesCollateral(shares, price) ELSE NoCollateral(shares, price)

\* Mutant: the nonce is not looked at.
CanConsumeAnyNonce(auth, shares, collateral) ==
    /\ fills[auth].shares + shares <= auth.qtyShares
    /\ auth.action = "BUY" => fills[auth].collateral + collateral <= auth.collateralCap

\* _consume: its revert conditions, then its writes to fills and to the nonce map.
CanConsume(auth, shares, collateral) ==
    /\ authorizationByNonce[auth.signer][auth.txId] \in {NoHash, auth}
    /\ fills[auth].shares + shares <= auth.qtyShares
    /\ auth.action = "BUY" => fills[auth].collateral + collateral <= auth.collateralCap

Consumed(f, auth, shares, collateral) ==
    [f EXCEPT ![auth] = [shares |-> @.shares + shares, collateral |-> @.collateral + collateral]]

Bound(nonces, auth) == [nonces EXCEPT ![auth.signer][auth.txId] = auth]

Add(balance, m, acct, shares) == [balance EXCEPT ![m][acct] = @ + shares]
Sub(balance, m, acct, shares) == [balance EXCEPT ![m][acct] = @ - shares]

\* The writes to one market's totalYes, totalNo and reserve.
WithTotals(k, totalYes, totalNo, reserve) ==
    [k EXCEPT !.totalYes = totalYes, !.totalNo = totalNo, !.reserve = reserve]

\* BUY YES against BUY NO: both pay in, a complete set is created.
_mintCompleteSet(yesOrder, noOrder, shares, yesCollateral, noCollateral) ==
    LET m == yesOrder.marketId
        paid == Moved(wallet, yesOrder.signer, This, yesCollateral)
    IN  /\ yesBalance' = Add(yesBalance, m, yesOrder.signer, shares)
        /\ noBalance' = Add(noBalance, m, noOrder.signer, shares)
        /\ markets' = [markets EXCEPT ![m] =
               WithTotals(@, @.totalYes + shares, @.totalNo + shares, @.reserve + shares)]
        /\ aggregateReserved' = aggregateReserved + shares
        /\ CanMove(wallet, yesOrder.signer, This, yesCollateral)
        /\ CanMove(paid, noOrder.signer, This, noCollateral)
        /\ wallet' = Moved(paid, noOrder.signer, This, noCollateral)

\* SELL YES against SELL NO: a complete set is destroyed and paid out.
_mergeCompleteSet(yesOrder, noOrder, shares, yesCollateral, noCollateral) ==
    LET m == yesOrder.marketId
        paid == Moved(wallet, This, yesOrder.signer, yesCollateral)
    IN  /\ yesBalance[m][yesOrder.signer] >= shares
        /\ noBalance[m][noOrder.signer] >= shares
        /\ markets[m].reserve >= shares
        /\ markets[m].totalYes >= shares
        /\ markets[m].totalNo >= shares
        /\ aggregateReserved >= shares
        /\ yesBalance' = Sub(yesBalance, m, yesOrder.signer, shares)
        /\ noBalance' = Sub(noBalance, m, noOrder.signer, shares)
        /\ markets' = [markets EXCEPT ![m] =
               WithTotals(@, @.totalYes - shares, @.totalNo - shares, @.reserve - shares)]
        /\ aggregateReserved' = aggregateReserved - shares
        /\ CanMove(wallet, This, yesOrder.signer, yesCollateral)
        /\ CanMove(paid, This, noOrder.signer, noCollateral)
        /\ wallet' = Moved(paid, This, noOrder.signer, noCollateral)

\* A BUY against a SELL of the same side: the position changes hands.
_transferPosition(buyer, seller, shares, collateral) ==
    LET m == buyer.marketId
    IN  /\ IF buyer.side = "YES"
           THEN /\ yesBalance[m][seller.signer] >= shares
                /\ yesBalance' = Add(Sub(yesBalance, m, seller.signer, shares), m, buyer.signer, shares)
                /\ noBalance' = noBalance
           ELSE /\ noBalance[m][seller.signer] >= shares
                /\ noBalance' = Add(Sub(noBalance, m, seller.signer, shares), m, buyer.signer, shares)
                /\ yesBalance' = yesBalance
        /\ CanMove(wallet, buyer.signer, seller.signer, collateral)
        /\ wallet' = Moved(wallet, buyer.signer, seller.signer, collateral)
        /\ UNCHANGED <<markets, aggregateReserved>>

\* Mutant: a match is executed as often as it is submitted.
FreshAlways(matchId) == TRUE
Fresh(matchId) == matchId \notin executedMatches

\* Mutant: a market trades until somebody closes it.
TradingUntilClosed(m) == markets[m].state = "OPEN"

Trading(m) == markets[m].state = "OPEN" /\ now < markets[m].closeTime

\* The guards settle applies before it looks at how the two orders pair up.
CanSettle(sender, a, b, shares, price, matchId) ==
    /\ sender = roles.operator
    /\ Fresh(matchId)
    /\ a.marketId = b.marketId
    /\ a.signer # b.signer
    /\ Trading(a.marketId)
    /\ shares # 0
    /\ price # 0 /\ price < PRICE_SCALE
    /\ _validateAuthorization(a, price)
    /\ _validateAuthorization(b, price)
    /\ YesCollateral(shares, price) # 0
    /\ NoCollateral(shares, price) # 0
    /\ CanConsume(a, shares, LegCollateral(a, shares, price))
    /\ CanConsume(b, shares, LegCollateral(b, shares, price))

\* The pairings settle accepts; it takes the two orders in either order, and
\* \E over both makes a the YES order, or the buyer, here.
settle(sender, a, b, shares, price, matchId) ==
    /\ CanSettle(sender, a, b, shares, price, matchId)
    /\ fills' = Consumed(Consumed(fills, a, shares, LegCollateral(a, shares, price)),
                         b, shares, LegCollateral(b, shares, price))
    /\ authorizationByNonce' = Bound(Bound(authorizationByNonce, a), b)
    /\ executedMatches' = executedMatches \cup {matchId}
    /\ \/ /\ a.action = "BUY" /\ b.action = "BUY" /\ a.side = "YES" /\ b.side = "NO"
          /\ _mintCompleteSet(a, b, shares, YesCollateral(shares, price), NoCollateral(shares, price))
       \/ /\ a.action = "SELL" /\ b.action = "SELL" /\ a.side = "YES" /\ b.side = "NO"
          /\ _mergeCompleteSet(a, b, shares, YesCollateral(shares, price), NoCollateral(shares, price))
       \/ /\ a.side = b.side /\ a.action = "BUY" /\ b.action = "SELL"
          /\ _transferPosition(a, b, shares, LegCollateral(a, shares, price))
    /\ _assertSolvent(wallet', aggregateReserved')
    /\ UNCHANGED <<adminVars, canceled, now>>

-----------------------------------------------------------------------------
(* Redemption and cancellation. *)

\* What redeem burns, pays and keeps for the DAO, by the market's state.
Burned(m, acct) ==
    [yes |-> IF markets[m].state \in {"RESOLVED_YES", "VOID"} THEN yesBalance[m][acct] ELSE 0,
     no  |-> IF markets[m].state \in {"RESOLVED_NO", "VOID"} THEN noBalance[m][acct] ELSE 0]

\* Mutant: nobody gets the dust.
GrossWithoutDust(m, acct) ==
    LET shares == Burned(m, acct).yes + Burned(m, acct).no
    IN  IF markets[m].state # "VOID" THEN shares ELSE shares \div 2

\* Mutant: a void market pays a whole unit per share.
GrossWhole(m, acct) ==
    LET burned == Burned(m, acct)
        left == markets[m].totalYes - burned.yes + (markets[m].totalNo - burned.no)
    IN  IF markets[m].state = "VOID" /\ left = 0 THEN markets[m].reserve ELSE burned.yes + burned.no

\* Mutant: a void market pays for the YES shares only.
GrossYesOnly(m, acct) ==
    LET burned == Burned(m, acct)
    IN  IF markets[m].state # "VOID" THEN burned.yes + burned.no ELSE burned.yes \div 2

Gross(m, acct) ==
    LET burned == Burned(m, acct)
        shares == burned.yes + burned.no
        left == markets[m].totalYes - burned.yes + (markets[m].totalNo - burned.no)
    IN  IF markets[m].state # "VOID" THEN shares
        ELSE IF left = 0 THEN markets[m].reserve   \* the last claimant takes the dust
        ELSE shares \div 2

Fee(m, acct) ==
    IF markets[m].state = "VOID" THEN 0
    ELSE (Gross(m, acct) * markets[m].rakeBps) \div BPS

\* Nothing redeem does after its state and position checks reverts.
RedeemGoesThrough(m, acct) ==
    LET gross == Gross(m, acct)
    IN  /\ Burned(m, acct).yes <= markets[m].totalYes
        /\ Burned(m, acct).no <= markets[m].totalNo
        /\ gross <= markets[m].reserve
        /\ gross <= aggregateReserved
        /\ Fee(m, acct) <= gross
        /\ gross <= wallet[This]
        /\ wallet[This] - gross >= aggregateReserved - gross

HasClaim(m, acct) ==
    /\ markets[m].state \in Terminal
    /\ Burned(m, acct).yes + Burned(m, acct).no # 0

redeem(sender, m) ==
    LET burned == Burned(m, sender)
        gross == Gross(m, sender)
        fee == Fee(m, sender)
    IN  /\ HasClaim(m, sender)
        /\ RedeemGoesThrough(m, sender)
        /\ yesBalance' = Sub(yesBalance, m, sender, burned.yes)
        /\ noBalance' = Sub(noBalance, m, sender, burned.no)
        /\ markets' = [markets EXCEPT ![m] =
               WithTotals(@, @.totalYes - burned.yes, @.totalNo - burned.no, @.reserve - gross)]
        /\ aggregateReserved' = aggregateReserved - gross
        /\ wallet' = Moved(Moved(wallet, This, roles.dao, fee), This, sender, gross - fee)
        /\ UNCHANGED <<adminVars, authVars, now>>

cancelAuthorization(sender, txId) ==
    /\ canceled' = [canceled EXCEPT ![sender][txId] = TRUE]
    /\ UNCHANGED <<adminVars, fills, authorizationByNonce, executedMatches, moneyVars, markets, now>>

-----------------------------------------------------------------------------
(* The world around the contract. *)

\* Anyone may send tokens to the contract without calling it.
Donate(from, amount) ==
    /\ CanMove(wallet, from, This, amount)
    /\ wallet' = Moved(wallet, from, This, amount)
    /\ UNCHANGED <<adminVars, authVars, aggregateReserved, yesBalance, noBalance, markets, now>>

Tick ==
    /\ now < MaxTime
    /\ now' = now + 1
    /\ UNCHANGED <<adminVars, authVars, moneyVars, markets>>

Admin(sender) ==
    \/ associateCollateralToken(sender)
    \/ \E account \in RoleArgs \cap {sender} : acceptOwnership(account)
    \/ \E account \in RoleArgs : transferOwnership(sender, account)
    \/ \E account \in RoleArgs, slot \in {"operator", "oracle", "dao"} : setRole(sender, slot, account)
    \/ \E rake \in RakeArgs : setDefaultRake(sender, rake)

Lifecycle(sender, m) ==
    \/ \E t \in CloseTimes : createMarket(sender, m, t)
    \/ haltMarket(sender, m)
    \/ resumeMarket(sender, m)
    \/ closeMarket(m)
    \/ \E yesWon \in BOOLEAN : resolveMarket(sender, m, yesWon)
    \/ voidMarket(sender, m)

Next ==
    \/ \E sender \in Accounts : Admin(sender)
    \/ \E sender \in Accounts, m \in MarketIds : Lifecycle(sender, m)
    \/ \E sender \in Accounts, a, b \in Auths, shares \in FillArgs, price \in PriceArgs, id \in MatchIds :
           settle(sender, a, b, shares, price, id)
    \/ \E sender \in Accounts, m \in MarketIds : redeem(sender, m)
    \/ \E c \in CancelArgs : cancelAuthorization(c[1], c[2])
    \/ \E from \in Donors : Donate(from, 1)
    \/ Tick

Spec == Init /\ [][Next]_vars
-----------------------------------------------------------------------------
(* Properties. *)

\* Type invariant of the contract's storage (PrismV2.sol:90-108).
TypeOK ==
    /\ roles \in [{"owner", "operator", "oracle", "dao"} -> Accounts]
    /\ pendingOwner \in Accounts \cup {NoAddress}
    /\ defaultRakeBps \in 0 .. MAX_RAKE_BPS
    /\ associated \in BOOLEAN
    /\ aggregateReserved \in Nat
    /\ markets \in [MarketIds -> MarketType]
    /\ yesBalance \in [MarketIds -> [Accounts -> Nat]]
    /\ noBalance \in [MarketIds -> [Accounts -> Nat]]
    /\ fills \in [Auths -> [shares : Nat, collateral : Nat]]
    /\ authorizationByNonce \in [Accounts -> [TxIds -> Auths \cup {NoHash}]]
    /\ canceled \in [Accounts -> [TxIds -> BOOLEAN]]
    /\ executedMatches \in SUBSET MatchIds
    /\ wallet \in [Addresses -> Nat]
    /\ now \in Nat

\* The reserve of a market is exactly one collateral unit per complete set
\* until it is decided, exactly the winning shares still out once it is
\* resolved, and enough for half a unit per share, with nothing stranded
\* after the last claim, once it is void: mint, merge, redeem and the dust
\* rule of redeem keep this together over any sequence of calls.
Backed(k) ==
    /\ k.state \notin Terminal => k.reserve = k.totalYes /\ k.reserve = k.totalNo
    /\ k.state = "RESOLVED_YES" => k.reserve = k.totalYes
    /\ k.state = "RESOLVED_NO" => k.reserve = k.totalNo
    /\ k.state = "VOID" =>
           /\ 2 * k.reserve >= k.totalYes + k.totalNo
           /\ k.totalYes + k.totalNo = 0 => k.reserve = 0

CompleteSetsBacked == \A m \in MarketIds : Backed(markets[m])

\* The redundant totals agree with what they summarise: totalYes and totalNo
\* with the balances, aggregateReserved with the reserves of all markets.
TotalsAreSums ==
    /\ \A m \in MarketIds : /\ markets[m].totalYes = SumFunction(yesBalance[m])
                            /\ markets[m].totalNo = SumFunction(noBalance[m])
    /\ aggregateReserved = SumFunction([m \in MarketIds |-> markets[m].reserve])

\* Whoever holds a claim on a decided market can redeem it whatever was done
\* before: neither checked arithmetic nor Insolvent can block redeem
\* (PrismV2.sol:310-353) for an earlier or a later claimant.
RedeemNeverReverts ==
    \A m \in MarketIds, acct \in Accounts : HasClaim(m, acct) => RedeemGoesThrough(m, acct)

\* "Assign only indivisible-unit rounding dust to the last claimant"
\* (PrismV2.sol:338): what a void market holds beyond half a unit per share
\* is at most half a unit per account that has nothing left to claim.
VoidDustBounded ==
    \A m \in MarketIds : markets[m].state = "VOID" =>
        2 * markets[m].reserve - (markets[m].totalYes + markets[m].totalNo)
            <= Cardinality({acct \in Accounts : yesBalance[m][acct] + noBalance[m][acct] = 0})

\* However a signed authorization is split into fills, the fills never add up
\* to more shares than it names nor, for a purchase, to more collateral than
\* its cap, and of two authorizations with the same signer and txId only one
\* is ever filled (_consume, PrismV2.sol:458-489).
FillsWithinAuthorization ==
    /\ \A h \in Auths : /\ fills[h].shares <= h.qtyShares
                        /\ h.action = "BUY" => fills[h].collateral <= h.collateralCap
    /\ \A g, h \in Auths : g # h /\ g.signer = h.signer /\ g.txId = h.txId
                               => fills[g].shares = 0 \/ fills[h].shares = 0

\* The split of a fill rounds the YES leg down and the NO leg up, so over all
\* fills a YES buyer never pays more, and a NO seller never gets less, than
\* the limit price says; a NO buyer and a YES seller lose less than one unit
\* per match (settle, PrismV2.sol:288-293).
LimitPriceKept ==
    \A h \in Auths :
        LET paid == PRICE_SCALE * fills[h].collateral
            atLimit == IF h.side = "YES" THEN fills[h].shares * h.limitYesPrice
                       ELSE fills[h].shares * (PRICE_SCALE - h.limitYesPrice)
            rounding == PRICE_SCALE * Cardinality(executedMatches)
        IN  CASE h.side = "YES" /\ h.action = "BUY"  -> paid <= atLimit
              [] h.side = "NO"  /\ h.action = "SELL" -> paid >= atLimit
              [] h.side = "NO"  /\ h.action = "BUY"  -> paid <= atLimit + rounding
              [] h.side = "YES" /\ h.action = "SELL" -> paid + rounding >= atLimit

\* What fills records is what changed hands: an account has paid exactly the
\* collateral its purchases record and has received exactly what its sales
\* record, and redemption only adds to that.  Mint, merge and transfer move
\* tokens along three different routes (PrismV2.sol:491-557), _consume writes
\* the records.
LedgerMatchesFills ==
    LET recorded(acct, action) ==
            SumFunction([h \in {g \in Auths : g.signer = acct /\ g.action = action} |-> fills[h].collateral])
    IN  \A acct \in Accounts \ Donors :
            LET due == InitialWallet[acct] - recorded(acct, "BUY") + recorded(acct, "SELL")
            IN  /\ wallet[acct] >= due
                /\ (\A m \in MarketIds : markets[m].state \notin Terminal) => wallet[acct] = due

\* No call ever moves more collateral out of custody than it takes off
\* aggregateReserved, nor reserves more than it takes in: what was donated can
\* not hide a short receipt (PrismV2.sol:573-574).
SurplusNeverShrinks ==
    [][wallet'[This] - aggregateReserved' >= wallet[This] - aggregateReserved]_vars

\* A market only moves forward: a decided market stays decided and pays out
\* only, a closed one is only decided, and while it is halted or closed, and from
\* its close time on, its positions only shrink by redemption.
StepForward(m) ==
    LET k == markets[m]
        kk == markets'[m]
    IN  /\ k.state \in Terminal => kk.state = k.state /\ kk.reserve <= k.reserve
        /\ k.state = "CLOSED" => kk.state \in Terminal \cup {"CLOSED"}
        /\ k.state # "UNINITIALIZED" => kk.closeTime = k.closeTime /\ kk.rakeBps = k.rakeBps
        /\ k.state \in {"HALTED", "CLOSED"} \/ (k.state = "OPEN" /\ now >= k.closeTime)
               => kk.reserve = k.reserve /\ yesBalance'[m] = yesBalance[m] /\ noBalance'[m] = noBalance[m]

MarketMovesForward == [][\A m \in MarketIds : StepForward(m)]_vars
=============================================================================
