---------------------------- MODULE BookToChain ----------------------------
(***************************************************************************)
(* The matching engine and the contract together: the fills OrderBookService *)
(* publishes reach PrismV2.settle one by one in the order they were made,  *)
(* some are lost on the way and some are refused.  "Fills mirror the       *)
(* contract" (matching.rs:5) says that the two agree on what a fill is.    *)
(***************************************************************************)
EXTENDS OrderBookService

CONSTANTS
    Accounts, This, NoAddress, NoHash, MAX_RAKE_BPS, BPS,
    InitialRoles, InitialRake, InitialWallet, CloseTimes

\* Whoever signs an order has an account on the chain.
ASSUME TradersAssumption == \A o \in Orders : o.evmAddress \in Accounts

VARIABLES
    roles, pendingOwner, defaultRakeBps, associated, aggregateReserved, markets,
    yesBalance, noBalance, fills, authorizationByNonce, canceled, executedMatches, wallet,
    handled    \* how much of the tape has been dealt with

\* The authorization an order was made from.
AuthorizationOf(o) ==
    [signer |-> o.evmAddress, marketId |-> o.marketId, txId |-> o.txId, side |-> o.side,
     action |-> o.action, limitYesPrice |-> o.limitYesPrice, qtyShares |-> o.qtyShares,
     collateralCap |-> o.collateralCap, deadline |-> o.deadline, here |-> TRUE]

\* The idempotency key of a fill, derived from the state before it.
MatchID(match) ==
    <<match.bid.marketId, match.bid.txId, match.ask.txId, match.bid.sharesFilled,
      match.ask.sharesFilled, match.fillShares, match.executionYesPrice>>

Chain == INSTANCE PrismV2 WITH
    TxIds <- {o.txId : o \in Orders}, MatchIds <- {},
    Auths <- {AuthorizationOf(o) : o \in Orders}, Signed <- {AuthorizationOf(o) : o \in Orders},
    RoleArgs <- {}, RakeArgs <- {}, FillArgs <- {}, PriceArgs <- {}, CancelArgs <- {}, Donors <- {}

bookVars == <<order_books, TX_ID_LUT, creating, tape>>
chainVars == <<roles, pendingOwner, defaultRakeBps, associated, aggregateReserved, markets, yesBalance,
               noBalance, fills, authorizationByNonce, canceled, executedMatches, wallet>>
allVars == <<bookVars, chainVars, now, handled>>

BothInit == Init /\ Chain!Init /\ handled = 0

Entry == tape[handled + 1]
Operator == roles.operator

\* The worker passes the bid and the ask; the contract accepts them either way round.
Settles(entry) ==
    \E a, b \in {AuthorizationOf(entry.match.bid), AuthorizationOf(entry.match.ask)} :
        Chain!settle(Operator, a, b, entry.match.fillShares, entry.match.executionYesPrice, MatchID(entry.match))

SettleNext ==
    /\ handled < Len(tape) /\ Entry.published
    /\ Settles(Entry)
    /\ handled' = handled + 1
    /\ UNCHANGED bookVars

\* The message was lost, or the contract refuses it for want of funds or positions.
SkipNext ==
    /\ handled < Len(tape)
    /\ handled' = handled + 1
    /\ UNCHANGED <<bookVars, chainVars, now>>

\* A settlement that was given up is executed late: its transaction was under
\* way, or its message was delivered again.
LateSettle ==
    /\ \E k \in 1 .. handled : tape[k].published /\ Settles(tape[k])
    /\ UNCHANGED <<bookVars, handled>>

\* Cancelling an order and closing a market only take orders off the book, so
\* they add no fills.
BookStep ==
    /\ \/ \E m \in MarketIds : add_market_check(m) \/ add_market_insert(m)
       \/ \E o \in Orders : place_order(o)
    /\ UNCHANGED <<chainVars, handled>>

\* Before trading starts the owner prepares the contract and creates the market.
OwnerStep ==
    /\ \/ Chain!associateCollateralToken(roles.owner)
       \/ \E m \in MarketIds, t \in CloseTimes : Chain!createMarket(roles.owner, m, t)
    /\ UNCHANGED <<bookVars, handled>>

ClockStep == Chain!Tick /\ UNCHANGED <<bookVars, handled>>

BothNext == BookStep \/ OwnerStep \/ SettleNext \/ SkipNext \/ LateSettle \/ ClockStep

BothSpec == BothInit /\ [][BothNext]_allVars

-----------------------------------------------------------------------------
(* Properties. *)

\* Whatever the book has matched, and whatever was lost or refused before,
\* the contract finds nothing wrong with the next fill while the market trades
\* and the fill is no older than DEADLINE_MARGIN_SECS: price limits, split,
\* quantities, caps, deadlines, nonce and match id are all as settle demands
\* (PrismV2.sol:266-293, 424-489), so only money or positions can be missing.
NextFillIsValid ==
    (handled < Len(tape) /\ now <= Entry.at + DEADLINE_MARGIN_SECS) =>
        LET match == Entry.match
            m == match.bid.marketId
        IN  (markets[m].state = "OPEN" /\ now < markets[m].closeTime) =>
                Chain!CanSettle(Operator, AuthorizationOf(match.bid), AuthorizationOf(match.ask),
                                match.fillShares, match.executionYesPrice, MatchID(match))

\* The contract has never consumed more of an authorization than the book has
\* filled of the order, so the book never offers what is already spent; of
\* every order whose authorization the contract keeps an account of.
ContractNotAheadOfBook ==
    \A o \in Orders :
        AuthorizationOf(o) \in DOMAIN fills =>
            /\ fills[AuthorizationOf(o)].shares <= SharesOnTape(o.txId, handled)
            /\ fills[AuthorizationOf(o)].collateral <= CollateralOnTape(o, handled)
=============================================================================
