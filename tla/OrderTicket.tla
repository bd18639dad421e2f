----------------------------- MODULE OrderTicket -----------------------------
(***************************************************************************)
(* The form of the trade panel, its checks and the order they sign:        *)
(* src/web/components/TradePanel.tsx, trading/useTradingValidation.ts and  *)
(* the checks of signOrder in trading/useOrderLifecycle.ts, over a polled  *)
(* book.  What is signed is compared with what the panel shows and with    *)
(* what the matching rules will do with it.  An edit of the form while an  *)
(* order is signed is the subject of OrderLifecycle, not of this module.   *)
(***************************************************************************)
EXTENDS Quotes

CONSTANTS
    Resting,      \* orders that may rest in the book
    Me,           \* the account of the user
    LimitPrices, Amounts, ShareInputs, Positions, Allowances, Balances

VARIABLES
    book,         \* the orders of the last poll, the user's open orders too
    form,         \* orderType, action, outcome, limitPrice, amount, shares
    position,     \* shares held of each outcome, less those on sale
    allowance,    \* spenderAllowanceUsd
    usdcBalance,
    intent        \* the order that is signed, made of this form and this book

vars == <<book, form, position, allowance, usdcBalance, intent>>

NoIntent == [side |-> None]

Signed == intent # NoIntent

Init ==
    /\ book = {}
    /\ form = [orderType |-> "market", action |-> "BUY", outcome |-> "YES",
               limitPrice |-> PRICE_SCALE \div 2, amount |-> CHOOSE a \in Amounts : TRUE,
               shares |-> 0]
    /\ position \in [{"YES", "NO"} -> Positions]
    /\ allowance \in Allowances /\ usdcBalance \in Balances
    /\ intent = NoIntent

best == BestPrices(book)

PollBook ==
    /\ ~Signed /\ book' \in SUBSET Resting
    /\ UNCHANGED <<form, position, allowance, usdcBalance, intent>>

Edit(f) ==
    /\ ~Signed /\ form' = f
    /\ UNCHANGED <<book, position, allowance, usdcBalance, intent>>

\* The pills and keys for market and limit, buy and sell, and the outcomes.
setOrderType(t) == Edit([form EXCEPT !.orderType = t])

hasPosition == \E s \in {"YES", "NO"} : position[s] > 0

setAction(a) == (a = "SELL" => hasPosition) /\ Edit([form EXCEPT !.action = a])

setOutcome(s) == Edit([form EXCEPT !.outcome = s])

\* The amount field, its arrows and the quick increments: capped where both
\* the allowance and the balance are known.
setAmountUsd(a) ==
    LET hasLimits == allowance > 0 /\ usdcBalance > 0
        maxBuyAmount == IF allowance < usdcBalance THEN allowance ELSE usdcBalance
    IN  /\ form.action = "BUY"
        /\ Edit([form EXCEPT !.amount = IF hasLimits /\ a > maxBuyAmount
                                        THEN maxBuyAmount ELSE a])

\* The shares field, the percentages and Sell All.
setSharesInput(n) ==
    /\ form.action = "SELL"
    /\ Edit([form EXCEPT !.shares = n])

setLimitPrice(p) ==
    /\ form.orderType = "limit"
    /\ Edit([form EXCEPT !.limitPrice = p])

\* A click on a row of the order book, not capped.
prefillOrder(s, p, a) ==
    Edit([form EXCEPT !.outcome = s, !.limitPrice = p, !.amount = a, !.orderType = "limit"])

EditForm ==
    \/ \E t \in {"market", "limit"} : setOrderType(t)
    \/ \E a \in {"BUY", "SELL"} : setAction(a)
    \/ \E s \in {"YES", "NO"} : setOutcome(s)
    \/ \E a \in Amounts : setAmountUsd(a)
    \/ \E n \in ShareInputs \cup {position[form.outcome]} : setSharesInput(n)
    \/ \E p \in LimitPrices : setLimitPrice(p)
    \/ \E s \in {"YES", "NO"}, p \in LimitPrices, a \in Amounts : prefillOrder(s, p, a)

\* useTradingValidation and the local cap of the panel.
isValid ==
    /\ form.limitPrice > 0 /\ form.limitPrice < PRICE_SCALE
    /\ IF form.action = "BUY"
       THEN form.amount <= allowance
       ELSE form.shares > 0 /\ form.shares <= position[form.outcome]

\* The side of the book a market order sweeps is not empty.
hasLiquidity ==
    LET bidsNeeded == (form.action = "BUY") = (form.outcome = "NO")
    IN  form.orderType = "market" =>
          IF bidsNeeded THEN best.hasYesBids ELSE best.hasNoBids

signOrder ==
    /\ ~Signed /\ isValid /\ hasLiquidity
    /\ intent' = generatePredictionIntent(form, best, position[form.outcome])
    /\ UNCHANGED <<book, form, position, allowance, usdcBalance>>

cancelOrder ==
    /\ Signed /\ intent' = NoIntent
    /\ UNCHANGED <<book, form, position, allowance, usdcBalance>>

Next == PollBook \/ EditForm \/ signOrder \/ cancelOrder

Spec == Init /\ [][Next]_vars
-----------------------------------------------------------------------------
\* The price a share of the order costs or brings, at its limit.
NaturalLimit(o) == IF o.side = "YES" THEN o.limitYesPrice ELSE Complement(o.limitYesPrice)

\* A tenth of a cent, the grid of signed prices.
Tick == PRICE_SCALE \div 1000

\* What the panel priced a share with, before the price was snapped to the grid.
quoted == IF form.action = "BUY" THEN effectivePrice(form, best) ELSE actualPrice(form, best)

(* "You Pay" (TradePanel.tsx): at its limit a signed buy costs the amount   *)
(* of the form up to half a base unit of shares, and up to half a tick per  *)
(* share where the price it was quoted was off the grid.  Its cap covers    *)
(* that cost, so the order can be filled whole at its limit, and exceeds it *)
(* by less than a unit, or by the slack of a NO: by that much a valid order *)
(* may be given more than the amount that was compared with the allowance.  *)
CostsWhatIsShown ==
    (Signed /\ intent.action = "BUY") =>
        LET cost == intent.qtyShares * NaturalLimit(intent)
            shown == form.amount * PRICE_SCALE
            rounding == quoted + (IF quoted % Tick = 0 THEN 0 ELSE intent.qtyShares * Tick)
            slack == IF intent.side = "NO" THEN BUY_NO_CAP_SLACK ELSE 0
            cap == (intent.collateralCap - slack) * PRICE_SCALE
        IN  /\ 2 * (cost - shown) <= rounding /\ 2 * (shown - cost) <= rounding
            /\ cost <= cap /\ cap < cost + PRICE_SCALE
            /\ shown <= allowance * PRICE_SCALE

\* The orders on the other side of the book, and the best of them.
Opposite == {r \in book : isBidSide(r) # isBidSide(intent)}
Best == {r \in Opposite : r.limitYesPrice = IF isBidSide(intent) THEN best.ask ELSE best.bid}

(* "Executes immediately at the best available price" (TradePanel.tsx): a   *)
(* signed market order crosses no order beyond the best one by more than    *)
(* half a tick, and it crosses one of another trader provided that one is   *)
(* at the best price, which the user's own resting orders may set, and that *)
(* this price is on the grid.                                               *)
MarketOrderExecutes ==
    (Signed /\ form.orderType = "market") =>
        /\ \A r \in Best : LET off == intent.limitYesPrice - r.limitYesPrice
                            IN  2 * off <= Tick /\ 2 * (0 - off) <= Tick
        /\ quoted % Tick = 0 /\ (\E r \in Best : r.accountId # Me) =>
               \E r \in Best : /\ r.accountId # Me
                               /\ IF isBidSide(intent) THEN crosses(intent, r) ELSE crosses(r, intent)
        /\ Best # {}

=============================================================================
