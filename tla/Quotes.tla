------------------------------- MODULE Quotes -------------------------------
(***************************************************************************)
(* The arithmetic of the trade panel as pure operators: prices and ticks   *)
(* (src/web/lib/utils.ts), the integer order protocol (prismV2.ts) and the *)
(* values derived from the form (trading/useTradingDerived.ts).            *)
(* A price is an integer in 1 / PRICE_SCALE dollars, an amount or a number *)
(* of shares an integer in base units.  Sides and actions are named as in  *)
(* Matching; an outcome of the panel is the side of the order.             *)
(***************************************************************************)
EXTENDS Matching

CONSTANTS BUY_NO_CAP_SLACK   \* 100 base units

\* PRICE_SCALE is a multiple of the 1000 ticks of the price grid.

Complement(p) == PRICE_SCALE - p

\* Math.round(a / b)
RoundDiv(a, b) == (2 * a + b) \div (2 * b)

ceilDiv(a, b) == (a + b - 1) \div b

SnapTo(p, tick) == RoundDiv(p, tick) * tick

\* 0.1 cent below 5 and above 95 cents, a cent between.
getTickSize(p) ==
    IF 20 * p < PRICE_SCALE \/ 20 * p > 19 * PRICE_SCALE
    THEN PRICE_SCALE \div 1000
    ELSE PRICE_SCALE \div 100

roundToTick(p) ==
    LET snapped == SnapTo(p, getTickSize(p))
    IN  SnapTo(snapped, getTickSize(snapped))

isBidSide(o) == (o.side = "YES" /\ o.action = "BUY") \/ (o.side = "NO" /\ o.action = "SELL")

toLimitYesPrice(outcome, p) ==
    LET clamped == IF p < 0 THEN 0 ELSE IF p > PRICE_SCALE THEN PRICE_SCALE ELSE p
    IN  IF outcome = "YES" THEN clamped ELSE Complement(clamped)

computeCollateralCap(side, action, qty, limit) ==
    IF action = "SELL" THEN 0
    ELSE IF side = "YES" THEN ceilDiv(qty * limit, PRICE_SCALE)
    ELSE ceilDiv(qty * Complement(limit), PRICE_SCALE) + BUY_NO_CAP_SLACK

\* getBestPricesFromBookWithIntents over the orders of the book and the open
\* orders of the user; half a dollar where a side is empty.
BestPrices(orders) ==
    LET bids == {o.limitYesPrice : o \in {q \in orders : isBidSide(q)}}
        asks == {o.limitYesPrice : o \in {q \in orders : ~isBidSide(q)}}
        half == PRICE_SCALE \div 2
    IN  [hasYesBids |-> bids # {}, hasNoBids |-> asks # {},
         bid |-> IF bids = {} THEN half ELSE CHOOSE p \in bids : \A q \in bids : q <= p,
         ask |-> IF asks = {} THEN half ELSE CHOOSE p \in asks : \A q \in asks : p <= q]

yesProbability(best) ==
    IF best.hasYesBids /\ best.hasNoBids THEN (best.bid + best.ask) \div 2
    ELSE IF best.hasYesBids THEN best.bid ELSE best.ask

\* What a share of the outcome costs, and brings, at the market.
buyPrice(outcome, best) == IF outcome = "YES" THEN best.ask ELSE Complement(best.bid)

sellPrice(outcome, best) == IF outcome = "YES" THEN best.bid ELSE Complement(best.ask)

effectivePrice(form, best) ==
    IF form.orderType = "market" THEN buyPrice(form.outcome, best) ELSE form.limitPrice

\* Mutant: the shares are counted at the YES price whatever the outcome.
sharesAtYesPrice(form, best, position) ==
    IF form.action = "BUY"
    THEN LET p == IF form.orderType = "market" THEN best.ask ELSE form.limitPrice
         IN  IF p > 0 THEN RoundDiv(form.amount * PRICE_SCALE, p) ELSE 0
    ELSE IF form.shares < position THEN form.shares ELSE position

shares(form, best, position) ==
    IF form.action = "BUY"
    THEN LET p == effectivePrice(form, best)
         IN  IF p > 0 THEN RoundDiv(form.amount * PRICE_SCALE, p) ELSE 0
    ELSE IF form.shares < position THEN form.shares ELSE position

\* The natural price of the order, snapped to 0.1 cent when it is signed.
actualPrice(form, best) ==
    IF form.orderType # "market" THEN form.limitPrice
    ELSE IF form.action = "BUY" THEN buyPrice(form.outcome, best)
    ELSE sellPrice(form.outcome, best)

generatePredictionIntent(form, best, position) ==
    LET limit == toLimitYesPrice(form.outcome,
                                 SnapTo(actualPrice(form, best), PRICE_SCALE \div 1000))
        qty == shares(form, best, position)
    IN  [side |-> form.outcome, action |-> form.action, limitYesPrice |-> limit,
         qtyShares |-> qty,
         collateralCap |-> computeCollateralCap(form.outcome, form.action, qty, limit)]
=============================================================================
