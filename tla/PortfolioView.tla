---------------------------- MODULE PortfolioView ----------------------------
(***************************************************************************)
(* What the portfolio page makes of the server's reply: usePortfolio.ts    *)
(* with costBasis.ts, and the tabs of Portfolio.tsx.  The same positions   *)
(* are added up in three places: the summary cards, the rows of the open   *)
(* positions and the rows of the history.                                  *)
(* Amounts are integers, a dollar is Dollar; a price is per share.         *)
(***************************************************************************)
EXTENDS Integers, Sequences, FiniteSets, TLC, SequencesExt, FiniteSetsExt

CONSTANTS
    Markets,      \* market ids
    Replies,      \* what GetUserPortfolio and the market lookups may return
    Dollar,       \* units of a dollar
    Scale,        \* base units of USDC per dollar
    Undefined,    \* an absent field
    Now,          \* Date.now()
    MaxFetches    \* bound: replies

VARIABLES
    positions,    \* market -> EnrichedPosition
    orders,       \* openOrders, a sequence
    orderSort, historySort, filter, timeframe,
    fetches

vars == <<positions, orders, orderSort, historySort, filter, timeframe, fetches>>

OrderSorts   == {"newest", "oldest", "priceHigh", "priceLow"}
HistorySorts == {"recent", "oldest", "biggestWin", "biggestLoss", "largest"}
Filters      == {"all", "won", "lost"}
Timeframes   == {"all", "24h"}
Day          == 24

SumOver(S, val(_)) == FoldSet(LAMBDA x, sum : val(x) + sum, 0, S)
SumOf(seq, val(_)) == SumOver(DOMAIN seq, LAMBDA i : val(seq[i]))
-----------------------------------------------------------------------------
(* The positions *)

getMarketStatus(m) ==
    CASE m = Undefined -> "active"
      [] m # Undefined /\ m.halted -> "suspended"
      [] m # Undefined /\ ~m.halted /\ m.resolved -> "resolved"
      [] m # Undefined /\ ~m.halted /\ ~m.resolved /\ m.closesAt <= Now -> "closed"
      [] OTHER -> "active"

\* PositionInfo of the server: the price fields of a side are sent when shares
\* of it are held, the cost in base units.
PositionInfo(yes, no, avgYes, avgNo) ==
    [avgYes  |-> IF yes > 0 THEN avgYes ELSE Undefined,
     avgNo   |-> IF no > 0 THEN avgNo ELSE Undefined,
     costYes |-> IF yes > 0 THEN Scale * yes * avgYes ELSE 0,
     costNo  |-> IF no > 0 THEN Scale * no * avgNo ELSE 0]

\* Mutant: the cost fields are taken to be dollars.
trustCostFields(info, yes, no, bidYes, bidNo) ==
    [available |-> info.costYes + info.costNo > 0,
     avgYes |-> IF yes > 0 THEN info.avgYes ELSE 0, avgNo |-> IF no > 0 THEN info.avgNo ELSE 0,
     totalCost |-> info.costYes + info.costNo,
     unrealizedPnL |-> yes * bidYes + no * bidNo - (info.costYes + info.costNo)]

given(a) == a \notin {Undefined, 0}
average(a, cost, qty) == IF given(a) THEN a ELSE IF qty > 0 THEN cost \div qty ELSE 0

CostBasis(available, avgYes, avgNo, totalCost, value) ==
    [available |-> available, avgYes |-> avgYes, avgNo |-> avgNo, totalCost |-> totalCost,
     unrealizedPnL |-> IF available THEN value - totalCost ELSE 0]

\* The averages before the cost fields, which count only where the server sent no average.
deriveCostBasis(info, yes, no, bidYes, bidNo) ==
    LET raw    == info.costYes + info.costNo
        avgYes == average(info.avgYes, info.costYes, yes)
        avgNo  == average(info.avgNo, info.costNo, no)
    IN  CostBasis(raw > 0 \/ given(info.avgYes) \/ given(info.avgNo), avgYes, avgNo,
                  IF info.avgYes = Undefined /\ info.avgNo = Undefined /\ raw > 0 THEN raw
                  ELSE yes * avgYes + no * avgNo,
                  yes * bidYes + no * bidNo)

\* outcome of the market, once the position's market is resolved.
Resolution(p) ==
    IF ~p.resolved \/ p.market = Undefined THEN Undefined
    ELSE CASE p.market.outcome = 1 -> "YES" [] p.market.outcome = 0 -> "NO"
           [] p.market.outcome = 2 -> "CANCELLED" [] OTHER -> Undefined

\* What the shares of a position are worth at the resolution.
payout(p) ==
    CASE Resolution(p) = "YES" -> p.yes * Dollar
      [] Resolution(p) = "NO"  -> p.no * Dollar
      [] Resolution(p) = "CANCELLED" -> (p.yes + p.no) * (Dollar \div 2)
      [] OTHER -> 0

redeemableUsd(p) == IF p.redeemed THEN 0 ELSE payout(p)

basis(p) == deriveCostBasis(PositionInfo(p.yes, p.no, p.avgYes, p.avgNo), p.yes, p.no, p.bidYes, p.bidNo)
realizedPnL(p) == IF p.resolved /\ basis(p).available THEN payout(p) - basis(p).totalCost ELSE 0

openPositions     == {m \in DOMAIN positions : ~positions[m].resolved}
resolvedPositions == {m \in DOMAIN positions : positions[m].resolved}

\* The summary cards.
summary ==
    [unrealizedPnL |-> SumOver(openPositions, LAMBDA m : basis(positions[m]).unrealizedPnL),
     realizedPnL   |-> SumOver(resolvedPositions, LAMBDA m : realizedPnL(positions[m])),
     costBasisAvailable |-> openPositions # {} /\ \A m \in openPositions : basis(positions[m]).available]
-----------------------------------------------------------------------------
(* Open orders *)

\* Orders whose market is missing or not active are hidden.
openOrders ==
    SelectSeq(orders, LAMBDA o : o.market # Undefined /\ getMarketStatus(o.market) = "active")

getSortedOrders(s) ==
    SortSeq(s, LAMBDA a, b : CASE orderSort = "newest" -> a.at > b.at [] orderSort = "oldest" -> a.at < b.at
                               [] orderSort = "priceHigh" -> a.price > b.price [] OTHER -> a.price < b.price)

OrdersOf(m) == SelectSeq(openOrders, LAMBDA o : o.marketId = m)

\* Groups by market, ordered by their newest order or their best price.
Ats(s)    == {s[i].at : i \in DOMAIN s}
Prices(s) == {s[i].price : i \in DOMAIN s}
GroupBefore(a, b) ==
    CASE orderSort = "newest"    -> Max(Ats(a)) > Max(Ats(b))
      [] orderSort = "oldest"    -> Max(Ats(a)) < Max(Ats(b))
      [] orderSort = "priceHigh" -> Max(Prices(a)) > Max(Prices(b))
      [] OTHER                   -> Min(Prices(a)) < Min(Prices(b))
sortedEntries ==
    SortSeq(SetToSeq({m \in Markets : OrdersOf(m) # << >>}),
            LAMBDA a, b : GroupBefore(OrdersOf(a), OrdersOf(b)))

\* The rows of the tab, from top to bottom.
RowsOf(entries) == FlattenSeq([i \in DOMAIN entries |-> getSortedOrders(OrdersOf(entries[i]))])
OrderRows == RowsOf(sortedEntries)
-----------------------------------------------------------------------------
(* Active positions *)

Row(m, side, qty, cost, value, pnl, available) ==
    [marketId |-> m, side |-> side, qty |-> qty, cost |-> cost, marketValue |-> value,
     unrealizedPnL |-> pnl, available |-> available]

\* One row for each side held; a wash is one row of no shares.
HeldRow(m, side, qty, avg, bid, available) ==
    Row(m, side, qty, qty * avg, qty * bid, qty * (bid - avg), available)
SplitRows(m, p, cb) ==
    IF p.yes = 0 /\ p.no = 0
    THEN <<Row(m, "yes", 0, cb.totalCost, 0, 0 - cb.totalCost, cb.available)>>
    ELSE (IF p.yes > 0 THEN <<HeldRow(m, "yes", p.yes, cb.avgYes, p.bidYes, cb.available)>> ELSE << >>)
           \o (IF p.no > 0 THEN <<HeldRow(m, "no", p.no, cb.avgNo, p.bidNo, cb.available)>> ELSE << >>)
splitPositions(m) == SplitRows(m, positions[m], basis(positions[m]))

\* sellOrderMap: the open sells of a side.
Sells(m, side) ==
    SelectSeq(openOrders, LAMBDA o : o.action = "sell" /\ o.marketId = m /\ o.outcome = side)
SellQty(m, side) == SumOf(Sells(m, side), LAMBDA o : o.qty)

\* Rows for markets with open sells and no position; the tab itself is empty
\* when there is no open position at all.
Synthesized ==
    {<<m, side>> \in (Markets \ openPositions) \X {"yes", "no"} : Sells(m, side) # << >>}

SynthesizedRow(m, side) == Row(m, side, SellQty(m, side), 0, 0, 0, FALSE)
HoldingRowsOf(held, sold) ==
    IF held = << >> THEN << >>
    ELSE FlattenSeq([i \in DOMAIN held |-> splitPositions(held[i])])
           \o [i \in DOMAIN sold |-> SynthesizedRow(sold[i][1], sold[i][2])]
HoldingRows == HoldingRowsOf(SetToSeq(openPositions), SetToSeq(Synthesized))

TotalsShown(rows) == rows # << >> /\ \A i \in DOMAIN rows : rows[i].available
HoldingsPnL(rows) == SumOf(rows, LAMBDA r : r.unrealizedPnL)
-----------------------------------------------------------------------------
(* History *)

RakePct == 2

\* Rows of the history: one for each side held, the payout net of the rake.
GrossOf(p, side, qty) ==
    CASE Resolution(p) = side -> qty * Dollar
      [] Resolution(p) = "CANCELLED" -> qty * (Dollar \div 2)
      [] OTHER -> 0
NetOf(gross) == (gross * (100 - RakePct)) \div 100
HistoryRow(m, side, cost, net, at) ==
    [marketId |-> m, side |-> side, cost |-> cost, payout |-> net, pnl |-> net - cost,
     won |-> net > 0, at |-> at]
SideRows(m, p, cb) ==
    (IF p.yes > 0 THEN <<HistoryRow(m, "YES", p.yes * cb.avgYes, NetOf(GrossOf(p, "YES", p.yes)), p.resolvedTs)>>
     ELSE << >>)
      \o (IF p.no > 0 THEN <<HistoryRow(m, "NO", p.no * cb.avgNo, NetOf(GrossOf(p, "NO", p.no)), p.resolvedTs)>>
          ELSE << >>)
HistoryRowsOf(m) == SideRows(m, positions[m], basis(positions[m]))

HistoryOf(ms) == FlattenSeq([i \in DOMAIN ms |-> HistoryRowsOf(ms[i])])
HistoryAll == HistoryOf(SetToSeq(resolvedPositions))

netRealized == SumOf(HistoryAll, LAMBDA r : r.pnl)

filtered(f, tf) ==
    SelectSeq(HistoryAll, LAMBDA r : /\ f = "won" => r.won
                                     /\ f = "lost" => ~r.won
                                     /\ tf = "24h" => r.at # 0 /\ Now - r.at <= Day)

Before(a, b) ==
    CASE historySort = "oldest"      -> a.at < b.at
      [] historySort = "biggestWin"  -> a.pnl > b.pnl
      [] historySort = "biggestLoss" -> a.pnl < b.pnl
      [] historySort = "largest"     -> a.cost > b.cost
      [] OTHER                       -> a.at > b.at

\* Markets in the order of their first rows.
groupOrder(sorted) == FoldLeft(LAMBDA ms, r : IF r.marketId \in ToSet(ms) THEN ms ELSE Append(ms, r.marketId), << >>, sorted)

\* The rows of the tab, from top to bottom.
InGroups(sorted, order) ==
    FlattenSeq([i \in DOMAIN order |-> SelectSeq(sorted, LAMBDA r : r.marketId = order[i])])
Grouped(sorted) == InGroups(sorted, groupOrder(sorted))
HistoryRows == Grouped(SortSeq(filtered(filter, timeframe), Before))
-----------------------------------------------------------------------------
Init ==
    /\ positions = << >> /\ orders = << >> /\ fetches = 0
    /\ orderSort = "newest" /\ historySort = "recent" /\ filter = "all" /\ timeframe = "all"

\* A reply replaces what was shown; the controls stay.
fetchPortfolio ==
    /\ fetches < MaxFetches /\ fetches' = fetches + 1
    /\ \E r \in Replies : positions' = r.positions /\ orders' = r.orders
    /\ UNCHANGED <<orderSort, historySort, filter, timeframe>>

SortOrders ==
    /\ orders # << >> /\ orderSort' \in OrderSorts
    /\ UNCHANGED <<positions, orders, historySort, filter, timeframe, fetches>>

\* The controls of the history, which has rows.
SortHistory ==
    /\ resolvedPositions # {} /\ historySort' \in HistorySorts
    /\ UNCHANGED <<positions, orders, orderSort, filter, timeframe, fetches>>

setFilter ==
    /\ resolvedPositions # {} /\ filter' \in Filters
    /\ UNCHANGED <<positions, orders, orderSort, historySort, timeframe, fetches>>

setTimeframe ==
    /\ resolvedPositions # {} /\ timeframe' \in Timeframes
    /\ UNCHANGED <<positions, orders, orderSort, historySort, filter, fetches>>

Next == fetchPortfolio \/ SortOrders \/ SortHistory \/ setFilter \/ setTimeframe

Spec == Init /\ [][Next]_vars
-----------------------------------------------------------------------------
IsIn(row, seq) == \E i \in DOMAIN seq : seq[i] = row

(* The totals of the positions tab, wherever it shows them, are those of    *)
(* the summary cards, which are computed from the server's fields and not   *)
(* from the rows.                                                           *)
Agree(rows, total) == TotalsShown(rows) => HoldingsPnL(rows) = total
HoldingsAddUp == Agree(HoldingRows, summary.unrealizedPnL)

\* What PrismV2.redeem pays for a position: the rake comes off what was won, a void
\* market pays half a dollar a share in full.
redeem(p) == IF Resolution(p) = "CANCELLED" THEN payout(p) ELSE NetOf(payout(p))

Shown(m) == SumOf(HistoryRowsOf(m), LAMBDA r : r.pnl)
Void == {m \in resolvedPositions : Resolution(positions[m]) = "CANCELLED"}

(* The rows of a decided market come to what the contract pays for the     *)
(* position less its cost; those of a void market to less than that, by the *)
(* rake, which the page takes off a refund the contract pays in full.  The  *)
(* net result over all of them is that of the summary card less the rake on *)
(* every payout, refunds too, when every cost is known.                     *)
HistoryAddsUp ==
    /\ \A m \in resolvedPositions : LET p == positions[m] IN
          basis(p).available =>
              Shown(m) = redeem(p) - basis(p).totalCost
                           - (IF m \in Void THEN payout(p) - NetOf(payout(p)) ELSE 0)
    /\ (\A m \in resolvedPositions : basis(positions[m]).available) =>
          100 * netRealized = 100 * summary.realizedPnL
                                - RakePct * SumOver(resolvedPositions, LAMBDA m : payout(positions[m]))

(* Every row of the history is under exactly one of Won and Lost.  The page *)
(* shows each row of the chosen filter once; a market whose first row ranks *)
(* before another's comes first, and its rows are in the chosen order.      *)
InFilterOrder(rows, chosen) ==
    /\ Len(rows) = Len(chosen)
    /\ \A i \in DOMAIN rows : IsIn(rows[i], chosen)
    /\ \A i, j \in DOMAIN rows :
          i < j /\ Before(rows[j], rows[i]) =>
              \E k \in 1 .. j - 1 : rows[k].marketId = rows[i].marketId /\ ~Before(rows[j], rows[k])
HistoryComplete ==
    /\ \A tf \in Timeframes :
          Len(filtered("won", tf)) + Len(filtered("lost", tf)) = Len(filtered("all", tf))
    /\ InFilterOrder(HistoryRows, filtered(filter, timeframe))

(* The tab of the open orders shows every order of an active market once,   *)
(* those of one market together and in the chosen order.  Of two markets the *)
(* one whose first row ranks before comes first; under "Oldest first" it is *)
(* the one whose last row does: its newest order ranks a market, so the     *)
(* oldest order of all need not be on top.                                  *)
RanksBefore(a, b) ==
    CASE orderSort = "newest"    -> a.at > b.at
      [] orderSort = "oldest"    -> a.at < b.at
      [] orderSort = "priceHigh" -> a.price > b.price
      [] OTHER                   -> a.price < b.price
\* Whether the row ranks its market: its last one under "Oldest first", its first
\* one otherwise.
Leads(rows, i) ==
    \A k \in DOMAIN rows : rows[k].marketId = rows[i].marketId =>
        IF orderSort = "oldest" THEN k <= i ELSE i <= k
InTurn(rows, open) ==
    /\ Len(rows) = Len(open)
    /\ \A i \in DOMAIN open : IsIn(open[i], rows)
    /\ \A i, j \in DOMAIN rows : i < j =>
          IF rows[i].marketId = rows[j].marketId
          THEN /\ ~RanksBefore(rows[j], rows[i])
               /\ \A k \in i .. j : rows[k].marketId = rows[i].marketId
          ELSE Leads(rows, i) /\ Leads(rows, j) => ~RanksBefore(rows[j], rows[i])
OrdersComplete == InTurn(OrderRows, openOrders)

=============================================================================
