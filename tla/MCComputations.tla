--------------------------- MODULE MCComputations ---------------------------
(***************************************************************************)
(* The parts of the system that compute rather than coordinate, each over  *)
(* all its small inputs: the search of max_fill, the order ticket, the     *)
(* messages on the wire, the figures of the portfolio page.  They share no *)
(* state; a behaviour is one of a single part, the others stay as they     *)
(* start.                                                                  *)
(***************************************************************************)
EXTENDS MaxFill, Wire

CONSTANT Replies   \* of PortfolioView

VARIABLES
    part,                                                    \* the part that moves
    book, form, position, allowance, usdcBalance, intent,    \* OrderTicket
    positions, orders, orderSort, historySort, filter, timeframe, fetches \* PortfolioView

fillVars == searchVars
ticketVars == <<book, form, position, allowance, usdcBalance, intent>>
pageVars == <<positions, orders, orderSort, historySort, filter, timeframe, fetches>>
allVars == <<part, fillVars, ticketVars, wireVars, pageVars>>
-----------------------------------------------------------------------------
(* max_fill: all bids and asks with caps and earlier fills up to a few units. *)
Of(side, action) ==
    [side : {side}, action : {action}, collateralFilled : 0 .. 2, collateralCap : IF action = "BUY" THEN 1 .. 4 ELSE {0}]
MCBids == Of("YES", "BUY") \cup Of("NO", "SELL")
MCAsks == Of("NO", "BUY") \cup Of("YES", "SELL")
-----------------------------------------------------------------------------
(* The ticket: 4000 prices to the dollar, four to a tenth of a cent, and 100 *)
(* base units, so that the rounding of shares, cap and price is visible.      *)
(* Bids and asks of others, one of each off the grid, and better ones of the  *)
(* user, of which the ask is.                                                 *)
RestingOrder(account, side, action, p) ==
    [accountId |-> account, side |-> side, action |-> action, limitYesPrice |-> p]

RestingOrders ==
    {RestingOrder("other", "YES", "BUY", 1800), RestingOrder("other", "NO", "SELL", 1333),
     RestingOrder("other", "NO", "BUY", 2280), RestingOrder("other", "YES", "SELL", 3862),
     RestingOrder("me", "YES", "BUY", 1900), RestingOrder("me", "NO", "BUY", 2270)}

Ticket == INSTANCE OrderTicket WITH
    PRICE_SCALE <- 4000, BUY_NO_CAP_SLACK <- 2, Me <- "me", Resting <- RestingOrders,
    LimitPrices <- {4, 1060}, Amounts <- {10, 777, 1000}, ShareInputs <- {0, 1, 300, 900},
    Positions <- {0, 500}, Allowances <- {777}, Balances <- {0, 500}
-----------------------------------------------------------------------------
(* The wire: every rpc of the five services, replies with two fields set.    *)
Generated == INSTANCE ApiMessages

MCInterfaces == Generated!Interfaces @@ Generated!ClobInterfaces
MCSchema   == Generated!Schema @@ Generated!ClobSchema
MCServices == Generated!Services @@ Generated!ClobServices
MCClients  == Generated!Clients @@ Generated!ClobClients
-----------------------------------------------------------------------------
(* The portfolio: two markets with open positions and up to three orders, or *)
(* with resolved positions.                                                  *)
Now == 30
Market(halted, resolved, outcome) ==
    [halted |-> halted, resolved |-> resolved, outcome |-> outcome, closesAt |-> Now + 1]
Live == Market(FALSE, FALSE, Undefined)

\* A position; known is whether the average prices of its shares are.
Position(yes, no, known, market, resolved, redeemed, ts) ==
    [yes |-> yes, no |-> no, avgYes |-> IF known THEN 3000 ELSE 0, avgNo |-> IF known THEN 6000 ELSE 0,
     bidYes |-> 5000, bidNo |-> 4000, market |-> market, resolved |-> resolved,
     redeemed |-> redeemed, resolvedTs |-> ts]

Markets == {"m1", "m2"}

\* The functions that give each market of a subset one of its positions.
Held(of) == UNION {{f \in [S -> UNION {of[m] : m \in S}] : \A m \in S : f[m] \in of[m]} : S \in SUBSET Markets}

Shares == {<<1, 0>>, <<0, 1>>, <<2, 1>>, <<0, 0>>}

OpenOnes == {Position(q[1], q[2], known, Live, FALSE, FALSE, 0) : q \in Shares, known \in BOOLEAN}

Order(id, m, action, outcome, cents, qty, at, market) ==
    [orderId |-> id, marketId |-> m, action |-> action, outcome |-> outcome, price |-> cents,
     qty |-> qty, at |-> at, market |-> market]

SomeOrders ==
    {Order(1, "m1", "sell", "yes", 5000, 1, 3, Live), Order(2, "m1", "buy", "yes", 4000, 2, 1, Live),
     Order(3, "m1", "sell", "no", 7000, 1, 2, Live), Order(4, "m2", "sell", "yes", 6000, 1, 2, Live),
     Order(5, "m2", "buy", "no", 3000, 1, 4, Live),
     Order(6, "m2", "buy", "no", 9000, 1, 5, Market(TRUE, FALSE, Undefined)),
     Order(7, "m2", "buy", "no", 8000, 1, 0, Undefined)}

OrderLists(n) == {SetToSeq(S) : S \in {T \in SUBSET SomeOrders : Cardinality(T) <= n}}

\* Every position with at most one order, or three orders with a few positions.
OpenReplies ==
    {[positions |-> p, orders |-> o] : p \in Held([m \in Markets |-> OpenOnes]), o \in OrderLists(1)}
    \cup {[positions |-> p, orders |-> o] :
            p \in Held([m \in Markets |-> {Position(2, 1, TRUE, Live, FALSE, FALSE, 0)}]), o \in OrderLists(3)}

ResolvedOnes(shares, outcomes) ==
    {Position(q[1], q[2], known, Market(FALSE, TRUE, o), TRUE, o = 0, ts) :
        q \in shares, known \in BOOLEAN, o \in outcomes, ts \in {1, Now}}

ResolvedReplies ==
    {[positions |-> p, orders |-> << >>] :
        p \in Held("m1" :> ResolvedOnes(Shares, {0, 1, 2, Undefined})
                    @@ "m2" :> ResolvedOnes({<<2, 1>>}, {0, 2}))}

MCReplies == OpenReplies \cup ResolvedReplies

Page == INSTANCE PortfolioView WITH
    Dollar <- 10000, Scale <- 1000, MaxFetches <- 1
-----------------------------------------------------------------------------
AllInit ==
    /\ part \in {"fill", "ticket", "wire", "portfolio"}
    /\ SearchInit
    /\ part # "fill" => /\ bid = (CHOOSE b \in Bids : TRUE) /\ ask = (CHOOSE a \in Asks : TRUE)
                        /\ price = 0 /\ upper = 0
    /\ Ticket!Init
    /\ part # "ticket" => position["YES"] = 0 /\ position["NO"] = 0 /\ usdcBalance = 0
    /\ WireInit
    /\ Page!Init

\* The step of a part p leaves the others alone.
Alone(p) ==
    /\ part = p /\ UNCHANGED part
    /\ IF p = "fill" THEN TRUE ELSE UNCHANGED fillVars
    /\ IF p = "ticket" THEN TRUE ELSE UNCHANGED ticketVars
    /\ IF p = "wire" THEN TRUE ELSE UNCHANGED wireVars
    /\ IF p = "portfolio" THEN TRUE ELSE UNCHANGED pageVars

AllNext ==
    \/ Alone("fill") /\ SearchNext
    \/ Alone("ticket") /\ Ticket!Next
    \/ Alone("wire") /\ WireNext
    \/ Alone("portfolio") /\ Page!Next

\* A function that is called runs to its end.
AllSpec == AllInit /\ [][AllNext]_allVars /\ WF_allVars(Alone("fill") /\ SearchNext)
-----------------------------------------------------------------------------
\* A search of max_fill ends (matching.rs:63-66 rounds mid up for this).
CallEnds == part = "fill" => SearchEnds

\* "You Pay" and "Executes immediately at the best available price"
\* (TradePanel.tsx): at its limit a signed buy costs the amount of the form but for
\* rounding and its cap covers the cost and little more, and a signed market order
\* crosses the best order of the book it was priced from, unless that is the
\* user's own or off the price grid, whatever was clicked before.
TicketIsHonest == Ticket!CostsWhatIsShown /\ Ticket!MarketOrderExecutes

\* The generated codecs (gen/api.ts, gen/clob.ts): a call reaches its rpc; client
\* and server, of which one may lack a field, agree on every field they share,
\* absent and zero told apart, in whatever order the fields come; and at every
\* point of its reading a reply has the type the client is compiled against.
BothSidesAgree == RequestArrives /\ ReplyReads /\ RepliesHaveType

\* The portfolio page (usePortfolio.ts, Portfolio.tsx): the totals of the tabs,
\* added up from rows, are those of the summary cards, added up from the
\* server's fields, less the rake; the rows of a resolved market are what the
\* contract pays, but for the rake the page takes off refunds; and each open order
\* of an active market and each resolved position under the chosen filter is listed
\* once, in the order the page claims or, for the groups of "Oldest first", has.
PortfolioIsRight ==
    /\ Page!HoldingsAddUp /\ Page!HistoryAddsUp
    /\ Page!OrdersComplete /\ Page!HistoryComplete
=============================================================================
