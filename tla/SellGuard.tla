----------------------------- MODULE SellGuard ------------------------------
(***************************************************************************)
(* How the web client keeps shares from being offered for sale twice: the  *)
(* store src/web/lib/pendingSells.ts, the trade panel's count of free      *)
(* shares (TradePanel.tsx), the portfolio hook of the page header          *)
(* (usePortfolio.ts), and the order book table (GraphOrderbook.tsx) with   *)
(* its memory of cancelled orders.  Server: CreatePredictionIntent reads   *)
(* position and open orders and inserts, orders enter the book late, fills *)
(* are settled late, a cancelled order may stay in the book.  One outcome  *)
(* of one market, orders of one share, from this page or another device.   *)
(***************************************************************************)
EXTENDS Integers, FiniteSets

CONSTANTS
    Ids,             \* sell orders
    Shares,          \* shares held at the start
    TTL,             \* PENDING_SELL_TTL_MS, in ticks
    SUPPRESS,        \* the sixty seconds of cancelledTxIds, in ticks
    MaxFetches,      \* bound: fetches of the header's hook in flight
    Reloads          \* whether the page can be loaded with orders open

ASSUME SellAssumption ==
    /\ IsFiniteSet(Ids) /\ {Shares, TTL, SUPPRESS, MaxFetches} \subseteq Nat /\ Reloads \in BOOLEAN

VARIABLES
    row,             \* order -> state of its row at the API server
    intake,          \* order -> its request: step, position read, whether it was crossed
    book,            \* orders in the server's book
    position,        \* shares of the position
    panelBook, panelHeld,  \* TradePanel: book, positionInfo
    intents,         \* userPortfolio.openPredictionIntents, fetched on connect
    pendingSells,    \* order -> ticks since it was recorded, or NotPending
    portfolioFetches, \* the header's usePortfolio: fetches in flight, with their answer
    graphBook,       \* GraphOrderbook: book
    cancelledTxIds,  \* order -> ticks since it was cancelled, or NotPending
    slipped          \* history: orders the page never had or has let go of

serverVars == <<row, intake, book, position>>
tableVars == <<graphBook, cancelledTxIds>>
sellVars == <<serverVars, panelBook, panelHeld, intents, pendingSells, portfolioFetches, tableVars, slipped>>

NotPending == -1

States == {"none", "open", "matched", "executed", "settled", "cancelled"}
IntakeSteps == {"none", "asked", "position", "checked", "inserted", "over"}
NoIntake == [step |-> "none", held |-> 0, crossed |-> FALSE]

SellTypeOK ==
    /\ row \in [Ids -> States]
    /\ intake \in [Ids -> [step : IntakeSteps, held : 0 .. Shares, crossed : BOOLEAN]]
    /\ book \subseteq Ids /\ position \in 0 .. Shares
    /\ panelBook \subseteq Ids /\ panelHeld \in 0 .. Shares /\ intents \subseteq Ids
    /\ pendingSells \in [Ids -> -1 .. TTL]
    /\ portfolioFetches \subseteq [found : SUBSET Ids, phase : {"portfolio", "book"}]
    /\ graphBook \subseteq Ids /\ cancelledTxIds \in [Ids -> -1 .. SUPPRESS] /\ slipped \subseteq Ids

\* The rows the server counts as open: a fill is recorded after it has executed.
Open == {i \in Ids : row[i] \in {"open", "matched", "executed"}}

SellInit ==
    /\ row = [i \in Ids |-> "none"] /\ intake = [i \in Ids |-> NoIntake] /\ book = {} /\ position = Shares
    /\ panelBook = {} /\ panelHeld = Shares /\ intents = {}
    /\ pendingSells = [i \in Ids |-> NotPending] /\ portfolioFetches = {}
    /\ graphBook = {} /\ cancelledTxIds = [i \in Ids |-> NotPending] /\ slipped = {}

-----------------------------------------------------------------------------
recordPendingSell(i) == pendingSells' = [pendingSells EXCEPT ![i] = 0]

reconcilePendingSells(known) ==
    pendingSells' = [i \in Ids |-> IF i \in known THEN NotPending ELSE pendingSells[i]]

snapshotPendingSells == {i \in Ids : pendingSells[i] # NotPending}

\* actualBids and actualAsks: the book, and the user's intents it does not list.
actual(b) == b \cup intents

\* openSecondaryYes, openSecondaryNo.
openSecondary == Cardinality(actual(panelBook)) + Cardinality(snapshotPendingSells)

\* availableYesShares, availableNoShares.
availableSellShares == IF panelHeld > openSecondary THEN panelHeld - openSecondary ELSE 0

-----------------------------------------------------------------------------
(* The server *)

\* Requests of this page that it waits for.
Asking == {i \in Ids : intake[i].step \notin {"none", "over"} /\ i \notin slipped}

PageOnly == UNCHANGED <<panelBook, panelHeld, intents, portfolioFetches, tableVars>>
ServerOnly == UNCHANGED pendingSells /\ PageOnly /\ UNCHANGED slipped

\* The panel offers a share; the order is signed and sent, one at a time.
Submit(i) ==
    /\ intake[i].step = "none" /\ availableSellShares > 0 /\ Asking = {}
    /\ intake' = [intake EXCEPT ![i].step = "asked"]
    /\ UNCHANGED <<row, book, position>> /\ ServerOnly

\* ... or sent from another device of the account.
SubmitElsewhere(i) ==
    /\ intake[i].step = "none" /\ intake' = [intake EXCEPT ![i].step = "asked"]
    /\ slipped' = slipped \cup {i}
    /\ UNCHANGED <<row, book, position, pendingSells>> /\ PageOnly

\* GetUserPositionBalancesV2: what the mirror node has, maybe of before a fill.
ReadPosition(i) ==
    /\ intake[i].step = "asked"
    /\ \E held \in position .. Shares :
          intake' = [intake EXCEPT ![i] = [step |-> "position", held |-> held, crossed |-> held # position]]
    /\ UNCHANGED <<row, book, position>> /\ ServerOnly

\* Mutant: shares reserved by open sells are not counted.
heldSuffices(i) == 1 <= intake[i].held

\* The reservation: the open sells, read now, and the new one fit into what was
\* held when the position was read.
Reserves(i) == Cardinality(Open) + 1 <= intake[i].held

ReadOpenSells(i) ==
    /\ intake[i].step = "position"
    /\ intake' = [intake EXCEPT ![i] =
           [step |-> IF Reserves(i) THEN "checked" ELSE "over", held |-> 0, crossed |-> @.crossed]]
    /\ UNCHANGED <<row, book, position>> /\ ServerOnly

\* The row is inserted; it crosses the requests that have counted without it.
Insert(i) ==
    /\ intake[i].step = "checked" /\ row' = [row EXCEPT ![i] = "open"]
    /\ intake' = [j \in Ids |->
           IF j = i THEN [intake[i] EXCEPT !.step = IF i \in slipped THEN "over" ELSE "inserted"]
           ELSE [intake[j] EXCEPT !.crossed = @ \/ intake[j].step = "checked"]]
    /\ UNCHANGED <<book, position>> /\ ServerOnly

\* The page hears that its order was accepted.
Accepted(i) ==
    /\ intake[i].step = "inserted" /\ i \notin slipped
    /\ intake' = [intake EXCEPT ![i].step = "over"] /\ recordPendingSell(i)
    /\ UNCHANGED <<row, book, position, slipped>> /\ PageOnly

\* The request fails on its way, before or after the server has done its part: the
\* page takes the order for refused.
AnswerLost(i) ==
    /\ i \in Asking /\ slipped' = slipped \cup {i}
    /\ intake' = [intake EXCEPT ![i].step = IF @ = "inserted" THEN "over" ELSE @]
    /\ UNCHANGED <<row, book, position, pendingSells>> /\ PageOnly

\* The outbox, the stream and the book take their time.
EnterBook(i) ==
    /\ row[i] = "open" /\ i \notin book /\ book' = book \cup {i}
    /\ UNCHANGED <<row, intake, position>> /\ ServerOnly

\* The book matches the order: it is gone from the book, the row is not changed.
Match(i) ==
    /\ row[i] = "open" /\ i \in book /\ book' = book \ {i}
    /\ row' = [row EXCEPT ![i] = "matched"] /\ UNCHANGED <<intake, position>> /\ ServerOnly

\* The fill executes, if the shares are still there; the worker records it later.
FillExecutes(i) ==
    /\ row[i] = "matched" /\ position > 0 /\ row' = [row EXCEPT ![i] = "executed"] /\ position' = position - 1
    /\ UNCHANGED <<intake, book>> /\ ServerOnly

\* Recording crosses the requests that have read the position and not the rows.
Record(i) ==
    /\ row[i] = "executed" /\ row' = [row EXCEPT ![i] = "settled"]
    /\ intake' = [j \in Ids |-> [intake[j] EXCEPT !.crossed = @ \/ intake[j].step = "position"]]
    /\ UNCHANGED <<book, position>> /\ ServerOnly

\* An order that was cancelled leaves the book, maybe much later.
LeaveBook(i) ==
    /\ i \in book /\ row[i] = "cancelled" /\ book' = book \ {i}
    /\ UNCHANGED <<row, intake, position>> /\ ServerOnly

-----------------------------------------------------------------------------
(* The trade panel *)

PollBook ==
    /\ panelBook' = book /\ reconcilePendingSells(actual(book))
    /\ UNCHANGED <<serverVars, panelHeld, intents, portfolioFetches, tableVars, slipped>>

PollPosition ==
    /\ panelHeld' = position
    /\ UNCHANGED <<serverVars, panelBook, intents, pendingSells, portfolioFetches, tableVars, slipped>>

\* The page is loaded and connected: UserPortfolio fetches the intents, once.
LoadPage ==
    /\ Reloads /\ intents = {} /\ Open # {} /\ slipped' = slipped \cup Asking
    /\ intents' = Open /\ panelBook' = {} /\ graphBook' = {} /\ panelHeld' = 0
    /\ pendingSells' = [i \in Ids |-> NotPending] /\ portfolioFetches' = {}
    /\ cancelledTxIds' = [i \in Ids |-> NotPending]
    /\ UNCHANGED serverVars

-----------------------------------------------------------------------------
(* usePortfolio in the header: fetchPortfolio, cut at its awaits. *)

fetchPortfolio ==
    /\ Cardinality(portfolioFetches) < MaxFetches
    /\ portfolioFetches' = portfolioFetches \cup {[found |-> Open, phase |-> "portfolio"]}
    /\ UNCHANGED <<serverVars, panelBook, panelHeld, intents, pendingSells, tableVars, slipped>>

\* Orders the header's hook has seen and the panel has not.
SeenFirst(found) == {i \in found \ actual(panelBook) : pendingSells[i] # NotPending}

\* setOpenOrders(foundOrders), and the effect that reconciles.
PortfolioReply(f) ==
    /\ f \in portfolioFetches /\ f.phase = "portfolio"
    /\ reconcilePendingSells(f.found)
    /\ slipped' = slipped \cup SeenFirst(f.found)
    /\ portfolioFetches' = (portfolioFetches \ {f}) \cup {[f EXCEPT !.phase = "book"]}
    /\ UNCHANGED <<serverVars, panelBook, panelHeld, intents, tableVars>>

\* The books are read and sells the feed missed are added.
BooksRead(f) ==
    /\ f \in portfolioFetches /\ f.phase = "book" /\ portfolioFetches' = portfolioFetches \ {f}
    /\ IF book \ f.found = {} THEN UNCHANGED <<pendingSells, slipped>>
       ELSE /\ reconcilePendingSells(f.found \cup book)
            /\ slipped' = slipped \cup SeenFirst(f.found \cup book)
    /\ UNCHANGED <<serverVars, panelBook, panelHeld, intents, tableVars>>

\* A request fails: the orders stay as they are.
PortfolioFails(f) ==
    /\ f \in portfolioFetches /\ portfolioFetches' = portfolioFetches \ {f}
    /\ UNCHANGED <<serverVars, panelBook, panelHeld, intents, pendingSells, tableVars, slipped>>

-----------------------------------------------------------------------------
(* The order book table *)

hidden == {i \in Ids : cancelledTxIds[i] # NotPending}

\* The orders of the user that the table shows.
ShownOrders == (graphBook \cup intents) \ hidden

\* The effect that forgets cancelled orders both feeds have dropped.
Forget(b) ==
    cancelledTxIds' = [i \in Ids |-> IF i \in b \cup intents THEN cancelledTxIds[i] ELSE NotPending]

PollGraph ==
    /\ graphBook' = book /\ Forget(book)
    /\ UNCHANGED <<serverVars, panelBook, panelHeld, intents, pendingSells, portfolioFetches, slipped>>

\* handleConfirmCancel: the server takes the cancellation, the table hides the
\* order and refreshes; the book drops it at once or later.
handleConfirmCancel(i) ==
    /\ i \in ShownOrders /\ row[i] = "open"
    /\ row' = [row EXCEPT ![i] = "cancelled"]
    /\ cancelledTxIds' = [cancelledTxIds EXCEPT ![i] = 0]
    /\ UNCHANGED <<intake, book, position, panelBook, panelHeld, intents, pendingSells, portfolioFetches,
                   graphBook, slipped>>

Older(age, limit) == IF age \in {NotPending, limit} THEN NotPending ELSE age + 1

\* Time passes; prune, and the timeout that forgets a cancelled order.
Elapse ==
    /\ pendingSells' = [i \in Ids |-> Older(pendingSells[i], TTL)]
    /\ slipped' = slipped \cup {i \in Ids : pendingSells[i] = TTL}
    /\ cancelledTxIds' = [i \in Ids |-> Older(cancelledTxIds[i], SUPPRESS)]
    /\ UNCHANGED <<serverVars, panelBook, panelHeld, intents, portfolioFetches, graphBook>>

SellNext ==
    \/ \E i \in Ids :
          \/ Submit(i) \/ SubmitElsewhere(i) \/ ReadPosition(i) \/ ReadOpenSells(i) \/ Insert(i)
          \/ Accepted(i) \/ AnswerLost(i) \/ EnterBook(i) \/ Match(i) \/ FillExecutes(i) \/ Record(i)
          \/ LeaveBook(i) \/ handleConfirmCancel(i)
    \/ PollBook \/ PollPosition \/ LoadPage \/ PollGraph \/ Elapse \/ fetchPortfolio
    \/ \E f \in portfolioFetches : PortfolioReply(f) \/ BooksRead(f) \/ PortfolioFails(f)

\* Intervals and timers fire, requests settle.
SellFairness ==
    WF_sellVars(PollBook) /\ WF_sellVars(PollPosition) /\ WF_sellVars(PollGraph) /\ WF_sellVars(Elapse)
    /\ WF_sellVars(\E f \in portfolioFetches : PortfolioReply(f) \/ BooksRead(f) \/ PortfolioFails(f))

SellSpec == SellInit /\ [][SellNext]_sellVars /\ SellFairness
-----------------------------------------------------------------------------
\* The sells that will still take a share of the position, and those admitted
\* although a recording or an insertion fell between the reads of their request.
Outstanding == {i \in Ids : row[i] \in {"open", "matched"}}
Crossed == {i \in Ids : intake[i].crossed /\ row[i] # "none"}

\* What the panel counts as up for sale.
Counted == actual(panelBook) \cup snapshotPendingSells \cup Asking

(* Shares offered twice (predictionIntent.go, pendingSells.ts, TradePanel.tsx). *)
(* Whatever the clients believe and submit, the sells of an account exceed  *)
(* its shares by no more than one per request that was crossed: between the *)
(* read of a position and that of the rows a fill was recorded (or the      *)
(* mirror node lagged), or between that and the insertion another order was *)
(* inserted.  And the panel counts every order in or on its way to the book *)
(* but those it let go of: placed elsewhere, without an answer, older than  *)
(* the store remembers, or dropped because the header's hook has seen them. *)
OpenSellsCovered ==
    /\ Cardinality(Outstanding) <= position + Cardinality(Crossed)
    /\ \A i \in Ids : row[i] = "open" => i \in Counted \cup slipped

(* "short enough that a rejected order doesn't lock the position": when all *)
(* orders are over the panel offers every share again.                      *)
Released == Open = {} /\ book = {} => availableSellShares = position
(* "a stuck cancel can't permanently hide a live order": an order that      *)
(* stays in the book is shown in the end.                                   *)
Shown(i) == i \in book => i \in ShownOrders
=============================================================================
