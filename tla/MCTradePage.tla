---------------------------- MODULE MCTradePage ----------------------------
(***************************************************************************)
(* The components of a market's page: the order ticket over the wallet     *)
(* lock, the lock between two tabs, the form, the guard of the open sells, *)
(* the price chart and the windows of its ranges.  What one needs of       *)
(* another is part of its own                                              *)
(* module; they share no variable, so a behaviour of the page is one of    *)
(* each, and the instance lets one of them move while the others stay as   *)
(* they start.                                                             *)
(***************************************************************************)
EXTENDS OrderLifecycle, TradeForm, SellGuard, TLC

CONSTANTS o1, o2, x, tab, tab2, lock, NoTime,
          Windows, Trades          \* of PriceChart

VARIABLES
    part,                                                  \* the part that moves
    window, fetches, points, isLoading, faults,            \* PriceChart
    created, now, range, ticks                             \* ChartWindow

chartVars == <<window, fetches, points, isLoading, faults>>
windowVars == <<created, now, range, ticks>>
pageVars == <<part, vars, formVars, sellVars, chartVars, windowVars>>
-----------------------------------------------------------------------------
(* The ticket: two orders and another wallet call of the tab.                *)
MCOrders == {o1, o2}
MCCalls == {o1, o2, x}
MCTabOf == [c \in MCCalls |-> tab]
MCLockOf == tab :> lock

(* The wallet lock of two tabs, one of whose calls has no timeout of its own. *)
TwoTabs == INSTANCE WalletMutex WITH
    Tabs <- {tab, tab2}, TabOf <- (o1 :> tab) @@ (x :> tab) @@ (o2 :> tab2),
    LockOf <- [t \in {tab, tab2} |-> lock], Timed <- MCOrders

(* The form: 2000 prices to the dollar, so that the middle of two prices on  *)
(* the 0.1 cent grid is a number; 530 is 26.5 cents, off the cent grid.      *)
Rests(side, p) == [side |-> side, action |-> "BUY", limitYesPrice |-> p]
MCBooks == { {}, {Rests("YES", 820), Rests("NO", 1234)}, {Rests("YES", 1902)},
             {Rests("NO", 94), Rests("YES", 4)} }

MCTyped == {0, 96, 530, 1000, 1996}

(* The chart: a short range in chunks of two units, a long one in chunks of  *)
(* four, and one whose chunks are longer than the server accepts.            *)
Win(from, chunk, interval, step) ==
    [market |-> "m1", from |-> from, to |-> 14, chunkSpan |-> chunk, chunkLimit |-> 2,
     interval |-> interval, step |-> step, seedFrom |-> 2]
MCWindows == {Win(8, 2, 1, 2), Win(3, 4, 2, 3), Win(6, 8, 2, 4)}

MCTrades == "m1" :> {[t |-> 2, p |-> 40], [t |-> 4, p |-> 50], [t |-> 9, p |-> 60], [t |-> 10, p |-> 55], [t |-> 13, p |-> 70]}

Chart == INSTANCE PriceChart WITH
    OneMin <- 1, CONCURRENCY <- 2, SeedLimit <- 4,
    SeedInterval <- 2, MaxFetches <- 2, MaxFaults <- 1

(* The windows of every range, in the code's own numbers, two units to the   *)
(* minute: markets of all ages around the thresholds, a clock that moves on. *)
Ranging == INSTANCE PriceChart WITH
    OneMin <- 2, CONCURRENCY <- 2, SeedLimit <- 4,
    SeedInterval <- 2, MaxFetches <- 2, MaxFaults <- 1
Ages == {0, 1, 119, 120, 121, 719, 720, 2879, 2880, 20159, 20160, 86399, 86400, 86401, 500000,
         1051199, 1051200, 1051201, 3000000, 21000000}
MaxTicks == 3

WindowInit ==
    /\ now \in {30000000, 30000001, 30001437}
    /\ created \in {now - a : a \in Ages} \cup {NoTime}
    /\ range = Ranging!InitialRange(created, now)
    /\ ticks = 0

WindowNext ==
    \/ ticks < MaxTicks /\ ticks' = ticks + 1 /\ now' = now + 1 /\ UNCHANGED <<created, range>>
    \/ range' \in Ranging!Ranges \ {range} /\ UNCHANGED <<created, now, ticks>>
-----------------------------------------------------------------------------
(* The sells: from nothing, or with a sell of another device in the book that *)
(* a load of the page finds.                                                  *)
OpenSellInit ==
    /\ row = [i \in Ids |-> IF i = "s2" THEN "open" ELSE "none"]
    /\ intake = [i \in Ids |-> [NoIntake EXCEPT !.step = IF i = "s2" THEN "over" ELSE "none"]]
    /\ book = {"s2"} /\ slipped = {"s2"} /\ position = Shares
    /\ panelBook = {} /\ panelHeld = Shares /\ intents = {}
    /\ pendingSells = [i \in Ids |-> NotPending] /\ portfolioFetches = {}
    /\ graphBook = {} /\ cancelledTxIds = [i \in Ids |-> NotPending]
-----------------------------------------------------------------------------
PageInit ==
    /\ part \in {"ticket", "tabs", "form", "sells", "reloaded sells", "chart", "window"}
    /\ PanelInit /\ IF part = "tabs" THEN TwoTabs!LockInit ELSE LockInit
    /\ FormInit
    /\ part # "form" => asked = Nothing /\ mounted = FALSE
    /\ IF part = "reloaded sells" THEN OpenSellInit ELSE SellInit
    /\ Chart!Init
    /\ part # "chart" => window = Win(8, 2, 1, 2)
    /\ WindowInit
    /\ part # "window" => created = NoTime /\ now = 30000000

\* The step of a part p leaves the others alone.
Alone(p) ==
    /\ part = p /\ UNCHANGED part
    /\ IF p = "ticket" THEN TRUE ELSE UNCHANGED panelVars
    /\ IF p \in {"ticket", "tabs"} THEN TRUE ELSE UNCHANGED lockVars
    /\ IF p = "form" THEN TRUE ELSE UNCHANGED formVars
    /\ IF p \in {"sells", "reloaded sells"} THEN TRUE ELSE UNCHANGED sellVars
    /\ IF p = "chart" THEN TRUE ELSE UNCHANGED chartVars
    /\ IF p = "window" THEN TRUE ELSE UNCHANGED windowVars

\* The sells of one page load with the order book table closed, or of a page that
\* is loaded with orders open and shows the table.
Sells == (Alone("sells") /\ intents' = {} /\ graphBook' = {}) \/ Alone("reloaded sells")

PageNext ==
    \/ Alone("ticket") /\ Next
    \/ Alone("tabs") /\ TwoTabs!LockNext
    \/ Alone("form") /\ FormNext
    \/ Sells /\ SellNext
    \/ Alone("chart") /\ Chart!Next
    \/ Alone("window") /\ WindowNext

\* What goes on by itself: continuations, timers, effects, polls and requests,
\* as in the Fairness of each module; nothing of the user or the wallet.
PageFairness ==
    /\ \A o \in Orders : WF_vars(Alone("ticket") /\ SignReturns(o))
    /\ WF_vars(Alone("ticket") /\ Quiet /\ TimerStep)
    /\ WF_vars(Alone("ticket") /\ Quiet /\ (\E l \in Locks : run(l)) /\ UNCHANGED panelVars)
    /\ WF_vars(Alone("ticket") /\ Reply)
    /\ WF_lockVars(Alone("tabs") /\ TwoTabs!run(lock)) /\ WF_lockVars(Alone("tabs") /\ TwoTabs!LockTimers)
    /\ WF_formVars(Alone("form") /\ RunEffects) /\ WF_formVars(Alone("form") /\ ClearUrl)
    /\ WF_sellVars(Sells /\ PollBook) /\ WF_sellVars(Sells /\ PollPosition)
    /\ WF_sellVars(Sells /\ PollGraph) /\ WF_sellVars(Sells /\ Elapse)
    /\ WF_sellVars(Sells /\ \E f \in portfolioFetches :
                                PortfolioReply(f) \/ BooksRead(f) \/ PortfolioFails(f))
    /\ \A i \in 1 .. 2 : WF_chartVars(Alone("chart") /\ Chart!FetchStep(i))

PageSpec == PageInit /\ [][PageNext]_pageVars /\ PageFairness
-----------------------------------------------------------------------------
w == Ranging!WindowOf(range, created, now)
c == Ranging!Chunks(w)

\* The windows of the chart (RANGE_CONFIG, deriveAllConfig): the requests tile the
\* window and none is longer than PriceHistory accepts; the points stay within
\* their budget; the window reaches the present and, for the range a chart opens
\* with, back to the market's creation, or a year.
WindowIsTiled ==
    /\ \A k \in DOMAIN c : 0 < c[k].to - c[k].from
                           /\ c[k].to - c[k].from <= Ranging!Interval(w.resolution) * w.chunkLimit
    /\ c[1].from = w.from /\ c[Len(c)].to = w.to
    /\ \A k \in 1 .. Len(c) - 1 : c[k].to = c[k + 1].from
    /\ (w.to - w.from) \div w.step <= Ranging!MAX_POINTS + 1
    /\ w.from < now /\ now <= w.to
    /\ range = "ALL" /\ created # NoTime => \/ w.from <= created + w.step
                                            \/ w.from <= now - 365 * Ranging!ONE_DAY + w.step

\* The price chart (GraphPriceV2.tsx): its pool stays bounded and takes each chunk
\* once, a line of which no request failed shows at each point the price of the
\* last print, in whatever order the chunks were answered, and whatever the range
\* and the clock, the requests cover the window without a gap.
ChartIsHistory ==
    /\ part = "chart" => Chart!PoolIsBounded /\ Chart!LineIsHistory
    /\ part = "window" => WindowIsTiled

\* Nothing on the page waits for ever, although the wallet may never answer and
\* requests fail: the ticket becomes idle again, every wallet call of every tab
\* settles, the effects of the form come to
\* rest, within one page load the panel offers every share again when all sells
\* are over, an order that stays in the book is shown, and a chart stops loading.
PageRecovers == \A i \in {"s1", "s2"} : []<>
    CASE part = "ticket" -> processingStep = "idle"
      [] part = "tabs" -> \A c1 \in Calls : caller[c1] # "pending"
      [] part = "form" -> fx = {}
      [] part = "sells" -> Released
      [] part = "reloaded sells" -> Shown(i)
      [] part = "chart" -> ~isLoading
      [] part = "window" -> TRUE
=============================================================================
