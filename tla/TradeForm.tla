------------------------------ MODULE TradeForm ------------------------------
(***************************************************************************)
(* The state of the trade form and the effects that keep it in step with   *)
(* the URL, the order book view and the polled price:                      *)
(* src/web/lib/trading/useTradingForm.ts, useOrderBookPrice.ts, the        *)
(* effects and price inputs of components/TradePanel.tsx, and the part of  *)
(* components/Market.tsx that owns the URL and the selected side.          *)
(* An effect runs after the render in which what it depends on changed,    *)
(* with the values of that render; user events wait for it.                *)
(***************************************************************************)
EXTENDS Quotes

CONSTANTS
    Books,        \* books a poll may return, as sets of orders
    Typed         \* limit prices a user types or picks in the book

\* A price of a tenth of a cent.
Mil == PRICE_SCALE \div 1000

\* A price an order can have: inside the range and on the 0.1 cent grid.
Orderable(p) == p > 0 /\ p < PRICE_SCALE /\ p % Mil = 0

\* The client signs orders on the grid alone.
ASSUME FormAssumption ==
    /\ PRICE_SCALE % 1000 = 0 /\ Typed \subseteq Nat
    /\ \A b \in Books : \A o \in b : o.limitYesPrice \in Nat /\ Orderable(o.limitYesPrice)

VARIABLES
    url,            \* the outcome the URL asks for, or Nothing
    urlRead,        \* Market has cleared the URL
    mounted,        \* the market has loaded and the panel is on the page
    outcome, limitPrice, initialLimitPrice, selectedSide,
    fx,             \* the effects that run after this render
    asked,          \* history: what the URL asked for when the page opened
    chosen,         \* history: the outcome the user chose last, or Nothing
    typed           \* history: the user set the limit price himself

formVars == <<url, urlRead, mounted, outcome, limitPrice, initialLimitPrice,
          selectedSide, fx, asked, chosen, typed>>

Nothing == "nothing"

Sides == {"YES", "NO"}

FormEffects == {"price", "url", "side", "outcome"}

FormTypeOK ==
    /\ url \in Sides \cup {Nothing} /\ urlRead \in BOOLEAN /\ mounted \in BOOLEAN
    /\ outcome \in Sides /\ selectedSide \in Sides /\ {asked, chosen} \subseteq Sides \cup {Nothing}
    /\ limitPrice \in 0 .. PRICE_SCALE /\ initialLimitPrice \in 0 .. PRICE_SCALE
    /\ fx \subseteq FormEffects /\ typed \in BOOLEAN

\* The page opens; the market is in the query cache or still to be loaded.
FormInit ==
    /\ url \in Sides \cup {Nothing} /\ urlRead = FALSE
    /\ mounted \in BOOLEAN
    /\ outcome = "YES" /\ selectedSide = "YES"
    /\ limitPrice = PRICE_SCALE \div 2 /\ initialLimitPrice = PRICE_SCALE \div 2
    /\ fx = IF mounted THEN FormEffects ELSE {}
    /\ asked = url /\ chosen = Nothing /\ typed = FALSE

\* The effect of Market that clears the URL once it has been read, after the
\* first effects of the panel where that is on the page already.
ClearUrl ==
    /\ fx # FormEffects
    /\ ~urlRead /\ urlRead' = TRUE /\ url' = Nothing
    /\ fx' = IF mounted THEN fx \cup {"url"} ELSE fx
    /\ UNCHANGED <<asked, mounted, outcome, limitPrice, initialLimitPrice, selectedSide,
                   chosen, typed>>

MarketLoads ==
    /\ ~mounted /\ urlRead /\ mounted' = TRUE /\ fx' = FormEffects
    /\ UNCHANGED <<asked, url, urlRead, outcome, limitPrice, initialLimitPrice, selectedSide,
                   chosen, typed>>

-----------------------------------------------------------------------------
\* setOutcome: the price is carried over to the other outcome.
Turned(from, to, p) == IF from = to THEN p ELSE roundToTick(Complement(p))

\* Mutant: the side effect does not look at the outcome.
flushBlind ==
    /\ fx # {}
    /\ LET price == IF "price" \in fx THEN initialLimitPrice ELSE limitPrice
           wanted == IF "url" \in fx /\ url # Nothing THEN url ELSE outcome
           shown == IF "side" \in fx THEN selectedSide ELSE wanted
       IN  /\ limitPrice' = Turned(outcome, shown, Turned(outcome, wanted, price))
           /\ outcome' = shown
           /\ typed' = (typed /\ "price" \notin fx)
    /\ UNCHANGED selectedSide
    /\ fx' = IF outcome' # outcome THEN {"url", "outcome"} ELSE {}
    /\ UNCHANGED <<asked, url, urlRead, mounted, initialLimitPrice, chosen>>

\* The pending effects, in the order of the components: the polled price, the
\* outcome of the URL, the side of the order book, and the outcome on its way
\* back to it.  Each sees the outcome and side of the render.
RunEffects ==
    /\ fx # {}
    /\ LET price == IF "price" \in fx THEN initialLimitPrice ELSE limitPrice
           wanted == IF "url" \in fx /\ url # Nothing THEN url ELSE outcome
           bySide == "side" \in fx /\ selectedSide # outcome
           shown == IF bySide THEN selectedSide ELSE wanted
       IN  /\ limitPrice' = LET p == Turned(outcome, wanted, price)
                            IN  IF bySide THEN Turned(outcome, shown, p) ELSE p
           /\ outcome' = shown
           /\ typed' = (typed /\ "price" \notin fx)
    /\ selectedSide' = IF "outcome" \in fx /\ outcome # selectedSide
                       THEN outcome ELSE selectedSide
    /\ fx' = (IF outcome' # outcome THEN {"url", "outcome"} ELSE {})
             \cup (IF selectedSide' # selectedSide THEN {"side"} ELSE {})
    /\ UNCHANGED <<asked, url, urlRead, mounted, initialLimitPrice, chosen>>

\* The page is at rest: a user event or a poll comes next.
FormAtRest == mounted /\ urlRead /\ fx = {}

\* fetchPrice, every five seconds.
PollPrice(orders) ==
    /\ FormAtRest
    /\ initialLimitPrice' = roundToTick(yesProbability(BestPrices(orders)))
    /\ fx' = IF initialLimitPrice' # initialLimitPrice THEN {"price"} ELSE {}
    /\ UNCHANGED <<asked, url, urlRead, mounted, outcome, limitPrice, selectedSide, chosen, typed>>

\* The outcome buttons and keys of the panel.
ChooseOutcome(s) ==
    /\ FormAtRest /\ s # outcome
    /\ limitPrice' = Turned(outcome, s, limitPrice)
    /\ outcome' = s /\ chosen' = s /\ fx' = {"url", "outcome"}
    /\ UNCHANGED <<asked, url, urlRead, mounted, initialLimitPrice, selectedSide, typed>>

\* The YES/NO toggle of the order book.
ChooseSide(s) ==
    /\ FormAtRest /\ s # selectedSide
    /\ selectedSide' = s /\ chosen' = s /\ fx' = {"side"}
    /\ UNCHANGED <<asked, url, urlRead, mounted, outcome, limitPrice, initialLimitPrice, typed>>

\* prefillOrder, from a click on a row of the order book: a cent above the ask.
prefillOrder(s, ask) ==
    LET bumped == SnapTo(ask + PRICE_SCALE \div 100, PRICE_SCALE \div 100)
        capped == IF bumped > PRICE_SCALE - PRICE_SCALE \div 100
                  THEN PRICE_SCALE - PRICE_SCALE \div 100 ELSE bumped
    IN  /\ FormAtRest
        /\ outcome' = s /\ chosen' = s /\ limitPrice' = roundToTick(capped) /\ typed' = TRUE
        /\ fx' = IF s # outcome THEN {"url", "outcome"} ELSE {}
        /\ UNCHANGED <<asked, url, urlRead, mounted, initialLimitPrice, selectedSide>>

\* The text field takes any price on the 0.1 cent grid, from 0.1 to 99.9 cents.
TypePrice(p) ==
    LET clamped == IF p < Mil THEN Mil ELSE IF p > 999 * Mil THEN 999 * Mil ELSE p
    IN  /\ FormAtRest
        /\ limitPrice' = SnapTo(clamped, Mil) /\ typed' = TRUE
        /\ UNCHANGED <<asked, url, urlRead, mounted, outcome, initialLimitPrice, selectedSide,
                       fx, chosen>>

\* VALID_CENTS
ValidPrices == {c * Mil : c \in (1 .. 49) \cup {10 * c : c \in 5 .. 95} \cup (951 .. 999)}

LeastOf(S) == CHOOSE p \in S : \A q \in S : p <= q

GreatestOf(S) == CHOOSE p \in S : \A q \in S : q <= p

Higher(p) == {q \in ValidPrices : q > p}

Lower(p) == {q \in ValidPrices : q < p}

\* stepLimitPrice: up means the entry after the first one not below the price.
stepLimitPrice(p, up) ==
    LET from == IF \E q \in ValidPrices : q >= p
                THEN LeastOf({q \in ValidPrices : q >= p}) ELSE GreatestOf(ValidPrices)
    IN  IF up
        THEN IF Higher(from) = {} THEN from ELSE LeastOf(Higher(from))
        ELSE IF Lower(from) = {} THEN from ELSE GreatestOf(Lower(from))

\* The arrows of the price field.
StepPrice(up) ==
    /\ FormAtRest
    /\ limitPrice' = stepLimitPrice(limitPrice, up) /\ typed' = TRUE
    /\ UNCHANGED <<asked, url, urlRead, mounted, outcome, initialLimitPrice, selectedSide,
                   fx, chosen>>

FormNext ==
    \/ ClearUrl \/ MarketLoads \/ RunEffects
    \/ \E b \in Books : PollPrice(b)
    \/ \E s \in Sides : ChooseOutcome(s) \/ ChooseSide(s)
    \/ \E s \in Sides, p \in Typed : prefillOrder(s, p)
    \/ \E p \in Typed : TypePrice(p)
    \/ \E up \in BOOLEAN : StepPrice(up)

\* React runs pending effects; the router commits the cleared URL.
FormFairness == WF_formVars(RunEffects) /\ WF_formVars(ClearUrl)

FormSpec == FormInit /\ [][FormNext]_formVars /\ FormFairness
-----------------------------------------------------------------------------
(* Once the effects have run the panel and the order book show the same     *)
(* side, and it is the one the user chose last, in whichever of the two.    *)
ChoiceKept ==
    FormAtRest => /\ outcome = selectedSide
                  /\ chosen # Nothing => outcome = chosen

(* A price the form holds can be ordered: inside the range and on the 0.1   *)
(* cent grid, whether typed, stepped, picked, turned or polled.             *)
PriceOrderable == Orderable(limitPrice)

(* Turning the outcome there and back restores a price on the tick grid: at *)
(* the edges of the range, where the tick changes, too.                     *)
TurnIsExact ==
    limitPrice \in ValidPrices =>
        Turned("NO", "YES", Turned("YES", "NO", limitPrice)) = limitPrice

(* The form (TradePanel.tsx, useTradingForm.ts): once the effects have run,  *)
(* panel and order book show the side chosen last; every price it holds can  *)
(* be ordered, and turning the outcome there and back restores it.           *)
FormInStep == ChoiceKept /\ PriceOrderable /\ TurnIsExact
=============================================================================
