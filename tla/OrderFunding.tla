---------------------------- MODULE OrderFunding ----------------------------
(***************************************************************************)
(* What backs an open order.  CreatePredictionIntent admits an order after *)
(* it has read what its account holds and, for a SELL, what its other open *)
(* SELLs reserve; the cron job KickOutOrderIntentsNotBackedByFunds evicts  *)
(* orders that are no longer backed.  Both read the mirror node and the    *)
(* table one after the other while orders are filled, other requests are   *)
(* served and the account moves its funds.  One account; a BUY is filled   *)
(* at its limit, so that its collateral and its shares are one number.     *)
(***************************************************************************)
EXTENDS Integers, FiniteSets, Sequences, Functions, SequencesExt

CONSTANTS
    FundedMarkets,  \* numbered in the order they were created
    PlacedOrders,   \* numbered in the order they may be placed
    Terms,          \* Terms[o]: [market, action, side, qty]
    Funds,          \* what the account holds at first, per asset
    MaxMoves, MaxFundingFaults     \* bounds: deposits and withdrawals, database errors

Sides == {"YES", "NO"}
USDC == <<0, "USDC">>
Assets == {USDC} \cup (FundedMarkets \X Sides)

\* What a fill of o takes from the account.
Asset(o) == IF Terms[o].action = "BUY" THEN USDC ELSE <<Terms[o].market, Terms[o].side>>

\* An account orders on markets there are, and a quantity of zero is refused.
ASSUME FundingAssumption ==
    /\ FundedMarkets \subseteq Nat /\ IsFiniteSet(PlacedOrders)
    /\ \A o \in PlacedOrders : Terms[o] \in
           [market : FundedMarkets, action : {"BUY", "SELL"}, side : Sides, qty : Nat \ {0}]
    /\ Funds \in [Assets -> Nat]

VARIABLES
    holdings,       \* what the account holds and the contract may take, per asset
    holdingsMirror, \* the mirror node's copy
    orderRow,       \* prediction_intents: [st, filled]
    resting,        \* the orders resting in the CLOB
    spent,          \* what the fills of an order have taken on chain
    req,            \* CreatePredictionIntent: [step, held, quiet]
    pass,           \* the running cron job
    moves, fundingFaults

fundingVars == <<holdings, holdingsMirror, orderRow, resting, spent, req, pass, moves, fundingFaults>>

FundingFault == fundingFaults < MaxFundingFaults /\ fundingFaults' = fundingFaults + 1

Rem(o) == Terms[o].qty - orderRow[o].filled
Open(o) == orderRow[o].st = "open" /\ Rem(o) > 0

\* quiet is a ghost: nothing a request has read has changed since.
Disturb == [o \in PlacedOrders |-> [req[o] EXCEPT !.quiet = FALSE]]

Idle == [step |-> "idle", todo |-> {}, market |-> 0, available |-> [a \in Assets |-> 0],
         required |-> [a \in Assets |-> 0], list |-> <<>>, sells |-> <<>>, kept |-> {}]

FundingInit ==
    /\ holdings = Funds /\ holdingsMirror = Funds
    /\ orderRow = [o \in PlacedOrders |-> [st |-> "none", filled |-> 0]]
    /\ resting = {} /\ spent = [o \in PlacedOrders |-> 0]
    /\ req = [o \in PlacedOrders |-> [step |-> "none", held |-> 0, quiet |-> FALSE]]
    /\ pass = Idle
    /\ moves = 0 /\ fundingFaults = 0

-----------------------------------------------------------------------------
(* Around the API.                                                         *)

\* The account moves collateral or positions, or changes its allowance.
Move(a, n) ==
    /\ moves < MaxMoves /\ n # holdings[a]
    /\ moves' = moves + 1
    /\ holdings' = [holdings EXCEPT ![a] = n]
    /\ req' = Disturb
    /\ UNCHANGED <<holdingsMirror, orderRow, resting, spent, pass, fundingFaults>>

HoldingsCatchUp ==
    /\ holdingsMirror # holdings
    /\ holdingsMirror' = holdings
    /\ UNCHANGED <<holdings, orderRow, resting, spent, req, pass, moves, fundingFaults>>

\* The outbox and the stream bring an order into the book, cancelled or not.
Publish(o) ==
    /\ req[o].step = "sent"
    /\ resting' = resting \cup {o}
    /\ req' = [req EXCEPT ![o].step = "done"]
    /\ UNCHANGED <<holdings, holdingsMirror, orderRow, spent, pass, moves, fundingFaults>>

\* A fill is matched and executes; the settlement worker gives it up when the
\* order is cancelled or evicted, and the contract when the funds are missing.
SettleFill(o) ==
    /\ o \in resting /\ orderRow[o].st = "open" /\ holdings[Asset(o)] > 0
    /\ holdings' = [holdings EXCEPT ![Asset(o)] = @ - 1]
    /\ spent' = [spent EXCEPT ![o] = @ + 1]
    /\ resting' = IF spent'[o] = Terms[o].qty THEN resting \ {o} ELSE resting
    /\ req' = Disturb
    /\ UNCHANGED <<holdingsMirror, orderRow, pass, moves, fundingFaults>>

\* AddPredictionIntentFill, when the settlement worker gets to it.
FillIsBooked(o) ==
    /\ orderRow[o].filled < spent[o]
    /\ orderRow' = [orderRow EXCEPT ![o].filled = @ + 1]
    /\ req' = Disturb
    /\ UNCHANGED <<holdings, holdingsMirror, resting, spent, pass, moves, fundingFaults>>

-----------------------------------------------------------------------------
(* CreatePredictionIntent.                                                 *)

\* GetSpenderAllowance and GetUsdcBalanceUsd for a BUY, GetUserPositionBalancesV2
\* for a SELL.
ReadHeld(o) ==
    /\ req[o].step = "none"
    /\ req' = [req EXCEPT ![o] = [step |-> "held", held |-> holdingsMirror[Asset(o)], quiet |-> holdingsMirror = holdings]]
    /\ UNCHANGED <<holdings, holdingsMirror, orderRow, resting, spent, pass, moves, fundingFaults>>

OpenSells(o) == {p \in PlacedOrders : Open(p) /\ Asset(p) = Asset(o)}

reserved(o) ==
    IF Terms[o].action = "BUY" THEN 0
    ELSE SumFunctionOnSet([p \in PlacedOrders |-> Rem(p)], OpenSells(o))

CheckHeld(o) ==
    /\ req[o].step = "held"
    /\ req' = [req EXCEPT ![o].step = IF reserved(o) + Terms[o].qty > req[o].held THEN "refused" ELSE "checked"]
    /\ UNCHANGED <<holdings, holdingsMirror, orderRow, resting, spent, pass, moves, fundingFaults>>

\* CreateOrderIntentRequestWithOutbox.
CreateOrderIntent(o) ==
    /\ req[o].step = "checked"
    /\ orderRow' = [orderRow EXCEPT ![o].st = "open"]
    /\ req' = [Disturb EXCEPT ![o].step = "sent"]
    /\ UNCHANGED <<holdings, holdingsMirror, resting, spent, pass, moves, fundingFaults>>

-----------------------------------------------------------------------------
(* KickOutOrderIntentsNotBackedByFunds.                                    *)

StartPass ==
    /\ pass.step = "idle"
    /\ pass' = [Idle EXCEPT !.step = "market", !.todo = FundedMarkets]
    /\ UNCHANGED <<holdings, holdingsMirror, orderRow, resting, spent, req, moves, fundingFaults>>

\* The next market of the account: allowance and balance are read first.
ReadAvailable ==
    /\ pass.step = "market"
    /\ IF pass.todo = {}
         THEN pass' = Idle
         ELSE \E m \in pass.todo :
                /\ \A n \in pass.todo : m <= n
                /\ pass' = [Idle EXCEPT !.step = "rows", !.todo = pass.todo \ {m}, !.market = m,
                                        !.available = [@ EXCEPT ![USDC] = holdingsMirror[USDC]]]
    /\ UNCHANGED <<holdings, holdingsMirror, orderRow, resting, spent, req, moves, fundingFaults>>

\* The open orders as they are now.  The query sorts by account_id, the same
\* for all of them: the database returns them in any order.
ReadOpenOrders ==
    /\ pass.step = "rows"
    /\ LET listed(action) == {[order |-> o, rem |-> Rem(o)] : o \in
                {p \in PlacedOrders : Open(p) /\ Terms[p].market = pass.market /\ Terms[p].action = action}}
       IN \E buys \in SetToSeqs(listed("BUY")), sells \in SetToSeqs(listed("SELL")) :
            pass' = [pass EXCEPT !.step = "orders", !.list = buys, !.sells = sells]
    /\ UNCHANGED <<holdings, holdingsMirror, orderRow, resting, spent, req, moves, fundingFaults>>

\* A read that fails skips the account on this market.
PassFails ==
    /\ pass.step \in {"rows", "balances"}
    /\ FundingFault
    /\ pass' = [Idle EXCEPT !.step = "market", !.todo = pass.todo]
    /\ UNCHANGED <<holdings, holdingsMirror, orderRow, resting, spent, req, moves>>

\* The position balances are read when the BUYs are done, if there are SELLs.
ReadBalances ==
    /\ pass.step = "balances"
    /\ pass' = [pass EXCEPT !.step = "orders", !.list = pass.sells, !.sells = <<>>,
                            !.available = [a \in Assets |-> IF a = USDC THEN @[a] ELSE holdingsMirror[a]]]
    /\ UNCHANGED <<holdings, holdingsMirror, orderRow, resting, spent, req, moves, fundingFaults>>

\* Mutant: only the order itself is compared with the funds.
requiredAlone == Head(pass.list).rem
required == LET e == Head(pass.list) IN pass.required[Asset(e.order)] + e.rem

Unbacked == required > pass.available[Asset(Head(pass.list).order)]

\* One order of the list: counted, and evicted or kept.
validateAndKickout ==
    /\ pass.step = "orders"
    /\ pass' = IF pass.list = <<>>
                 THEN [pass EXCEPT !.step = IF pass.sells = <<>> THEN "market" ELSE "balances"]
                 ELSE LET o == Head(pass.list).order
                          counted == [pass EXCEPT !.required = [@ EXCEPT ![Asset(o)] = required]]
                      IN IF Unbacked THEN [counted EXCEPT !.step = "evict"]
                         ELSE [counted EXCEPT !.list = Tail(@), !.kept = @ \cup {Head(pass.list)}]
    /\ UNCHANGED <<holdings, holdingsMirror, orderRow, resting, spent, req, moves, fundingFaults>>

NextOrder(p) == [p EXCEPT !.step = "orders", !.list = Tail(@)]

\* CancelPredictionIntentNoSigCheck: the row, unless it is filled by now ...
CancelRow ==
    /\ pass.step = "evict"
    /\ LET o == Head(pass.list).order
       IN \/ /\ orderRow' = IF Open(o) THEN [orderRow EXCEPT ![o].st = "cancelled"] ELSE orderRow
             /\ req' = IF Open(o) THEN Disturb ELSE req
             /\ pass' = [pass EXCEPT !.step = "clob"]
             /\ fundingFaults' = fundingFaults
          \/ FundingFault /\ pass' = NextOrder(pass) /\ UNCHANGED <<orderRow, req>>
    /\ UNCHANGED <<holdings, holdingsMirror, resting, spent, moves>>

\* ... and the order in the CLOB, which answers with an error if it is not there.
CancelOnClob ==
    /\ pass.step = "clob"
    /\ LET o == Head(pass.list).order
       IN \/ /\ o \in resting /\ resting' = resting \ {o}
             /\ pass' = [pass EXCEPT !.step = "mark"]
             /\ fundingFaults' = fundingFaults
          \/ o \notin resting /\ pass' = NextOrder(pass) /\ UNCHANGED <<resting, fundingFaults>>
          \/ FundingFault /\ pass' = NextOrder(pass) /\ UNCHANGED resting
    /\ UNCHANGED <<holdings, holdingsMirror, orderRow, spent, req, moves>>

MarkPredictionIntentAsEvicted ==
    /\ pass.step = "mark"
    /\ pass' = NextOrder(pass)
    /\ \/ orderRow' = [orderRow EXCEPT ![Head(pass.list).order].st = "evicted"] /\ fundingFaults' = fundingFaults
       \/ FundingFault /\ UNCHANGED orderRow
    /\ UNCHANGED <<holdings, holdingsMirror, resting, spent, req, moves>>

-----------------------------------------------------------------------------
Cron == \/ StartPass \/ ReadAvailable \/ ReadOpenOrders \/ ReadBalances \/ validateAndKickout
        \/ CancelRow \/ CancelOnClob \/ MarkPredictionIntentAsEvicted

Request(o) == ReadHeld(o) \/ CheckHeld(o) \/ CreateOrderIntent(o)

FundingNext ==
    \/ HoldingsCatchUp \/ Cron \/ PassFails
    \/ \E a \in Assets : \E n \in 0 .. Funds[a] : Move(a, n)
    \/ \E o \in PlacedOrders : Publish(o) \/ SettleFill(o) \/ FillIsBooked(o) \/ Request(o)

\* The scheduler starts the job again and again and the job never waits for a
\* user; the mirror node and the settlement worker catch up.
FundingSpec == /\ FundingInit /\ [][FundingNext]_fundingVars
        /\ WF_fundingVars(Cron) /\ WF_fundingVars(HoldingsCatchUp)
        /\ \A o \in PlacedOrders : WF_fundingVars(FillIsBooked(o))

-----------------------------------------------------------------------------
FundingTypeOK ==
    /\ holdings \in [Assets -> Nat] /\ holdingsMirror \in [Assets -> Nat]
    /\ \A o \in PlacedOrders :
         /\ orderRow[o].st \in {"none", "open", "cancelled", "evicted"}
         /\ orderRow[o].filled <= spent[o] /\ spent[o] <= Terms[o].qty
    /\ resting \subseteq PlacedOrders

\* What the open orders on an asset can still take from it: fills that have
\* executed no longer count, whether the row knows of them or not.
Demanding(a, S) == {o \in S : Open(o) /\ Asset(o) = a}
Demand(a, S) == SumFunctionOnSet([o \in PlacedOrders |-> Terms[o].qty - spent[o]], Demanding(a, S))
OfMarket(m) == {o \in PlacedOrders : Terms[o].market = m}

\* A SELL is admitted only if the shares held cover it and the other open SELLs
\* of its side, fills on their way through settlement included, as long as
\* nothing changes between the reads of the request and its insertion.
SellCovered ==
    \A o \in PlacedOrders :
        orderRow[o].st = "none" /\ orderRow'[o].st = "open" /\ req[o].quiet /\ Terms[o].action = "SELL"
            => Demand(Asset(o), PlacedOrders)' <= holdings[Asset(o)]
\* What the orders a pass keeps take from an asset.
KeptOf(a) == SumFunctionOnSet([e \in pass.kept |-> e.rem], {e \in pass.kept : Asset(e.order) = a})

\* The funds behind orders (CreatePredictionIntent, cronKickOutUnfunded.go): the
\* orders a pass keeps fit, together, into what it read of the account, and a SELL
\* whose reads nothing disturbed is covered together with the other open SELLs.
OrdersAreBacked ==
    /\ [](\A a \in Assets : KeptOf(a) <= pass.available[a])
    /\ [][SellCovered]_fundingVars

\* However orders were admitted and funds moved: once that stops, the job
\* leaves on every market only orders the account can pay for.
AllBacked == \A m \in FundedMarkets, a \in Assets : Demand(a, OfMarket(m)) <= holdings[a]
=============================================================================
