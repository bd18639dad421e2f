----------------------------- MODULE BookRebuild -----------------------------
(***************************************************************************)
(* A market's orders across restarts of the CLOB: intake and outbox, the   *)
(* stream CLOB_ORDERS, the order consumer and the book, the stream         *)
(* CLOB_MATCHES, the table of matches, and TriggerRecreateClob, which a    *)
(* starting CLOB calls to have its book filled from the database.  An old  *)
(* rebuild goes on in the API when the CLOB that asked for it is gone.     *)
(*                                                                         *)
(* Time stands still, so no order expires.  A submission and its final     *)
(* transaction are one step; module Settlement takes them apart.           *)
(***************************************************************************)
EXTENDS Matching, Functions

CONSTANTS
    Orders,     \* the orders that are placed, as signed
    MaxCrashes, \* bound: crashes of the CLOB
    MaxCancels, \* bound: cancellations
    MaxFaults,  \* bound: lost acknowledgements, publications and calls
    MaxEnds     \* bound: acknowledgements that fail

\* An order is known by its txId.
VARIABLES
    intents,     \* prediction_intents and order_outbox, by txId
    orderStream, \* CLOB_ORDERS: order messages not acknowledged yet
    orderIds,    \* message ids seen by CLOB_ORDERS
    clob,        \* [up, life, consumer, market, book, lut, hand, placed, publishing]
    matchStream, \* CLOB_MATCHES: fills to settle
    matchIds,    \* message ids seen by CLOB_MATCHES, with the fill each stood for
    matches,     \* the table: status by fill
    rebuilds,    \* calls of TriggerRecreateClob
    crashes, cancels, faults, ends

vars == <<intents, orderStream, orderIds, clob, matchStream, matchIds, matches, rebuilds,
          crashes, cancels, faults, ends>>
bounds == <<crashes, cancels, faults, ends>>

TxIds == {o.txId : o \in Orders}
Order == [t \in TxIds |-> CHOOSE o \in Orders : o.txId = t]
Fault == faults < MaxFaults /\ faults' = faults + 1

\* f with y at x.
With(f, x, y) == [z \in DOMAIN f \cup {x} |-> IF z = x THEN y ELSE f[z]]

\* The orders as they are signed: nothing filled, and a txId names one order.
OrdersAsSigned ==
    /\ Orders \subseteq OrderRecord(UNION {{o.txId, o.marketId, o.evmAddress, o.accountId} : o \in Orders})
    /\ \A o \in Orders : o.sharesFilled = 0 /\ o.collateralFilled = 0
    /\ \A o, p \in Orders : o.txId = p.txId => o = p

-----------------------------------------------------------------------------
(* Intake and outbox.                                                      *)

CreateOrderIntentRequestWithOutbox(t) ==
    /\ ~intents[t].accepted
    /\ intents' = [intents EXCEPT ![t].accepted = TRUE]
    /\ UNCHANGED <<orderStream, orderIds, clob, matchStream, matchIds, matches, rebuilds, bounds>>

\* The message carries the txId as its id, so a second publication is dropped;
\* the record may stay unmarked, and is then published again.
runOrderOutbox(t, marked) ==
    /\ intents[t].accepted /\ ~intents[t].delivered
    /\ orderStream' = IF t \in orderIds THEN orderStream ELSE Append(orderStream, Order[t])
    /\ orderIds' = orderIds \cup {t}
    /\ intents' = [intents EXCEPT ![t].delivered = marked]
    /\ IF marked THEN UNCHANGED faults ELSE Fault
    /\ UNCHANGED <<clob, matchStream, matchIds, matches, rebuilds, crashes, cancels, ends>>

-----------------------------------------------------------------------------
(* The CLOB.                                                               *)

EmptyBook == [bids |-> <<>>, asks |-> <<>>]
Started(life) == [up |-> TRUE, life |-> life, consumer |-> TRUE, market |-> FALSE, book |-> EmptyBook,
                  lut |-> {}, hand |-> 0, placed |-> TRUE, publishing |-> <<>>]

\* What identifies a fill on chain and in the table (MatchID).
FillOf(m) == [bid |-> m.bid.txId, ask |-> m.ask.txId, bidFilled |-> m.bid.sharesFilled,
              askFilled |-> m.ask.sharesFilled, fill |-> m.fillShares, price |-> m.executionYesPrice]

\* Mutant: a message of an order that was seen before is placed again.
seen_never(t) == FALSE
order_exists(t) == t \in clob.lut

\* The consumer takes a message; redelivery makes any unacknowledged message the
\* next one.  A duplicate is only acknowledged, an order of a market that is not
\* there (yet) is left to be redelivered.
subscribe_and_place_orders(i) ==
    /\ clob.up /\ clob.consumer /\ clob.hand = 0
    /\ i \in DOMAIN orderStream
    /\ \/ /\ order_exists(orderStream[i].txId)
          /\ clob' = [clob EXCEPT !.hand = i, !.placed = TRUE]
       \/ /\ ~order_exists(orderStream[i].txId) /\ clob.market
          /\ clob' = [clob EXCEPT !.hand = i, !.placed = FALSE]
    /\ UNCHANGED <<intents, orderStream, orderIds, matchStream, matchIds, matches, rebuilds, bounds>>

place_order ==
    /\ clob.hand # 0 /\ ~clob.placed
    /\ \E order \in {orderStream[clob.hand]} : \E result \in {add(clob.book, order, 0)} :
           clob' = [clob EXCEPT !.placed = TRUE, !.book = result.book, !.lut = @ \cup {order.txId},
                       !.publishing = [k \in DOMAIN result.matches |-> FillOf(result.matches[k])]]
    /\ UNCHANGED <<intents, orderStream, orderIds, matchStream, matchIds, matches, rebuilds, bounds>>

MessageId(f) == [bid |-> f.bid, ask |-> f.ask, bidFilled |-> f.bidFilled, askFilled |-> f.askFilled]

\* A fill whose id the stream has seen is dropped; after five failures the CLOB
\* gives the fill up.
publish_match_with_retry(ok) ==
    LET f == Head(clob.publishing)
        new == MessageId(f) \notin DOMAIN matchIds
    IN  /\ clob.publishing # <<>>
        /\ clob' = [clob EXCEPT !.publishing = Tail(@)]
        /\ IF ok THEN UNCHANGED faults ELSE Fault
        /\ matchStream' = IF ok /\ new THEN Append(matchStream, f) ELSE matchStream
        /\ matchIds' = IF ok /\ new THEN With(matchIds, MessageId(f), f) ELSE matchIds
        /\ UNCHANGED <<intents, orderStream, orderIds, matches, rebuilds, crashes, cancels, ends>>

\* The acknowledgement arrives, is lost, or returns an error that ends the
\* consumer task while the process lives on.
ack(outcome) ==
    /\ clob.hand # 0 /\ clob.placed /\ clob.publishing = <<>>
    /\ clob' = [clob EXCEPT !.hand = 0, !.consumer = outcome # "error"]
    /\ orderStream' = IF outcome = "ok" THEN RemoveAt(orderStream, clob.hand) ELSE orderStream
    /\ IF outcome = "lost" THEN Fault ELSE UNCHANGED faults
    /\ IF outcome = "error" THEN ends < MaxEnds /\ ends' = ends + 1 ELSE UNCHANGED ends
    /\ UNCHANGED <<intents, orderIds, matchStream, matchIds, matches, rebuilds, crashes, cancels>>

Stopped == [Started(clob.life) EXCEPT !.up = FALSE]
Crash ==
    /\ clob.up /\ crashes < MaxCrashes
    /\ crashes' = crashes + 1
    /\ clob' = Stopped
    /\ UNCHANGED <<intents, orderStream, orderIds, matchStream, matchIds, matches, rebuilds, cancels, faults, ends>>

\* main: the consumer and the gRPC server start, then the rebuild is asked for.
Start ==
    /\ ~clob.up
    /\ clob' = Started(clob.life + 1)
    /\ rebuilds' = Append(rebuilds, [life |-> clob.life + 1, pc |-> "create", todo |-> {}])
    /\ UNCHANGED <<intents, orderStream, orderIds, matchStream, matchIds, matches, bounds>>

-----------------------------------------------------------------------------
(* TriggerRecreateClob.                                                    *)

At(k, pc) == rebuilds[k].pc = pc
Goto(k, pc) == rebuilds' = [rebuilds EXCEPT ![k].pc = pc]

\* An error ends the rebuild, and the CLOB that waits for it exits.
Failed(k) ==
    /\ Goto(k, "failed")
    /\ clob' = IF clob.up /\ clob.life = rebuilds[k].life THEN Stopped ELSE clob

\* create_market fails when the CLOB is down or has the market.
RecreateMarketOnClob(k) ==
    /\ At(k, "create")
    /\ IF clob.up /\ ~clob.market
       THEN Goto(k, "read") /\ clob' = [clob EXCEPT !.market = TRUE]
       ELSE Failed(k)
    /\ UNCHANGED <<intents, orderStream, orderIds, matchStream, matchIds, matches, bounds>>

IsOpen(t) == intents[t].accepted /\ ~intents[t].cancelled /\ intents[t].sharesFilled < Order[t].qtyShares

\* The open orders with the fill state of their rows.
GetAllOpenPredictionIntentsByMarketId(k) ==
    /\ At(k, "read")
    /\ rebuilds' = [rebuilds EXCEPT ![k].pc = "loop", ![k].todo =
           {[Order[t] EXCEPT !.sharesFilled = intents[t].sharesFilled,
                             !.collateralFilled = intents[t].collateralFilled] : t \in {u \in TxIds : IsOpen(u)}}]
    /\ UNCHANGED <<intents, orderStream, orderIds, clob, matchStream, matchIds, matches, bounds>>

Of(t) == {f \in DOMAIN matches : t \in {f.bid, f.ask}}
Shares(fills) == SumFunctionOnSet([f \in fills |-> f.fill], fills)
Collateral(o, fills) == SumFunctionOnSet([f \in fills |-> leg_collateral(o, f.fill, f.price)], fills)

\* The fills with a row that is not finalized are added.
Counted(o) ==
    LET unsettled == {f \in Of(o.txId) : matches[f] # "finalized"}
    IN  [o EXCEPT !.sharesFilled = @ + Shares(unsettled),
                  !.collateralFilled = @ + Collateral(o, unsettled)]

\* The matches of one order are read and, if anything is left of it, the order
\* is published, without a message id.
TriggerRecreateClob(k, o) ==
    /\ At(k, "loop") /\ o \in rebuilds[k].todo
    /\ rebuilds' = [rebuilds EXCEPT ![k].todo = @ \ {o}]
    /\ orderStream' = IF Counted(o).sharesFilled >= o.qtyShares THEN orderStream
                      ELSE Append(orderStream, Counted(o))
    /\ UNCHANGED <<intents, orderIds, clob, matchStream, matchIds, matches, bounds>>

RebuildDone(k) ==
    /\ At(k, "loop") /\ rebuilds[k].todo = {}
    /\ Goto(k, "done")
    /\ UNCHANGED <<intents, orderStream, orderIds, clob, matchStream, matchIds, matches, bounds>>

\* A query or a publication of the rebuild fails.
RebuildFails(k) ==
    /\ ~At(k, "done") /\ ~At(k, "failed") /\ Fault
    /\ Failed(k)
    /\ UNCHANGED <<intents, orderStream, orderIds, matchStream, matchIds, matches, crashes, cancels, ends>>

-----------------------------------------------------------------------------
(* Cancellation and settlement.                                            *)

\* The row, then the book (module CancelOrder takes the steps apart).
CancelPredictionIntentNoSigCheck(t) ==
    /\ intents[t].accepted /\ ~intents[t].cancelled /\ clob.publishing = <<>>
    /\ cancels < MaxCancels
    /\ cancels' = cancels + 1
    /\ intents' = [intents EXCEPT ![t].cancelled = TRUE]
    /\ clob' = [clob EXCEPT !.book = remove(@, t)]
    /\ UNCHANGED <<orderStream, orderIds, matchStream, matchIds, matches, rebuilds, crashes, faults, ends>>

\* MaxAckPending(1): the fills are settled one after the other.
Next1 == Head(matchStream)

CreateMatchV2 ==
    /\ matchStream # <<>> /\ Next1 \notin DOMAIN matches
    /\ matches' = With(matches, Next1, "pending")
    /\ UNCHANGED <<intents, orderStream, orderIds, clob, matchStream, matchIds, rebuilds, bounds>>

Settleable(t, f) ==
    /\ ~intents[t].cancelled
    /\ intents[t].sharesFilled + f.fill <= Order[t].qtyShares
    /\ Order[t].action = "BUY" =>
           intents[t].collateralFilled + leg_collateral(Order[t], f.fill, f.price) <= Order[t].collateralCap

\* settleMatchV2: an admissible fill executes and is finalized, any other is
\* rejected and its message terminated.
settleMatchV2 ==
    LET f == Next1
        legs == {f.bid, f.ask}
    IN  /\ matchStream # <<>> /\ f \in DOMAIN matches
        /\ matchStream' = Tail(matchStream)
        /\ IF \A t \in legs : Settleable(t, f)
           THEN /\ matches' = [matches EXCEPT ![f] = "finalized"]
                /\ intents' = [t \in TxIds |->
                       IF t \in legs
                       THEN [intents[t] EXCEPT !.sharesFilled = @ + f.fill,
                                !.collateralFilled = @ + leg_collateral(Order[t], f.fill, f.price)]
                       ELSE intents[t]]
           ELSE /\ matches' = [matches EXCEPT ![f] = "failed"]
                /\ UNCHANGED intents
        /\ UNCHANGED <<orderStream, orderIds, clob, matchIds, rebuilds, bounds>>

\* The submission fails: the row says so and the message comes again.
SettleFails ==
    /\ matchStream # <<>> /\ Next1 \in DOMAIN matches /\ matches[Next1] = "pending" /\ Fault
    /\ matches' = [matches EXCEPT ![Next1] = "failed"]
    /\ UNCHANGED <<intents, orderStream, orderIds, clob, matchStream, matchIds, rebuilds, crashes, cancels, ends>>

-----------------------------------------------------------------------------

Init ==
    /\ intents = [t \in TxIds |-> [accepted |-> FALSE, delivered |-> FALSE, cancelled |-> FALSE,
                                   sharesFilled |-> 0, collateralFilled |-> 0]]
    /\ orderStream = <<>> /\ orderIds = {}
    /\ clob = [Started(1) EXCEPT !.market = TRUE]
    /\ matchStream = <<>> /\ matchIds = <<>> /\ matches = <<>>
    /\ rebuilds = <<>>
    /\ crashes = 0 /\ cancels = 0 /\ faults = 0 /\ ends = 0

Rebuild(k) ==
    \/ RecreateMarketOnClob(k) \/ GetAllOpenPredictionIntentsByMarketId(k)
    \/ \E o \in rebuilds[k].todo : TriggerRecreateClob(k, o)
    \/ RebuildDone(k)

ClobWorks ==
    \/ \E i \in DOMAIN orderStream : subscribe_and_place_orders(i)
    \/ publish_match_with_retry(TRUE) \/ ack("ok")
OutboxWorks == \E t \in TxIds : runOrderOutbox(t, TRUE)
RebuildWorks == \E k \in DOMAIN rebuilds : Rebuild(k)

Next ==
    \/ \E t \in TxIds : \/ CreateOrderIntentRequestWithOutbox(t)
                        \/ runOrderOutbox(t, FALSE)
                        \/ CancelPredictionIntentNoSigCheck(t)
    \/ OutboxWorks \/ ClobWorks \/ place_order
    \/ publish_match_with_retry(FALSE) \/ ack("lost") \/ ack("error")
    \/ Crash \/ Start
    \/ RebuildWorks \/ \E k \in DOMAIN rebuilds : RebuildFails(k)
    \/ CreateMatchV2 \/ settleMatchV2 \/ SettleFails

\* WF_vars(place_order), in a form that is cheap to evaluate: the step is enabled
\* exactly until it is taken or the CLOB stops.
Placing == []<>(clob.hand = 0 \/ clob.placed)

\* The outbox ticks every second, the container runtime restarts the CLOB, its
\* consumer and the API's call go on.
Spec == /\ Init /\ [][Next]_vars
        /\ WF_vars(OutboxWorks) /\ WF_vars(ClobWorks) /\ Placing
        /\ WF_vars(Start) /\ WF_vars(RebuildWorks)

-----------------------------------------------------------------------------
(* Properties. *)

Resting == clob.book.bids \o clob.book.asks

\* An order rests in the book once, though its outbox message, redeliveries and
\* the messages of overlapping rebuilds may all be in the stream (TX_ID_LUT).
EnteredOnce == \A i, j \in DOMAIN Resting : Resting[i].txId = Resting[j].txId => i = j

\* A rebuild counts no fill twice, though a fill may be finalized between its
\* reading of the order and of the order's matches: no message claims more fills
\* than there are rows (the loop of TriggerRecreateClob).
NothingCountedTwice ==
    \A i \in DOMAIN orderStream : orderStream[i].sharesFilled <= Shares(Of(orderStream[i].txId))

Finalized(t) == {f \in Of(t) : matches[f] = "finalized"}

\* Whatever a rebuilt book offers again, no order is settled beyond its quantity
\* or cap, and its row counts its finalized fills (settleMatchV2).
SettledWithinOrder ==
    \A t \in TxIds :
        /\ intents[t].sharesFilled <= Order[t].qtyShares
        /\ Order[t].action = "BUY" => intents[t].collateralFilled <= Order[t].collateralCap
        /\ intents[t].sharesFilled = Shares(Finalized(t))

\* What a rebuild must not break, however rebuilds, redeliveries and crashes
\* overlap.
RebuildIsSafe == EnteredOnce /\ NothingCountedTwice /\ SettledWithinOrder

\* An open order of which a rebuild sees something left.
Restorable(t) == IsOpen(t) /\ Counted([Order[t] EXCEPT !.sharesFilled = intents[t].sharesFilled]).sharesFilled < Order[t].qtyShares

Known(t) == Restorable(t) => t \in clob.lut

=============================================================================
