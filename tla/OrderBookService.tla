------------------------- MODULE OrderBookService -------------------------
(***************************************************************************)
(* The matching engine as a service, clob/src/orderbook.rs, fed by the     *)
(* order consumer of clob/src/nats.rs.                                     *)
(*                                                                         *)
(* place_order, cancel_order and close_market hold the locks they need     *)
(* from the first read to the last write, so each is one step.             *)
(* add_market reads under one lock and writes under another, so it is two. *)
(***************************************************************************)
EXTENDS Matching, Functions

CONSTANTS
    MarketIds,
    Orders,         \* the orders that arrive, as the API sends them
    MayLosePublish, \* whether five publish attempts in a row can fail
    MaxCreates,     \* bound: add_market calls under way at a time
    MaxTime         \* bound: last time

\* Whatever names an order.
Names == MarketIds \cup UNION {{o.txId, o.evmAddress, o.accountId} : o \in Orders}

ASSUME OrdersAssumption ==
    /\ Orders \subseteq OrderRecord(Names)
    /\ \A o \in Orders :
           /\ o.marketId \in MarketIds
           /\ o.sharesFilled <= o.qtyShares
           /\ o.action = "BUY" => o.collateralFilled <= o.collateralCap
    /\ \A o, p \in Orders : o.txId = p.txId => o = p
    /\ MayLosePublish \in BOOLEAN /\ MaxCreates \in Nat /\ MaxTime \in Nat

VARIABLES
    order_books,    \* the books by market
    TX_ID_LUT,      \* the transaction ids seen, in the order they arrived
    creating,       \* add_market calls between the check and the insert
    tape,           \* every match made, when, and whether it was published
    now

vars == <<order_books, TX_ID_LUT, creating, tape, now>>

EmptyBook == [bids |-> <<>>, asks |-> <<>>]

Init ==
    /\ order_books = <<>>
    /\ TX_ID_LUT = <<>>
    /\ creating = [m \in MarketIds |-> 0]
    /\ tape = <<>>
    /\ now = 0

-----------------------------------------------------------------------------

\* The check of add_market, under the read lock; a market that exists ends the call.
add_market_check(m) ==
    /\ creating[m] < MaxCreates
    /\ m \notin DOMAIN order_books
    /\ creating' = [creating EXCEPT ![m] = @ + 1]
    /\ UNCHANGED <<order_books, TX_ID_LUT, tape, now>>

\* The insert of add_market, under the write lock.
add_market_insert(m) ==
    /\ creating[m] > 0
    /\ creating' = [creating EXCEPT ![m] = @ - 1]
    /\ order_books' = [n \in DOMAIN order_books \cup {m} |-> IF n = m THEN EmptyBook ELSE order_books[n]]
    /\ UNCHANGED <<TX_ID_LUT, tape, now>>

\* publish_match_with_retry gives a match up after five failed attempts.
Outcomes == IF MayLosePublish THEN BOOLEAN ELSE {TRUE}

order_exists(txId) == Contains(TX_ID_LUT, txId)

\* One order message: the duplicate check of the consumer, then place_order.
place_order(o) ==
    LET m == o.marketId
        result == add(order_books[m], o, now)
    IN  /\ ~order_exists(o.txId)
        /\ m \in DOMAIN order_books
        /\ order_books' = [order_books EXCEPT ![m] = result.book]
        /\ \E published \in [1 .. Len(result.matches) -> Outcomes] :
               tape' = tape \o [k \in 1 .. Len(result.matches) |->
                                   [match |-> result.matches[k], published |-> published[k], at |-> now]]
        /\ TX_ID_LUT' = Append(TX_ID_LUT, o.txId)
        /\ UNCHANGED <<creating, now>>

cancel_order(m, txId) ==
    /\ m \in DOMAIN order_books
    /\ remove(order_books[m], txId) # order_books[m]
    /\ order_books' = [order_books EXCEPT ![m] = remove(@, txId)]
    /\ UNCHANGED <<TX_ID_LUT, creating, tape, now>>

close_market(m) ==
    /\ m \in DOMAIN order_books
    /\ order_books' = Restrict(order_books, DOMAIN order_books \ {m})
    /\ UNCHANGED <<TX_ID_LUT, creating, tape, now>>

Tick ==
    /\ now < MaxTime
    /\ now' = now + 1
    /\ UNCHANGED <<order_books, TX_ID_LUT, creating, tape>>

Next ==
    \/ \E m \in MarketIds : add_market_check(m) \/ add_market_insert(m) \/ close_market(m)
    \/ \E o \in Orders : place_order(o) \/ cancel_order(o.marketId, o.txId)
    \/ Tick

Spec == Init /\ [][Next]_vars

-----------------------------------------------------------------------------
(* Properties. *)

Resting(m) == Range(order_books[m].bids) \cup Range(order_books[m].asks)
Open == DOMAIN order_books

\* The books hold orders of their own market on their own side with something
\* left to fill, and no order twice.
TypeOK ==
    /\ Open \subseteq MarketIds
    /\ \A m \in Open :
           /\ \A o \in Range(order_books[m].bids) : is_bid(o)
           /\ \A o \in Range(order_books[m].asks) : ~is_bid(o)
           /\ \A o \in Resting(m) : o.marketId = m /\ remaining_shares(o) > 0
           /\ LET both == order_books[m].bids \o order_books[m].asks
              IN  \A i, j \in 1 .. Len(both) : both[i].txId = both[j].txId => i = j
    /\ creating \in [MarketIds -> 0 .. MaxCreates]
    /\ IsInjective(TX_ID_LUT)
    /\ now \in 0 .. MaxTime

\* What a match takes from an order.
Takes(match, txId) == txId \in {match.bid.txId, match.ask.txId}
SharesTaken(match, txId) == IF Takes(match, txId) THEN match.fillShares ELSE 0
CollateralTaken(match, o) ==
    IF Takes(match, o.txId) THEN leg_collateral(o, match.fillShares, match.executionYesPrice) ELSE 0

\* What the first n matches of the tape have taken from an order.
SharesOnTape(txId, n) == SumFunction([k \in 1 .. n |-> SharesTaken(tape[k].match, txId)])
CollateralOnTape(o, n) == SumFunction([k \in 1 .. n |-> CollateralTaken(tape[k].match, o)])

\* Every fill is at a price both orders accept, and over all its fills no order
\* is filled beyond its quantity and no purchase beyond its collateral cap, though
\* every fill rounds the NO leg up and is judged by the fill state of the order
\* alone (max_fill, matching.rs:47-68).
FillsRespectOrders ==
    /\ \A k \in 1 .. Len(tape) :
           LET match == tape[k].match
           IN  /\ match.ask.limitYesPrice <= match.executionYesPrice
               /\ match.executionYesPrice <= match.bid.limitYesPrice
    /\ \A o \in Orders :
           /\ o.sharesFilled + SharesOnTape(o.txId, Len(tape)) <= o.qtyShares
           /\ o.action = "BUY" => o.collateralFilled + CollateralOnTape(o, Len(tape)) <= o.collateralCap

ArrivedBefore(o, p) ==
    \E i, j \in 1 .. Len(TX_ID_LUT) : i < j /\ TX_ID_LUT[i] = o.txId /\ TX_ID_LUT[j] = p.txId

\* Every reason for which two orders can not be filled against each other.
Unmatchable(bid, ask, resting, incoming) ==
    LET price == execution_price(resting, incoming)
        upper == IF remaining_shares(bid) < remaining_shares(ask)
                 THEN remaining_shares(bid) ELSE remaining_shares(ask)
        admissible(fill) == split_collateral(fill, price) /\ CapsOk(bid, ask, fill, price)
    IN  \/ same_trader(bid, ask)
        \/ Expired(resting, now)
        \/ price = None
        \/ ~ \E fill \in 1 .. upper : admissible(fill)

\* A bid and an ask that cross are left on the book together only when no
\* fill between them is possible: matching an order once, when it arrives,
\* leaves nothing behind, whatever was cut short by a cap, skipped, expired
\* or cancelled since (Book::add, matching.rs:97-172).
CrossedOnlyIfUnmatchable ==
    \A m \in Open : \A bid \in Range(order_books[m].bids), ask \in Range(order_books[m].asks) :
        crosses(bid, ask) =>
            IF ArrivedBefore(bid, ask) THEN Unmatchable(bid, ask, bid, ask)
            ELSE Unmatchable(bid, ask, ask, bid)

\* The match a step puts at place k of the tape left out no order that had the
\* better claim: the better price, or the same price and an earlier arrival.
FilledInTurn(k) ==
    LET match == tape'[k].match
        last == TX_ID_LUT'[Len(TX_ID_LUT')]
        in == IF match.bid.txId = last THEN match.bid ELSE match.ask
        hit == IF match.bid.txId = last THEN match.ask ELSE match.bid
        side == IF is_bid(in) THEN order_books'[in.marketId].asks ELSE order_books'[in.marketId].bids
        better(o) == IF o.limitYesPrice = hit.limitYesPrice THEN ArrivedBefore(o, hit)
                     ELSE (o.limitYesPrice < hit.limitYesPrice) = is_bid(in)
    IN  \A o \in Range(side) :
            better(o) /\ o.txId # hit.txId =>
                IF is_bid(in) THEN Unmatchable(in, o, o, in) ELSE Unmatchable(o, in, o, in)

\* Price-time priority (matching.rs:95): when an arriving order is filled
\* against a resting one, an order that keeps resting with a better price, or
\* with the same price and an earlier arrival, had no fill to offer the
\* arriving order at that point.  The book sorts by price only and re-sorts
\* on every arrival, so the arrival order is nowhere recorded.
PriceTimePriority == [][\A k \in (Len(tape) + 1) .. Len(tape') : FilledInTurn(k)]_vars

\* "prevent overwriting existing market" (orderbook.rs:34): creating a market
\* leaves the books that exist as they are.
BooksNotOverwritten ==
    [][creating' # creating => \A m \in Open : order_books'[m] = order_books[m]]_vars
=============================================================================
