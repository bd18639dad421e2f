----------------------------- MODULE Matching -----------------------------
(***************************************************************************)
(* The matching rules of the order book, clob/src/matching.rs, as pure     *)
(* operators.  The book is quoted in YES price: bids buy YES exposure (BUY *)
(* YES or SELL NO), asks sell it.  An order is a record that carries its   *)
(* own fill state.                                                         *)
(***************************************************************************)
EXTENDS Integers, Sequences, SequencesExt, FiniteSets

CONSTANTS PRICE_SCALE, DEADLINE_MARGIN_SECS

ASSUME MatchingAssumption ==
    /\ PRICE_SCALE \in Nat \ {0}
    /\ DEADLINE_MARGIN_SECS \in Nat

\* CreateOrderRequestClob; transaction ids, markets, addresses and accounts are
\* names.
OrderRecord(names) ==
    [txId : names, marketId : names, evmAddress : names, accountId : names,
     side : {"YES", "NO"}, action : {"BUY", "SELL"}, limitYesPrice : 0 .. PRICE_SCALE,
     qtyShares : Nat, collateralCap : Nat, deadline : Nat,
     sharesFilled : Nat, collateralFilled : Nat]

\* Rust's None.
None == -1

is_bid(o) == \/ o.side = "YES" /\ o.action = "BUY"
             \/ o.side = "NO" /\ o.action = "SELL"

remaining_shares(o) == IF o.qtyShares >= o.sharesFilled THEN o.qtyShares - o.sharesFilled ELSE 0

YesLeg(fill, price) == (fill * price) \div PRICE_SCALE

\* Whether both legs of the split are paid; the split itself is YesLeg and the rest.
split_collateral(fill, price) ==
    /\ fill # 0 /\ price # 0 /\ price < PRICE_SCALE
    /\ YesLeg(fill, price) # 0
    /\ fill - YesLeg(fill, price) # 0

leg_collateral(o, fill, price) ==
    IF o.side = "YES" THEN YesLeg(fill, price) ELSE fill - YesLeg(fill, price)

\* Mutant: earlier fills do not count against the cap.
within_cap_once(o, fill, price) ==
    o.action = "BUY" => leg_collateral(o, fill, price) <= o.collateralCap

within_cap(o, fill, price) ==
    o.action = "BUY" => o.collateralFilled + leg_collateral(o, fill, price) <= o.collateralCap

CapsOk(bid, ask, fill, price) == within_cap(bid, fill, price) /\ within_cap(ask, fill, price)

\* Mutant: all of upper or nothing.
all_or_nothing(bid, ask, price, upper) ==
    IF upper = 0 \/ price = 0 \/ price >= PRICE_SCALE THEN None
    ELSE IF split_collateral(upper, price) /\ CapsOk(bid, ask, upper, price) THEN upper ELSE None

\* The largest fill the caps and the contract admit, None if there is none.  The
\* code finds it by a binary search: MaxFill runs that loop, and ClobProofs
\* proves that it returns this value.
max_fill(bid, ask, price, upper) ==
    LET admissible == {fill \in 1 .. upper : split_collateral(fill, price) /\ CapsOk(bid, ask, fill, price)}
    IN  IF admissible = {} THEN None
        ELSE CHOOSE fill \in admissible : \A other \in admissible : other <= fill

\* The resting order's limit, unless it is the edge of the range.
execution_price(resting, incoming) ==
    LET usable(p) == p > 0 /\ p < PRICE_SCALE
    IN  IF usable(resting.limitYesPrice) THEN resting.limitYesPrice
        ELSE IF usable(incoming.limitYesPrice) THEN incoming.limitYesPrice
        ELSE None

same_trader(a, b) == a.evmAddress = b.evmAddress \/ a.accountId = b.accountId

crosses(bid, ask) == bid.limitYesPrice >= ask.limitYesPrice

\* Mutant: no time is left to settle.
ExpiredExactly(o, now) == o.deadline <= now

Expired(o, now) == o.deadline <= now + DEADLINE_MARGIN_SECS

-----------------------------------------------------------------------------
(* Book::add *)

\* Mutant: of equal prices the newest first.
NewestFirst(orders, asAsks) ==
    LET better(i, j) ==
            IF orders[i].limitYesPrice = orders[j].limitYesPrice THEN i > j
            ELSE (orders[i].limitYesPrice < orders[j].limitYesPrice) = asAsks
    IN  [k \in 1 .. Len(orders) |->
            orders[CHOOSE i \in 1 .. Len(orders) :
                       Cardinality({j \in 1 .. Len(orders) : better(j, i)}) = k - 1]]

\* Whether the order at i is visited before the one at j: the better price for
\* the other side, and the earlier one of equal prices.
Better(orders, asAsks, i, j) ==
    IF orders[i].limitYesPrice = orders[j].limitYesPrice THEN i < j
    ELSE IF asAsks THEN orders[i].limitYesPrice < orders[j].limitYesPrice
    ELSE orders[j].limitYesPrice < orders[i].limitYesPrice

\* The stable sort.
BestFirst(orders, asAsks) ==
    [k \in 1 .. Len(orders) |->
        orders[CHOOSE i \in 1 .. Len(orders) :
                   Cardinality({j \in 1 .. Len(orders) : Better(orders, asAsks, j, i)}) = k - 1]]

Filled(o, fill, price) ==
    [o EXCEPT !.sharesFilled = @ + fill,
              !.collateralFilled = @ + leg_collateral(o, fill, price)]

\* One visit of the loop.  acc.stopped is the break, acc.kept what the visited
\* part of the opposite side has become.
Visit(acc, resting, now) ==
    LET incoming == acc.incoming
        bid == IF is_bid(incoming) THEN incoming ELSE resting
        ask == IF is_bid(incoming) THEN resting ELSE incoming
        price == execution_price(resting, incoming)
        upper == IF remaining_shares(incoming) < remaining_shares(resting)
                 THEN remaining_shares(incoming) ELSE remaining_shares(resting)
        fill == max_fill(bid, ask, price, upper)
        kept == [acc EXCEPT !.kept = Append(@, resting)]
        after == Filled(resting, fill, price)
    IN  IF acc.stopped \/ remaining_shares(incoming) = 0 THEN kept
        ELSE IF Expired(resting, now) THEN acc
        ELSE IF ~crosses(bid, ask) THEN [kept EXCEPT !.stopped = TRUE]
        ELSE IF same_trader(incoming, resting) THEN kept
        ELSE IF price = None THEN kept
        ELSE IF fill = None THEN kept
        ELSE [stopped |-> FALSE,
              incoming |-> Filled(incoming, fill, price),
              kept |-> IF remaining_shares(after) = 0 THEN acc.kept ELSE Append(acc.kept, after),
              matches |-> Append(acc.matches,
                  [bid |-> bid, ask |-> ask, fillShares |-> fill, executionYesPrice |-> price])]

\* What k visits have come to, best price first.
Walk(incoming, queue, now) ==
    LET acc[k \in 0 .. Len(queue)] ==
            IF k = 0 THEN [stopped |-> FALSE, incoming |-> incoming, kept |-> <<>>, matches |-> <<>>]
            ELSE Visit(acc[k - 1], queue[k], now)
    IN  acc

\* The new book and the matches, each with both orders' state before the fill.
add(book, incoming, now) ==
    LET opposite == IF is_bid(incoming) THEN book.asks ELSE book.bids
        same_side == IF is_bid(incoming) THEN book.bids ELSE book.asks
        end == Walk(incoming, BestFirst(opposite, is_bid(incoming)), now)[Len(opposite)]
        rested == IF remaining_shares(end.incoming) > 0 THEN Append(same_side, end.incoming) ELSE same_side
    IN  IF Expired(incoming, now) \/ remaining_shares(incoming) = 0
        THEN [book |-> book, matches |-> <<>>]
        ELSE [book |-> IF is_bid(incoming) THEN [bids |-> rested, asks |-> end.kept]
                       ELSE [bids |-> end.kept, asks |-> rested],
              matches |-> end.matches]

\* Book::remove takes the first order with that id, bids before asks.
remove(book, txId) ==
    LET isIt(o) == o.txId = txId
        without(side) == RemoveFirstMatch(side, isIt)
    IN  IF without(book.bids) # book.bids THEN [book EXCEPT !.bids = without(@)]
        ELSE [book EXCEPT !.asks = without(@)]
=============================================================================
