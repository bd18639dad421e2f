------------------------ MODULE MCOrderBookService ------------------------
(* Small instances of OrderBookService for TLC. *)
EXTENDS OrderBookService

O(txId, trader, side, action, limit, qty, cap, deadline) ==
    [txId |-> txId, marketId |-> "m1", evmAddress |-> trader, accountId |-> trader,
     side |-> side, action |-> action, limitYesPrice |-> limit, qtyShares |-> qty,
     collateralCap |-> cap, deadline |-> deadline, sharesFilled |-> 0, collateralFilled |-> 0]

\* Every pairing of the contract, equal prices, a trader on both sides, a
\* purchase whose cap binds before its quantity, an early deadline, a market
\* order on each side and an order restored with part of it filled.
MixedOrders ==
    { O("b1", "alice", "YES", "BUY", 3, 7, 4, 9),
      O("b2", "bob", "NO", "SELL", 4, 5, 0, 9),
      O("a1", "carol", "NO", "BUY", 2, 5, 2, 9),
      O("a2", "dave", "YES", "SELL", 2, 3, 0, 2),
      O("a4", "carol", "YES", "SELL", 1, 3, 0, 9),
      [O("a3", "bob", "NO", "BUY", 0, 6, 4, 9) EXCEPT !.sharesFilled = 2, !.collateralFilled = 1] }

\* A bid and an ask that do not cross, for the run that is about the books.
TwoOrders == {O("b1", "alice", "YES", "BUY", 1, 7, 4, 9), O("a1", "bob", "YES", "SELL", 3, 7, 0, 9)}
=============================================================================
