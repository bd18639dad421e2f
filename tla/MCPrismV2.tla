----------------------------- MODULE MCPrismV2 -----------------------------
(* One market with three traders. *)
EXTENDS PrismV2, TLC

CONSTANTS alice, bob, carol, admin

A(signer, txId, side, action, limit, qty, cap) ==
    [signer |-> signer, marketId |-> "m1", txId |-> txId, side |-> side, action |-> action,
     limitYesPrice |-> limit, qtyShares |-> qty, collateralCap |-> cap, deadline |-> 2, here |-> TRUE]

\* Two buyers that can mint with each other, and the sales that let every
\* position change hands or be merged again.  Alice signed two
\* authorizations with the same nonce.
TradeAuths ==
    { A(alice, "t1", "YES", "BUY", 3, 6, 4),
      A(alice, "t1", "YES", "BUY", 2, 3, 3),
      A(alice, "t2", "YES", "SELL", 1, 4, 0),
      A(bob,   "t1", "NO",  "BUY", 1, 6, 4),
      A(bob,   "t2", "NO",  "SELL", 3, 4, 0),
      A(carol, "t1", "NO",  "BUY", 2, 4, 3),
      A(carol, "t2", "YES", "BUY", 3, 3, 3) }

TradeCancels == {<<bob, "t1">>}
MatchSymmetry == Permutations(MatchIds)

MCRoles == [owner |-> admin, operator |-> admin, oracle |-> admin, dao |-> admin]
TradeWallet == [acct \in Accounts \cup {This} |-> CASE acct = This -> 0 [] acct = admin -> 1 [] OTHER -> 5]
=============================================================================
