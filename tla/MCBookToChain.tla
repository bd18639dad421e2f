--------------------------- MODULE MCBookToChain ---------------------------
(***************************************************************************)
(* Two small deployments, one of which is chosen at the start: "book", the *)
(* matching engine in front of the contract, where two traders buy a       *)
(* complete set and both sides of it are sold on; and "markets", the       *)
(* contract alone with two markets that share its aggregate reserve, roles *)
(* that change hands, and calls it must refuse.                            *)
(***************************************************************************)
EXTENDS BookToChain, TLC

CONSTANTS alice, bob, carol, admin, x1, x2

VARIABLE deployment

O(txId, trader, side, action, limit, qty, cap, deadline) ==
    [txId |-> txId, marketId |-> "m1", evmAddress |-> trader, accountId |-> trader,
     side |-> side, action |-> action, limitYesPrice |-> limit, qtyShares |-> qty,
     collateralCap |-> cap, deadline |-> deadline, sharesFilled |-> 0, collateralFilled |-> 0]

MCOrders ==
    { O("b1", alice, "YES", "BUY", 3, 5, 3, 3),
      O("a1", bob, "NO", "BUY", 2, 6, 4, 9),
      O("b2", carol, "YES", "BUY", 4, 4, 3, 9),
      O("a2", alice, "YES", "SELL", 1, 3, 0, 9),
      O("b3", bob, "NO", "SELL", 2, 4, 0, 9) }

MCRoles == [owner |-> admin, operator |-> admin, oracle |-> admin, dao |-> admin]
MCWallet == [acct \in Accounts \cup {This} |-> IF acct = carol THEN 2 ELSE 6]

-----------------------------------------------------------------------------
(* Two markets: both can be traded in, one of the authorizations was never *)
(* signed and one was signed for another contract.                         *)

BuyYes == [signer |-> alice, marketId |-> "m1", txId |-> "t1", side |-> "YES", action |-> "BUY",
           limitYesPrice |-> 3, qtyShares |-> 2, collateralCap |-> 2, deadline |-> 2, here |-> TRUE]
BuyNo == [BuyYes EXCEPT !.signer = bob, !.side = "NO", !.limitYesPrice = 1]
InSecond(auth) == [auth EXCEPT !.marketId = "m2", !.txId = "t2"]

MarketSigned == {BuyYes, BuyNo, InSecond(BuyYes), InSecond(BuyNo), [BuyNo EXCEPT !.here = FALSE]}
MarketWallet == (This :> 0) @@ (admin :> 1) @@ (alice :> 5) @@ (bob :> 5)

Two == INSTANCE PrismV2 WITH
    Accounts <- {alice, bob, admin}, MarketIds <- {"m1", "m2"}, TxIds <- {"t1", "t2"}, MatchIds <- {x1, x2},
    Auths <- MarketSigned \cup {[BuyYes EXCEPT !.limitYesPrice = 2]}, Signed <- MarketSigned,
    InitialWallet <- MarketWallet, RoleArgs <- {alice}, RakeArgs <- {0, 6}, CloseTimes <- {2},
    FillArgs <- {2}, PriceArgs <- {2, 4}, CancelArgs <- {}, Donors <- {}, MaxTime <- 2

MatchSymmetry == Permutations({x1, x2})

DeployedInit ==
    \/ deployment = "book" /\ BothInit
    \/ deployment = "markets" /\ Two!Init /\ order_books = <<>> /\ TX_ID_LUT = {} /\ creating = <<>> /\ tape = <<>> /\ handled = 0

DeployedNext ==
    \/ deployment = "book" /\ BothNext /\ UNCHANGED deployment
    \/ deployment = "markets" /\ Two!Next /\ UNCHANGED <<bookVars, handled, deployment>>

DeployedSpec == DeployedInit /\ [][DeployedNext]_<<allVars, deployment>>

-----------------------------------------------------------------------------
(* Properties: those of BookToChain and of PrismV2, each where it applies. *)

\* Each market's totals and reserve, and the reserve the markets share, are
\* the sums of what they stand for (PrismV2.sol:295-420).
TotalsAreSums == deployment = "markets" => Two!TotalsAreSums
=============================================================================
