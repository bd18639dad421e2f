---------------------------- MODULE MCSettlement ----------------------------
(* Two fills of one bid against two asks. *)
EXTENDS Settlement, TLC

CONSTANTS m1, m2, bid, ask1, ask2

MCBid == (m1 :> bid) @@ (m2 :> bid)
MCAsk == (m1 :> ask1) @@ (m2 :> ask2)
MCShares == (m1 :> 2) @@ (m2 :> 3)
MCCollateral == [m \in {m1, m2} |-> [o \in {bid, ask1, ask2} |-> IF o = bid THEN 1 ELSE 2]]
MCCap == [o \in {bid, ask1, ask2} |-> 2]
MCPublished == <<m1, m2>>

\* The bid covers both fills.
Covering == (bid :> 5) @@ (ask1 :> 2) @@ (ask2 :> 3)
\* The bid covers either fill: the second message must be refused.
Exceeded == (bid :> 4) @@ (ask1 :> 2) @@ (ask2 :> 3)

WorkerSymmetry == Permutations(Workers)
=============================================================================
