---------------------------- MODULE MatchLedger ----------------------------
(***************************************************************************)
(* What settlement promises, abstractly.  A fill is executed on chain at   *)
(* most once, it is recorded only after that, and recording it adds it to  *)
(* the fill state of its two orders exactly once.                          *)
(***************************************************************************)
EXTENDS Integers

CONSTANTS
    Matches, Orders,
    Bid, Ask,       \* the two orders of a match
    Shares,         \* shares filled by a match
    Collateral      \* collateral a match takes from an order

Legs(m) == {Bid[m], Ask[m]}

VARIABLES executed, recorded, ledger

ledgerVars == <<executed, recorded, ledger>>

LedgerInit ==
    /\ executed = {}
    /\ recorded = {}
    /\ ledger = [o \in Orders |-> [shares |-> 0, collateral |-> 0]]

Execute(m) ==
    /\ m \notin executed
    /\ executed' = executed \cup {m}
    /\ UNCHANGED <<recorded, ledger>>

\* The fill state of the orders with match m added.
Credited(filled, m) ==
    [o \in Orders |->
        IF o \in Legs(m)
        THEN [shares |-> filled[o].shares + Shares[m],
              collateral |-> filled[o].collateral + Collateral[m][o]]
        ELSE filled[o]]

Record(m) ==
    /\ m \in executed \ recorded
    /\ recorded' = recorded \cup {m}
    /\ ledger' = Credited(ledger, m)
    /\ UNCHANGED executed

LedgerNext == \E m \in Matches : Execute(m) \/ Record(m)

LedgerSpec == LedgerInit /\ [][LedgerNext]_ledgerVars
=============================================================================
