------------------------------ MODULE TxConfirm ------------------------------
(***************************************************************************)
(* How the web client learns what became of a transaction it submitted     *)
(* (src/web/lib/hedera.ts): the receipt of a node raced with polls of the  *)
(* mirror node.                                                            *)
(***************************************************************************)
EXTENDS Naturals

Fates == {"none", "done", "reverted"}

\* One poll: the rows of the transaction, read as a failure if any row is one.
Verdict(rows) ==
    IF rows \ {"SUCCESS"} # {} THEN "failed"
    ELSE IF rows = {} THEN "pending" ELSE "success"

\* The rows the mirror node may have by the time of the last poll: none yet,
\* or the transaction and the calls it made.
MirrorRows(fate) ==
    CASE fate = "none"     -> {{}}
      [] fate = "done"     -> {{}, {"SUCCESS"}}
      [] fate = "reverted" -> {{}, {"CONTRACT_REVERT_EXECUTED"}, {"SUCCESS", "CONTRACT_REVERT_EXECUTED"}}

\* What the polls come to within 45 s.
waitForMirrorTxResult(fate) == {Verdict(rows) : rows \in MirrorRows(fate)}

\* The browser reaches a node or it does not.
Receipt(fate) ==
    CASE fate = "none"     -> {"error"}
      [] fate = "done"     -> {"error", "success"}
      [] fate = "reverted" -> {"error", "failed"}

\* Promise.any: the first success wins; else the failure the chain reports,
\* else that nothing is known yet.
Settle(receipt, mirror) ==
    IF "success" \in {receipt, mirror} THEN "success" ELSE mirror

confirmTx(fate) ==
    {Settle(receipt, mirror) : receipt \in Receipt(fate), mirror \in waitForMirrorTxResult(fate)}
=============================================================================
