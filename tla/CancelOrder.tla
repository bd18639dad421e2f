----------------------------- MODULE CancelOrder -----------------------------
(***************************************************************************)
(* Cancelling an open order from the portfolio: the confirmation dialog,   *)
(* the signature over the order's id, the API's CancelPredictionIntent and *)
(* its two effects, the row in prediction_intents and the order in the     *)
(* CLOB.  Meanwhile orders travel from the outbox through the stream into  *)
(* the book and are filled there, the wallet switches accounts, and the    *)
(* page is left and opened again.                                          *)
(***************************************************************************)
EXTENDS Integers, FiniteSets, Sequences

CONSTANTS
    Traders, Intents,
    Owner,      \* Owner[o]: the account that placed o
    Sells,      \* the orders that close a position
    MaxCancelCalls, MaxPageLeaves, MaxSwitches, MaxCancelFaults, MaxRedeliveries, \* bounds
    NoIntent

VARIABLES
    cancelRow,  \* prediction_intents: "open", "cancelled" or "matched"
    msg,        \* the order's message: "outbox", "stream" or "acked"
    cancelBook, lut, \* the CLOB: resting orders, ids it has seen
    wallet,     \* [signer, info]: the bound account and the key looked up for it
    page,       \* Portfolio: [mount, shown, orderToCancel, isLoading]
    cancelCalls, \* cancellations, in the order they were confirmed
    signed,     \* ghost: the accounts whose key signed the message of an order
    accountSwitches, cancelFaults, redeliveries

serviceVars == <<cancelRow, msg, cancelBook, lut, redeliveries>>
clientVars == <<wallet, page, cancelCalls, signed, accountSwitches, cancelFaults>>
cancelVars == <<serviceVars, clientVars>>

CancelFault == cancelFaults < MaxCancelFaults /\ cancelFaults' = cancelFaults + 1

-----------------------------------------------------------------------------
(* Outbox, stream and book.                                                *)

publishIntent(o) ==
    /\ msg[o] = "outbox"
    /\ msg' = [msg EXCEPT ![o] = "stream"]
    /\ UNCHANGED <<cancelRow, cancelBook, lut, redeliveries, clientVars>>

place_unseen(o) ==
    cancelBook' = IF o \in lut THEN cancelBook ELSE cancelBook \cup {o}

\* The consumer places an order it has not seen; the acknowledgement may be
\* lost, and the message then comes again.
consumeIntent(o, acked) ==
    /\ msg[o] = "stream"
    /\ acked \/ redeliveries < MaxRedeliveries
    /\ redeliveries' = IF acked THEN redeliveries ELSE redeliveries + 1
    /\ msg' = [msg EXCEPT ![o] = IF acked THEN "acked" ELSE @]
    /\ place_unseen(o)
    /\ lut' = lut \cup {o}
    /\ UNCHANGED <<cancelRow, clientVars>>

\* The order is filled in the book; its row follows when the fill is final.
FillOnClob(o) ==
    /\ o \in cancelBook
    /\ cancelBook' = cancelBook \ {o}
    /\ UNCHANGED <<cancelRow, msg, lut, redeliveries, clientVars>>

FilledOnClob(o) == o \in lut /\ o \notin cancelBook
AddPredictionIntentFill(o) ==
    /\ FilledOnClob(o) /\ cancelRow[o] = "open"
    /\ cancelRow' = [cancelRow EXCEPT ![o] = "matched"]
    /\ UNCHANGED <<msg, cancelBook, lut, redeliveries, clientVars>>

-----------------------------------------------------------------------------
(* Wallet and page.                                                        *)

\* Another account is bound.  The key of the lookup may be missing, or still
\* be the one of the account before (WalletSession).
SwitchAccount(a, info) ==
    /\ accountSwitches < MaxSwitches /\ a # wallet.signer
    /\ info \in {NoIntent, a, wallet.info}
    /\ accountSwitches' = accountSwitches + 1
    /\ wallet' = [signer |-> a, info |-> info]
    /\ UNCHANGED <<serviceVars, page, cancelCalls, signed, cancelFaults>>

\* refresh: the open rows, and the sells the book still holds.
Listed(a) ==
    {o \in Intents : Owner[o] = a /\ (cancelRow[o] = "open" \/ o \in cancelBook \cap Sells)}
refreshPortfolio ==
    /\ page.shown # Listed(wallet.signer)
    /\ page' = [page EXCEPT !.shown = Listed(wallet.signer)]
    /\ UNCHANGED <<serviceVars, wallet, cancelCalls, signed, accountSwitches, cancelFaults>>

onRequestCancel(o) ==
    /\ o \in page.shown /\ page.orderToCancel = NoIntent
    /\ page' = [page EXCEPT !.orderToCancel = o]
    /\ UNCHANGED <<serviceVars, wallet, cancelCalls, signed, accountSwitches, cancelFaults>>

\* "Keep Order" is disabled while cancelling; Escape and the overlay are not.
onOpenChange ==
    /\ page.orderToCancel # NoIntent
    /\ page' = [page EXCEPT !.orderToCancel = NoIntent]
    /\ UNCHANGED <<serviceVars, wallet, cancelCalls, signed, accountSwitches, cancelFaults>>

FreshPage(mount) ==
    [mount |-> mount, shown |-> {}, orderToCancel |-> NoIntent, isLoading |-> FALSE]

\* The route changes while a cancellation runs: it goes on without a page.
LeavePage ==
    /\ page.mount <= MaxPageLeaves /\ page.isLoading
    /\ page' = FreshPage(page.mount + 1)
    /\ UNCHANGED <<serviceVars, wallet, cancelCalls, signed, accountSwitches, cancelFaults>>

NewCancel ==
    [mount |-> page.mount, order |-> page.orderToCancel, account |-> wallet.signer,
     key |-> wallet.info, sig |-> NoIntent, answer |-> "none",
     step |-> IF wallet.info = NoIntent THEN "lookup" ELSE "signing"]

\* handleConfirm and the start of handleCancelOrder: signer, key and order are
\* those of this render.
handleConfirm ==
    /\ page.orderToCancel # NoIntent /\ ~page.isLoading
    /\ Len(cancelCalls) < MaxCancelCalls
    /\ page' = [page EXCEPT !.isLoading = TRUE]
    /\ cancelCalls' = Append(cancelCalls, NewCancel)
    /\ UNCHANGED <<serviceVars, wallet, signed, accountSwitches, cancelFaults>>

StandsAt(i, step) == i \in DOMAIN cancelCalls /\ cancelCalls[i].step = step
SetCancel(i, step, answer) ==
    cancelCalls' = [cancelCalls EXCEPT ![i].step = step, ![i].answer = answer]

\* getUserAccountInfo on demand, for the signer's account.
handleCancelOrder(i, found) ==
    /\ StandsAt(i, "lookup")
    /\ cancelCalls' = [cancelCalls EXCEPT
           ![i].step = IF found THEN "signing" ELSE "answered",
           ![i].key = IF found THEN cancelCalls[i].account ELSE NoIntent,
           ![i].answer = IF found THEN "none" ELSE "no_key"]
    /\ IF found THEN cancelFaults' = cancelFaults ELSE CancelFault
    /\ UNCHANGED <<serviceVars, wallet, page, signed, accountSwitches>>

-----------------------------------------------------------------------------
(* The signature.                                                          *)

\* The bytes hashed in each mode, and the message the wallet signs.
PayloadBytes(txId, mode) ==
    CASE mode = "empty"           -> <<"bytes">>
      [] mode = "uuid-bytes"      -> <<"bytes", "uuid", txId>>
      [] mode = "utf8-no-hyphens" -> <<"bytes", "bare", txId>>
      [] mode \in {"base64-uuid", "base64-uuid-hash"} -> <<"bytes", "base64", txId>>
      [] OTHER                    -> <<"bytes", "utf8", txId>>

DEFAULT_CANCEL_PAYLOAD_MODE == "utf8-hyphenated"

buildCancelSigningPayload(txId, mode) ==
    IF mode = "base64-uuid" THEN PayloadBytes(txId, mode)
    ELSE <<"keccak", PayloadBytes(txId, mode)>>

\* VerifySig rebuilds the message from the id of the request.
VerifySig(key, txId, sig) ==
    sig = [by |-> key, message |-> <<"keccak", <<"bytes", "utf8", txId>>>>]

\* The wallet signs with the signer's key and the request goes out.
submitSignedCancel(i) ==
    /\ StandsAt(i, "signing")
    /\ cancelCalls' = [cancelCalls EXCEPT ![i].step = "sent", ![i].sig =
           [by |-> cancelCalls[i].account,
            message |-> buildCancelSigningPayload(cancelCalls[i].order, DEFAULT_CANCEL_PAYLOAD_MODE)]]
    /\ signed' = signed \cup {<<cancelCalls[i].account, cancelCalls[i].order>>}
    /\ UNCHANGED <<serviceVars, wallet, page, accountSwitches, cancelFaults>>

\* signWithWallet: the user refuses, or the wallet does not answer in time.
CancelNotSigned(i) ==
    /\ StandsAt(i, "signing")
    /\ SetCancel(i, "answered", "not_signed")
    /\ UNCHANGED <<serviceVars, wallet, page, signed, accountSwitches, cancelFaults>>

-----------------------------------------------------------------------------
(* The API.                                                                *)

\* Mutant: the order's owner is not compared with the account.
refusalOfAnyone(c) ==
    IF c.key # c.account THEN "public_key_mismatch"
    ELSE IF cancelRow[c.order] = "cancelled" THEN "already_cancelled"
    ELSE IF ~VerifySig(c.key, c.order, c.sig) THEN "invalid_signature"
    ELSE "none"

\* The guards of CancelPredictionIntent in their order; a matched order passes.
Refusal(c) ==
    IF c.key # c.account THEN "public_key_mismatch"
    ELSE IF Owner[c.order] # c.account THEN "does_not_own"
    ELSE IF cancelRow[c.order] = "cancelled" THEN "already_cancelled"
    ELSE IF ~VerifySig(c.key, c.order, c.sig) THEN "invalid_signature"
    ELSE "none"

CancelPredictionIntent(i) ==
    /\ StandsAt(i, "sent")
    /\ IF Refusal(cancelCalls[i]) = "none"
       THEN SetCancel(i, "verified", "none")
       ELSE SetCancel(i, "answered", Refusal(cancelCalls[i]))
    /\ UNCHANGED <<serviceVars, wallet, page, signed, accountSwitches, cancelFaults>>

\* The row is cancelled if it is still open; the number of rows is not looked at.
MarkCancelled(i) ==
    /\ StandsAt(i, "verified")
    /\ cancelRow' = [cancelRow EXCEPT ![cancelCalls[i].order] =
           IF @ = "open" THEN "cancelled" ELSE @]
    /\ SetCancel(i, "marked", "none")
    /\ UNCHANGED <<msg, cancelBook, lut, redeliveries, wallet, page, signed, accountSwitches,
                   cancelFaults>>

\* cancel_order of the CLOB: NotFound when the order does not rest in the book.
cancel_order(i) ==
    /\ StandsAt(i, "marked")
    /\ cancelBook' = cancelBook \ {cancelCalls[i].order}
    /\ SetCancel(i, "answered", IF cancelCalls[i].order \in cancelBook THEN "ok" ELSE "not_found")
    /\ UNCHANGED <<cancelRow, msg, lut, redeliveries, wallet, page, signed, accountSwitches,
                   cancelFaults>>

\* The CLOB cannot be reached.
ClobFails(i) ==
    /\ StandsAt(i, "marked") /\ CancelFault
    /\ SetCancel(i, "answered", "clob")
    /\ UNCHANGED <<serviceVars, wallet, page, signed, accountSwitches>>

-----------------------------------------------------------------------------
\* handleConfirm: success closes the dialog, whatever it shows by now; the
\* finally clause re-enables the buttons.
Done(u, ok) == [u EXCEPT !.orderToCancel = IF ok THEN NoIntent ELSE @, !.isLoading = FALSE]

CancelAnswered(i) ==
    /\ StandsAt(i, "answered")
    /\ cancelCalls' = [cancelCalls EXCEPT ![i].step = "done"]
    /\ page' = IF cancelCalls[i].mount = page.mount
               THEN Done(page, cancelCalls[i].answer = "ok") ELSE page
    /\ UNCHANGED <<serviceVars, wallet, signed, accountSwitches, cancelFaults>>

-----------------------------------------------------------------------------

CancelInit ==
    /\ cancelRow = [o \in Intents |-> "open"]
    /\ msg = [o \in Intents |-> "outbox"]
    /\ cancelBook = {} /\ lut = {}
    /\ wallet \in [signer : Traders, info : {NoIntent}]
    /\ page = FreshPage(1)
    /\ cancelCalls = <<>> /\ signed = {}
    /\ accountSwitches = 0 /\ cancelFaults = 0 /\ redeliveries = 0

CancelStep(i) ==
    \/ \E found \in BOOLEAN : handleCancelOrder(i, found)
    \/ submitSignedCancel(i) \/ CancelNotSigned(i)
    \/ CancelPredictionIntent(i) \/ MarkCancelled(i) \/ cancel_order(i) \/ ClobFails(i)
    \/ CancelAnswered(i)

CancelNext ==
    \/ \E o \in Intents :
           \/ publishIntent(o) \/ FillOnClob(o) \/ AddPredictionIntentFill(o)
           \/ \E acked \in BOOLEAN : consumeIntent(o, acked)
           \/ onRequestCancel(o)
    \/ \E a \in Traders, info \in Traders \cup {NoIntent} : SwitchAccount(a, info)
    \/ refreshPortfolio \/ onOpenChange \/ LeavePage \/ handleConfirm
    \/ \E i \in DOMAIN cancelCalls : CancelStep(i)

\* Every step of a confirmed cancellation is taken: the lookup and the RPC
\* settle, signWithWallet has a hard timeout.
CancelSpec ==
    /\ CancelInit /\ [][CancelNext]_cancelVars
    /\ \A i \in 1 .. MaxCancelCalls : WF_cancelVars(CancelStep(i))

-----------------------------------------------------------------------------
(* Properties. *)

CancelSteps == {"lookup", "signing", "sent", "verified", "marked", "answered", "done"}

\* Type invariant.
CancelTypeOK ==
    /\ cancelRow \in [Intents -> {"open", "cancelled", "matched"}]
    /\ msg \in [Intents -> {"outbox", "stream", "acked"}]
    /\ cancelBook \subseteq lut /\ lut \subseteq Intents
    /\ wallet \in [signer : Traders, info : Traders \cup {NoIntent}]
    /\ page \in [mount : 1 .. MaxPageLeaves + 1, shown : SUBSET Intents,
                 orderToCancel : Intents \cup {NoIntent}, isLoading : BOOLEAN]
    /\ \A i \in DOMAIN cancelCalls :
           cancelCalls[i].step \in CancelSteps /\ cancelCalls[i].order \in Intents
    /\ signed \subseteq Traders \X Intents

CancelRunning(i) == cancelCalls[i].step # "done"

\* One page has one cancellation under way, whatever the user closes, opens
\* and confirms meanwhile, and its buttons are disabled exactly then
\* (isLoading of CancelOrderDialog).
OneCancelAtATime ==
    /\ \A i, j \in DOMAIN cancelCalls :
           /\ CancelRunning(i) /\ CancelRunning(j)
           /\ cancelCalls[i].mount = cancelCalls[j].mount
           => i = j
    /\ page.isLoading <=>
           \E i \in DOMAIN cancelCalls : CancelRunning(i) /\ cancelCalls[i].mount = page.mount

\* A row is cancelled only after its owner's key signed that order's id, though
\* the account may be switched under an open dialog and the key be stale
\* (the guards of CancelPredictionIntent).
CancelledByOwner ==
    \A o \in Intents : cancelRow[o] = "cancelled" => <<Owner[o], o>> \in signed

\* "Order cancelled" is final: the order is neither resting nor on its way to
\* the book, and its row does not count as open (CancelPredictionIntentNoSigCheck
\* answers after the CLOB removed the order, which never takes it again).
ToldIsOut ==
    \A i \in DOMAIN cancelCalls : cancelCalls[i].answer = "ok" =>
        /\ cancelCalls[i].order \in lut \ cancelBook
        /\ cancelRow[cancelCalls[i].order] # "open"

\* The message the front end signs is the one the API verifies: a cancellation
\* with the signer's own key is never refused for its signature.
SignatureAccepted ==
    \A i \in DOMAIN cancelCalls : cancelCalls[i].answer # "invalid_signature"

=============================================================================
