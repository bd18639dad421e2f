--------------------------- MODULE OrderLifecycle ---------------------------
(***************************************************************************)
(* The order ticket of the trade panel: src/web/lib/trading/               *)
(* useOrderLifecycle.ts with the buttons of components/TradePanel.tsx, in   *)
(* one browser tab and over the wallet lock of WalletMutex.                *)
(* What an order says is left out: an order is the press of Sign.          *)
(* signOrder is cut at its awaits: the account lookup, the wallet lock and *)
(* the wallet; submitOrder at the server call and the allowance lookup.    *)
(***************************************************************************)
EXTENDS WalletMutex

CONSTANTS
  Orders     \* presses of Sign: each makes one intent with its own txId

ASSUME OrderAssumption == Orders \subseteq Calls

VARIABLES
  connected,      \* signerZero is set
  accountKnown,   \* userAccountInfo is set
  phase,          \* where the signOrder of each order is
  cancelled,      \* abortToken.cancelled
  signAbortRef,   \* the abortToken cancelSigning would set
  processingStep, \* isProcessing and processingStep
  pendingIntent, signatureB64, signedKeccakB64,   \* the order of each, or NoCall
  late,           \* the deadline of the ticket is less than a minute away
  sub,            \* where submitOrder is
  sent,           \* orders sent to the server
  accepted        \* orders the server has taken

panelVars == <<connected, accountKnown, phase, cancelled,
               signAbortRef, processingStep, pendingIntent, signatureB64,
               signedKeccakB64, late, sub, sent, accepted>>
vars == <<lockVars, panelVars>>

ticket == <<pendingIntent, signatureB64, signedKeccakB64, late>>
session == <<connected, accountKnown>>
server == <<sub, sent, accepted>>

PanelInit ==
  /\ connected = FALSE /\ accountKnown = FALSE
  /\ phase = [o \in Orders |-> "none"]
  /\ cancelled = {} /\ late = FALSE /\ signAbortRef = NoCall
  /\ processingStep = "idle"
  /\ pendingIntent = NoCall /\ signatureB64 = NoCall /\ signedKeccakB64 = NoCall
  /\ sub = "none" /\ sent = {} /\ accepted = {}

Init == LockInit /\ PanelInit
-----------------------------------------------------------------------------
isSigned == signatureB64 # NoCall /\ pendingIntent # NoCall

(* The buttons the panel shows: Sign, the Cancel of a signing, and the Cancel *)
(* and Submit of a signed order.                                             *)
SignButton == connected /\ ~isSigned /\ processingStep = "idle"

CancelSigningButton == connected /\ ~isSigned /\ processingStep = "signing"

SignedButtons == connected /\ isSigned /\ processingStep = "idle"

(* bindFromSession: the mirror node's account key may be missing. *)
Connect ==
  /\ ~connected /\ connected' = TRUE /\ accountKnown' \in BOOLEAN
  /\ UNCHANGED <<lockVars, phase, cancelled, signAbortRef,
                 processingStep, ticket, server>>

(* disconnect: the active wallet call is aborted and the lock reset. *)
Disconnect ==
  /\ connected /\ connected' = FALSE /\ accountKnown' = FALSE
  /\ \/ \E c \in Calls : forceResetWalletLock(c)
     \/ (\A c \in Calls : ~Holds(c)) /\ UNCHANGED lockVars
  /\ UNCHANGED <<phase, cancelled, signAbortRef, processingStep,
                 ticket, server>>

(* The Sign button. *)
signOrder(o) ==
  /\ SignButton /\ phase[o] = "none"
  /\ processingStep' = "signing" /\ signAbortRef' = o
  /\ IF accountKnown
       THEN withWalletLock(o) /\ phase' = [phase EXCEPT ![o] = "wallet"]
       ELSE UNCHANGED lockVars /\ phase' = [phase EXCEPT ![o] = "account"]
  /\ UNCHANGED <<session, cancelled, ticket, server>>

(* The finally block of signOrder. *)
SignEnds(o) ==
  /\ phase' = [phase EXCEPT ![o] = "done"]
  /\ processingStep' = IF o \in cancelled THEN processingStep ELSE "idle"
  /\ signAbortRef' = IF signAbortRef = o THEN NoCall ELSE signAbortRef

(* The account lookup returns: the order goes to the wallet, cancelled or    *)
(* not, unless the lookup, the key, the contract address or the scheme fails *)
AccountLookup(o) ==
  /\ phase[o] = "account"
  /\ \/ /\ withWalletLock(o)
        /\ phase' = [phase EXCEPT ![o] = "wallet"]
        /\ UNCHANGED <<processingStep, signAbortRef>>
     \/ SignEnds(o) /\ UNCHANGED lockVars
  /\ UNCHANGED <<session, cancelled, ticket, server>>

(* Mutant: a signature is kept although its signing was cancelled. *)
SignedAnyway(o) ==
  /\ phase[o] = "wallet" /\ caller[o] \in Settled
  /\ IF caller[o] = "resolved"
       THEN /\ signedKeccakB64' = o /\ pendingIntent' = o /\ signatureB64' = o /\ late' = FALSE
       ELSE UNCHANGED ticket
  /\ SignEnds(o)
  /\ UNCHANGED <<lockVars, session, cancelled, server>>

(* signWithWallet returns or throws. *)
SignReturns(o) ==
  /\ phase[o] = "wallet" /\ caller[o] \in Settled
  /\ IF caller[o] = "resolved" /\ o \notin cancelled
       THEN /\ signedKeccakB64' = o /\ pendingIntent' = o /\ signatureB64' = o /\ late' = FALSE
       ELSE UNCHANGED ticket
  /\ SignEnds(o)
  /\ UNCHANGED <<lockVars, session, cancelled, server>>

(* The Cancel button while signing: the call aborted is the one of this tab *)
(* that has the lock, whichever it is.                                      *)
cancelSigning ==
  /\ CancelSigningButton
  /\ cancelled' = cancelled \cup ({signAbortRef} \ {NoCall})
  /\ signAbortRef' = NoCall
  /\ \/ \E c \in Calls : abortActiveWalletCall(c)
     \/ (\A c \in Calls : ~Holds(c)) /\ UNCHANGED lockVars
  /\ processingStep' = "idle"
  /\ UNCHANGED <<session, phase, ticket, server>>

(* The Cancel button of a signed order. *)
cancelOrder ==
  /\ SignedButtons
  /\ pendingIntent' = NoCall /\ signatureB64' = NoCall /\ signedKeccakB64' = NoCall
  /\ late' = FALSE
  /\ UNCHANGED <<lockVars, session, phase, cancelled, signAbortRef,
                 processingStep, server>>

(* The Submit button: an order about to expire is dropped, an order that is *)
(* not what was signed is refused, any other is sent.                       *)
submitOrder ==
  LET o == pendingIntent
  IN  /\ SignedButtons
      /\ \/ /\ late
            /\ pendingIntent' = NoCall /\ signatureB64' = NoCall /\ late' = FALSE
            /\ UNCHANGED <<signedKeccakB64, processingStep, server>>
         \/ /\ ~late /\ o = signedKeccakB64
            /\ processingStep' = "submitting" /\ sub' = "creating"
            /\ sent' = sent \cup {o}
            /\ UNCHANGED <<ticket, accepted>>
      /\ UNCHANGED <<lockVars, session, phase, cancelled, signAbortRef>>

(* Mutant: a failed submission leaves the panel busy. *)
createStaysBusy(reply) ==
  /\ sub = "creating"
  /\ accepted' = IF reply \in {"placed", "lost"} THEN accepted \cup {pendingIntent}
                                                 ELSE accepted
  /\ sub' = IF reply = "placed" THEN "allowance" ELSE "none"
  /\ UNCHANGED <<lockVars, session, phase, cancelled, signAbortRef,
                 processingStep, ticket, sent>>

(* createPredictionIntent returns or throws.  A lost reply is an order the  *)
(* server has taken and an error for the client; an order already taken is  *)
(* refused because its txId is known.                                       *)
createPredictionIntent(reply) ==
  /\ sub = "creating"
  /\ pendingIntent \in accepted => reply = "refused"
  /\ accepted' = IF reply \in {"placed", "lost"} THEN accepted \cup {pendingIntent}
                                                 ELSE accepted
  /\ IF reply \in {"placed", "badSignature"}
       THEN /\ pendingIntent' = NoCall /\ signatureB64' = NoCall /\ late' = FALSE
            /\ signedKeccakB64' = IF reply = "placed" THEN signedKeccakB64 ELSE NoCall
       ELSE UNCHANGED ticket
  /\ sub' = IF reply = "placed" THEN "allowance" ELSE "none"
  /\ processingStep' = IF reply = "placed" THEN processingStep ELSE "idle"
  /\ UNCHANGED <<lockVars, session, phase, cancelled, signAbortRef,
                 sent>>

(* getSpenderAllowanceUsd returns or throws, and submitOrder ends. *)
AllowanceLookup ==
  /\ sub = "allowance"
  /\ sub' = "none" /\ processingStep' = "idle"
  /\ UNCHANGED <<lockVars, session, phase, cancelled, signAbortRef,
                 ticket, sent, accepted>>

DeadlineNears ==
  /\ isSigned /\ ~late /\ late' = TRUE
  /\ UNCHANGED <<lockVars, session, phase, cancelled, signAbortRef,
                 processingStep, pendingIntent, signatureB64, signedKeccakB64,
                 server>>

(* Another component of the tab calls the wallet (login, a comment, an      *)
(* allowance, the cancellation of a resting order).                         *)
OtherCall(c) ==
  /\ connected /\ c \notin Orders
  /\ withWalletLock(c)
  /\ UNCHANGED panelVars

WalletStep ==
  /\ \/ \E l \in Locks : run(l)
     \/ \E c \in Calls, o \in {"resolved", "rejected"} : WalletAnswers(c, o)
  /\ UNCHANGED panelVars

TimerStep == LockTimers /\ UNCHANGED panelVars
-----------------------------------------------------------------------------
(* The continuation of a settled promise runs before anything else in the *)
(* tab does.                                                              *)
Quiet == \A o \in Orders : phase[o] = "wallet" => caller[o] \notin Settled

UserStep ==
  \/ Connect \/ Disconnect
  \/ \E o \in Orders : signOrder(o)
  \/ cancelSigning \/ cancelOrder \/ submitOrder
  \/ \E c \in Calls : OtherCall(c)

Reply == /\ Quiet
         /\ \/ \E o \in Orders : AccountLookup(o)
            \/ \E r \in {"placed", "lost", "badSignature", "refused"} :
                 createPredictionIntent(r)
            \/ AllowanceLookup

Next ==
  \/ \E o \in Orders : SignReturns(o)
  \/ Quiet /\ (UserStep \/ WalletStep \/ TimerStep)
  \/ Quiet /\ DeadlineNears
  \/ Reply

(* Requests to the mirror node and the server return or fail; timers fire; *)
(* nothing is assumed of the user or the wallet.                           *)
Fairness ==
  /\ \A o \in Orders : WF_vars(SignReturns(o))
  /\ WF_vars(Quiet /\ TimerStep)
  /\ WF_vars(Quiet /\ (\E l \in Locks : run(l)) /\ UNCHANGED panelVars)
  /\ WF_vars(Reply)

Spec == Init /\ [][Next]_vars
-----------------------------------------------------------------------------
(* A cancelled signing leads to nothing: whatever the wallet still answers, *)
(* the order is neither in the ticket nor sent, and a later order is not    *)
(* taken for it.                                                            *)
CancelledNeverSent ==
  \A o \in cancelled : pendingIntent # o /\ signatureB64 # o /\ o \notin sent

(* The panel says it is signing exactly while a signing that was not        *)
(* cancelled is under way, and submitting exactly while a submission is:    *)
(* the end of a cancelled signing does not disturb the one that followed.   *)
StepIsHonest ==
  /\ processingStep = "signing" <=>
       \E o \in Orders \ cancelled : phase[o] \in {"account", "wallet"}
  /\ processingStep = "submitting" <=> sub # "none"

(* The ticket is all of one order, signed by the wallet: the intent, its    *)
(* signature and the payload the signature is for.                          *)
TicketIsOneOrder ==
  isSigned => /\ pendingIntent = signatureB64 /\ pendingIntent = signedKeccakB64
              /\ caller[pendingIntent] = "resolved"

(* The ticket over the wallet lock: a cancelled order is never sent, the    *)
(* panel's step is true, the ticket is all of one order, no wallet call is  *)
(* forgotten and prompts do not pile up behind the lock.                    *)
SigningIsSafe ==
  /\ CancelledNeverSent /\ StepIsHonest /\ TicketIsOneOrder
  /\ NoCallForgotten /\ OnePromptPerLock

=============================================================================
