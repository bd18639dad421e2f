------------------------------ MODULE Allowance ------------------------------
(***************************************************************************)
(* The USDC allowance in the web client: AllowanceManager.tsx with         *)
(* grantAllowanceUsd of hedera.ts, and the other components that read an   *)
(* allowance into the one spenderAllowanceUsd of the page (WalletMenu.tsx, *)
(* TradePanel.tsx), each for its own contract.  The mirror node lags       *)
(* behind the chain; trades spend the allowance.                           *)
(* The wallet submits what the user approves and answers the page; the     *)
(* answer may be lost.  Another tab has its own buttons and labels and     *)
(* shares the wallet lock.                                                 *)
(***************************************************************************)
EXTENDS TxConfirm, Sequences, FiniteSets

CONSTANTS
    Contracts,     \* Prism contracts of the network
    Default,       \* the one the backend is configured with
    Created,       \* when the newest market of a contract was created, 0 for none
    NoContract,    \* no contract
    Amounts,       \* bound: amounts typed
    MaxAllowance,  \* bound: UNLIMITED_ALLOWANCE_USD
    Validity,      \* units of time a frozen transaction is valid, 120 s
    Patience,      \* units of time withTimeout waits for the wallet, 300 s
    MaxRequests,   \* bound: wallet requests
    MaxSteps       \* bound: pages opened, contracts picked and trades

ASSUME AllowanceAssumption ==
    MaxRequests \in Nat /\ Validity \in Nat \ {0} /\ Patience \in Nat /\ Validity < Patience

VARIABLES
    chain, mirror,   \* the allowances, and what the mirror node has of them
    loaded,          \* the markets have been fetched
    picked,          \* selectedContractId
    requested,       \* allowanceSidebarContractId
    sidebar,         \* showAllowanceSidebar
    shown,           \* spenderAllowanceUsd
    reading,         \* reads under way
    arrived,         \* their replies under way
    request,         \* calls of grantAllowanceUsd
    lock,            \* the wallet lock: its holder and those who wait, 0 for another tab's
    granting, revoking,
    steps

allowanceVars == <<chain, mirror, loaded, picked, requested, sidebar, shown, reading,
                   arrived, request, lock, granting, revoking, steps>>
choice == <<loaded, picked, requested, sidebar>>
flow   == <<request, lock, granting, revoking>>

Requests  == 1 .. MaxRequests
Elsewhere == 0
\* A call: its step, the units since it was frozen and since the wallet has
\* shown it, the answer of the wallet under way, what became of the transaction
\* and what the page said when the call ended.
NoRequest == [kind |-> "none", contract |-> NoContract, amount |-> 0, phase |-> "none",
              live |-> FALSE, prompt |-> FALSE, age |-> 0, shownFor |-> 0, cancelled |-> FALSE,
              answer |-> "none", fate |-> "none", said |-> "none"]
Dollars == 0 .. MaxAllowance
Maybe   == Contracts \cup {NoContract}
RequestPhases  == {"freezing", "queued", "wallet", "confirm", "reconcile", "over"}
Answers == {"none", "accepted", "refused", "rejected"}
Sayings == {"none", "active", "revoked", "failed", "pending", "rejected", "timeout",
            "cancelled"}
GrantCalls   == [kind : {"grant", "revoke"}, contract : Contracts, amount : Dollars,
            phase : RequestPhases, live : BOOLEAN, prompt : BOOLEAN, age : 0 .. Patience,
            shownFor : 0 .. Patience, cancelled : BOOLEAN, answer : Answers, fate : Fates,
            said : Sayings]
Readers == {"manager", "menu", "panel"}

AllowanceTypeOK ==
    /\ chain \in [Contracts -> Dollars] /\ mirror \in [Contracts -> Dollars]
    /\ loaded \in BOOLEAN /\ picked \in Maybe /\ requested \in Maybe /\ sidebar \in BOOLEAN
    /\ shown \in Dollars /\ reading \subseteq [reader : Readers, contract : Contracts]
    /\ arrived \subseteq [contract : Contracts, amount : Dollars]
    /\ request \in [Requests -> GrantCalls \cup {NoRequest}]
    /\ lock \in Seq(Requests \cup {Elsewhere}) /\ granting \in BOOLEAN /\ revoking \in BOOLEAN
    /\ steps \in 0 .. MaxSteps
-----------------------------------------------------------------------------
\* contractOptions: contracts of the markets fetched, the configured one and
\* the one asked for.
contractOptions ==
    (IF loaded THEN {c \in Contracts : Created[c] > 0} ELSE {})
        \cup {Default} \cup ({requested} \ {NoContract})

\* The contract of the manager: the one picked, else the one asked for, else
\* the first option, which is the configured one.
smartContractId ==
    IF picked \in contractOptions THEN picked
    ELSE IF requested \in contractOptions THEN requested ELSE Default

\* The contract of the wallet menu: that of the newest market.
activeContractId ==
    CHOOSE c \in contractOptions : \A d \in contractOptions : Created[d] <= Created[c]

Read(r, c) == [reader |-> r, contract |-> c]

\* The effects of manager and menu read when their contract changes.
Effects(more) ==
    reading' = reading \cup more
        \cup (IF smartContractId' # smartContractId THEN {Read("manager", smartContractId')} ELSE {})
        \cup (IF activeContractId' # activeContractId THEN {Read("menu", activeContractId')} ELSE {})

Step == steps < MaxSteps /\ steps' = steps + 1

AllowanceInit ==
    /\ chain \in [Contracts -> {0, 1}] /\ mirror = chain
    /\ loaded = FALSE /\ picked = NoContract /\ requested = NoContract
    /\ sidebar = FALSE /\ shown = 0
    /\ reading = {Read("manager", Default), Read("menu", Default)} /\ arrived = {}
    /\ request = [i \in Requests |-> NoRequest] /\ lock = << >>
    /\ granting = FALSE /\ revoking = FALSE /\ steps = 0

MarketsLoad ==
    /\ ~loaded /\ loaded' = TRUE /\ UNCHANGED <<picked, requested, sidebar>> /\ Effects({})
    /\ UNCHANGED <<chain, mirror, shown, arrived, flow, steps>>

\* The selector, disabled while a request is under way.
PickContract(c) ==
    /\ Step /\ sidebar /\ c \in contractOptions /\ c # smartContractId /\ ~granting /\ ~revoking
    /\ picked' = c /\ UNCHANGED <<loaded, requested, sidebar>> /\ Effects({})
    /\ UNCHANGED <<chain, mirror, shown, arrived, flow>>

\* "Manage" of a trade panel: the sidebar opens on the contract of its market
\* and reads again.
OpenSidebar(c) ==
    /\ Step /\ ~sidebar /\ sidebar' = TRUE /\ requested' = c /\ picked' = c /\ UNCHANGED loaded
    /\ Effects({Read("manager", smartContractId')})
    /\ UNCHANGED <<chain, mirror, shown, arrived, flow>>

CloseSidebar ==
    /\ sidebar /\ sidebar' = FALSE
    /\ UNCHANGED <<chain, mirror, loaded, picked, requested, shown, reading, arrived, flow,
                   steps>>

\* The page of a market: its panel reads the allowance of its contract.
fetchMarketAllowance(c) ==
    /\ Step /\ reading' = reading \cup {Read("panel", c)}
    /\ UNCHANGED <<chain, mirror, choice, shown, arrived, flow>>

\* The menu drops down, or the manager's refresh button is pressed.
refreshBalances ==
    /\ Step /\ reading' = reading \cup {Read("menu", activeContractId)}
    /\ UNCHANGED <<chain, mirror, choice, shown, arrived, flow>>

refreshAllowance ==
    /\ Step /\ sidebar /\ ~granting /\ ~revoking
    /\ reading' = reading \cup {Read("manager", smartContractId)}
    /\ UNCHANGED <<chain, mirror, choice, shown, arrived, flow>>

\* getSpenderAllowanceUsd at the mirror node.
MirrorAnswers(r) ==
    /\ r \in reading /\ reading' = reading \ {r}
    /\ arrived' = arrived \cup {[contract |-> r.contract, amount |-> mirror[r.contract]]}
    /\ UNCHANGED <<chain, mirror, choice, shown, flow, steps>>

ReadFails(r) ==
    /\ r \in reading /\ reading' = reading \ {r}
    /\ UNCHANGED <<chain, mirror, choice, shown, arrived, flow, steps>>

\* setSpenderAllowanceUsd, whichever contract the page is at by now.
Arrive(a) ==
    /\ a \in arrived /\ arrived' = arrived \ {a} /\ shown' = a.amount
    /\ UNCHANGED <<chain, mirror, choice, reading, flow, steps>>
-----------------------------------------------------------------------------
\* activeWalletLabel: a call of this tab has the lock.
activeWalletLabel == lock # << >> /\ Head(lock) # Elsewhere

\* grantAllowanceUsd up to the freezing of the transaction.
grantAllowanceUsd(i, kind, total) ==
    /\ request[i] = NoRequest /\ \A j \in 1 .. i - 1 : request[j] # NoRequest
    /\ request' = [request EXCEPT ![i] =
           [NoRequest EXCEPT !.kind = kind, !.contract = smartContractId, !.amount = total,
                             !.phase = "freezing", !.live = TRUE]]
    /\ UNCHANGED <<chain, mirror, choice, shown, reading, arrived, lock, steps>>

\* The form is hidden at the maximum; a call of this tab that has the lock
\* makes the handler return.  The total is what is shown plus what was typed.
handleGrantAllowance(i, amount, max) ==
    /\ sidebar /\ ~granting /\ ~revoking /\ shown < MaxAllowance /\ ~activeWalletLabel
    /\ max \/ shown + amount <= MaxAllowance
    /\ grantAllowanceUsd(i, "grant", IF max THEN MaxAllowance ELSE shown + amount)
    /\ granting' = TRUE /\ UNCHANGED revoking

\* Revoking has no such check.
handleRevokeAllowance(i) ==
    /\ sidebar /\ ~granting /\ ~revoking /\ shown > 0
    /\ grantAllowanceUsd(i, "revoke", 0) /\ revoking' = TRUE /\ UNCHANGED granting

\* A call reaches the wallet, which shows it.
Show(r) == [r EXCEPT !.phase = "wallet", !.prompt = TRUE]

\* The lock goes to the next call.
UnlockRequest(calls) ==
    /\ lock' = Tail(lock)
    /\ request' = IF Tail(lock) = << >> \/ lock[2] = Elsewhere THEN calls
                  ELSE [calls EXCEPT ![lock[2]] = Show(@)]

Holds(i) == lock # << >> /\ Head(lock) = i

\* A handler ends: its toast, and the button of its kind.
RequestEnded(r, saying) ==
    [r EXCEPT !.phase = "over", !.live = FALSE, !.said = IF r.live THEN saying ELSE @]
Button(i) ==
    /\ granting' = (granting /\ ~(request[i].live /\ request[i].kind = "grant"))
    /\ revoking' = (revoking /\ ~(request[i].live /\ request[i].kind = "revoke"))

\* freezeWithSigner: the transaction is valid from now on; then the call waits
\* for the lock.
Frozen(i) ==
    /\ request[i].phase = "freezing" /\ lock' = Append(lock, i)
    /\ request' = [request EXCEPT ![i] =
           IF lock = << >> THEN Show(@) ELSE [@ EXCEPT !.phase = "queued"]]
    /\ UNCHANGED <<chain, mirror, choice, shown, reading, arrived, granting, revoking, steps>>

\* "Wallet signing setup failed".
FreezeFails(i) ==
    /\ request[i].phase = "freezing" /\ request' = [request EXCEPT ![i] = RequestEnded(@, "failed")]
    /\ Button(i)
    /\ UNCHANGED <<chain, mirror, choice, shown, reading, arrived, lock, steps>>

\* A signature or a redemption in another tab asks for the lock (bound: one at
\* a time), has it, ends.
OtherTabAsks ==
    /\ \A k \in DOMAIN lock : lock[k] # Elsewhere
    /\ lock' = Append(lock, Elsewhere)
    /\ UNCHANGED <<chain, mirror, choice, shown, reading, arrived, request, granting, revoking,
                   steps>>

OtherTabEnds ==
    /\ Holds(Elsewhere) /\ UnlockRequest(request)
    /\ UNCHANGED <<chain, mirror, choice, shown, reading, arrived, granting, revoking, steps>>

\* handleCancelGrant, handleCancelRevoke: the call of this tab that has the lock
\* loses its awaiter and keeps the lock, whichever call it is; the button is
\* reset in any case.
handleCancel ==
    /\ granting \/ (revoking /\ shown < MaxAllowance)
    /\ granting' = FALSE /\ revoking' = FALSE
    /\ request' = IF activeWalletLabel /\ request[Head(lock)].live
                  THEN [request EXCEPT ![Head(lock)] =
                          [@ EXCEPT !.live = FALSE, !.cancelled = TRUE, !.said = "cancelled"]]
                  ELSE request
    /\ UNCHANGED <<chain, mirror, choice, shown, reading, arrived, lock, steps>>

\* CANCEL_GRACE_MS after a cancellation the lock is let go.
GraceOver(i) ==
    /\ Holds(i) /\ request[i].cancelled
    /\ UnlockRequest([request EXCEPT ![i] = RequestEnded(@, "none")])
    /\ UNCHANGED <<chain, mirror, choice, shown, reading, arrived, granting, revoking, steps>>

OneMore(n) == IF n < Patience THEN n + 1 ELSE n

\* A unit of time, for the transactions that are frozen and the call the wallet
\* has been asked for.
AllowanceTick ==
    /\ request' = [i \in Requests |->
           [request[i] EXCEPT
               !.age      = IF request[i].phase \in {"queued", "wallet"} \/ request[i].prompt
                            THEN OneMore(@) ELSE @,
               !.shownFor = IF request[i].phase = "wallet" THEN OneMore(@) ELSE @]]
    /\ request' # request
    /\ UNCHANGED <<chain, mirror, choice, shown, reading, arrived, lock, granting, revoking,
                   steps>>

\* Mutant: the page gives up while the transaction can still be submitted.
timesOutEarly(i) ==
    /\ Holds(i) /\ request[i].shownFor + 1 >= Validity
    /\ UnlockRequest([request EXCEPT ![i] = RequestEnded(@, "timeout")]) /\ Button(i)
    /\ UNCHANGED <<chain, mirror, choice, shown, reading, arrived, steps>>

\* withTimeout: the wallet has not answered, or its answer was lost.
Timeout(i) ==
    /\ Holds(i) /\ request[i].shownFor = Patience
    /\ UnlockRequest([request EXCEPT ![i] = RequestEnded(@, "timeout")]) /\ Button(i)
    /\ UNCHANGED <<chain, mirror, choice, shown, reading, arrived, steps>>

\* The user approves a request the wallet still shows, whoever has the lock.
\* The wallet submits the transaction: the network takes it unless it has
\* expired, and may find that it cannot be paid for.
ApproveRequest(i) ==
    /\ request[i].prompt
    /\ \E fate \in IF request[i].age < Validity THEN {"done", "reverted"} ELSE {"none"} :
          /\ request' = [request EXCEPT ![i].prompt = FALSE, ![i].fate = fate,
                                        ![i].answer = IF fate = "none" THEN "refused" ELSE "accepted"]
          /\ chain' = IF fate = "done"
                      THEN [chain EXCEPT ![request[i].contract] = request[i].amount] ELSE chain
    /\ UNCHANGED <<mirror, choice, shown, reading, arrived, lock, granting, revoking, steps>>

Reject(i) ==
    /\ request[i].prompt
    /\ request' = [request EXCEPT ![i].prompt = FALSE, ![i].answer = "rejected"]
    /\ UNCHANGED <<chain, mirror, choice, shown, reading, arrived, lock, granting, revoking, steps>>

\* The answer reaches the call that has the lock; nobody waits for it later.
WalletAnswers(i) ==
    LET r == request[i]
    IN  /\ Holds(i) /\ r.answer # "none"
        /\ IF r.answer = "accepted" /\ r.live
           THEN /\ UnlockRequest([request EXCEPT ![i].phase = "confirm"])
                /\ UNCHANGED <<granting, revoking>>
           ELSE /\ UnlockRequest([request EXCEPT ![i] =
                       RequestEnded(@, IF r.answer = "rejected" THEN "rejected" ELSE "failed")])
                /\ Button(i)
        /\ UNCHANGED <<chain, mirror, choice, shown, reading, arrived, steps>>

\* confirmTx; a receipt may come before the mirror node has the transaction.
ConfirmRequest(i) ==
    /\ request[i].phase = "confirm"
    /\ \E outcome \in confirmTx(request[i].fate) :
          IF outcome = "success"
          THEN /\ request' = [request EXCEPT ![i].phase = "reconcile"]
               /\ UNCHANGED <<granting, revoking>>
          ELSE request' = [request EXCEPT ![i] = RequestEnded(@, outcome)] /\ Button(i)
    /\ UNCHANGED <<chain, mirror, choice, shown, reading, arrived, lock, steps>>

\* The allowance is read back; when that fails the amount asked for is shown.
Reconcile(i) ==
    /\ request[i].phase = "reconcile"
    /\ request' = [request EXCEPT ![i] =
                      RequestEnded(@, IF @.kind = "grant" THEN "active" ELSE "revoked")]
    /\ shown' \in {mirror[request[i].contract], request[i].amount} /\ Button(i)
    /\ UNCHANGED <<chain, mirror, choice, reading, arrived, lock, steps>>
-----------------------------------------------------------------------------
\* A fill takes collateral from the account.
Spend(c) ==
    /\ Step /\ chain[c] > 0 /\ chain' = [chain EXCEPT ![c] = @ - 1]
    /\ UNCHANGED <<mirror, choice, shown, reading, arrived, flow>>

MirrorCatchesUp ==
    /\ mirror # chain /\ mirror' = chain
    /\ UNCHANGED <<chain, choice, shown, reading, arrived, flow, steps>>

AllowanceNext ==
    \/ MarketsLoad \/ CloseSidebar \/ refreshBalances \/ refreshAllowance
    \/ \E c \in Contracts : PickContract(c) \/ OpenSidebar(c) \/ fetchMarketAllowance(c) \/ Spend(c)
    \/ \E r \in reading : MirrorAnswers(r) \/ ReadFails(r)
    \/ \E a \in arrived : Arrive(a)
    \/ \E i \in Requests, amount \in Amounts, max \in BOOLEAN : handleGrantAllowance(i, amount, max)
    \/ \E i \in Requests : handleRevokeAllowance(i)
    \/ handleCancel
    \/ \E i \in Requests :
          \/ Frozen(i) \/ FreezeFails(i) \/ ApproveRequest(i) \/ Reject(i) \/ WalletAnswers(i)
          \/ Timeout(i) \/ GraceOver(i) \/ ConfirmRequest(i) \/ Reconcile(i)
    \/ OtherTabAsks \/ OtherTabEnds \/ AllowanceTick \/ MirrorCatchesUp

\* Timers fire, the freezing and the polls of confirmTx end, reads are
\* answered, and another tab lets go of the lock, at its ceiling at the latest.
AllowanceFairness ==
    /\ \A i \in Requests :
          /\ WF_allowanceVars(Frozen(i)) /\ WF_allowanceVars(GraceOver(i))
          /\ WF_allowanceVars(Timeout(i)) /\ WF_allowanceVars(ConfirmRequest(i))
          /\ WF_allowanceVars(Reconcile(i))
    /\ WF_allowanceVars(AllowanceTick) /\ WF_allowanceVars(OtherTabEnds) /\ WF_allowanceVars(MirrorCatchesUp)
    /\ WF_allowanceVars(\E r \in reading : MirrorAnswers(r))
    /\ WF_allowanceVars(\E a \in arrived : Arrive(a))

AllowanceSpec == AllowanceInit /\ [][AllowanceNext]_allowanceVars /\ AllowanceFairness
-----------------------------------------------------------------------------
(* What the page says of a request is true: what it calls active or revoked *)
(* was executed, what it calls failed or rejected was not.                  *)
SaidIsTrue ==
    \A i \in DOMAIN request :
        /\ request[i].said \in {"active", "revoked"} => request[i].fate = "done"
        /\ request[i].said \in {"failed", "rejected"} => request[i].fate # "done"

(* ... and it is final.  A request that timed out in the wallet may have been *)
(* executed, if its answer was lost (walletMutex.ts: "not guaranteed to     *)
(* settle"); but approving it afterwards, while the next request is shown   *)
(* already, changes nothing any more.  Only what the user cancelled may     *)
(* still change the allowance.                                              *)
GrantIsSafe ==
    /\ []SaidIsTrue
    /\ [][\A i \in DOMAIN request :
            request[i].said \notin {"none", "cancelled"} => request'[i].fate = request[i].fate]_allowanceVars

=============================================================================
