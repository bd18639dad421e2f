---------------------------- MODULE RewardsClaim ----------------------------
(***************************************************************************)
(* Claiming $PRSM: the claim dialog of a page, the wallet's signature, and *)
(* the API's ClaimPrism, which transfers the unredeemed total from the hot *)
(* wallet and then marks the account's rewards claimed.  One account; its  *)
(* rewards appear as the cron writes them.  A tab may leave the page while *)
(* a claim is under way and come back to a fresh dialog.                   *)
(***************************************************************************)
EXTENDS Integers, FiniteSets, Sequences

CONSTANTS
    Tabs, Rewards,
    MaxClaims, MaxClaimFaults, MaxClaimLeaves, \* bounds
    NoClaim

ASSUME ClaimAssumption == IsFiniteSet(Tabs)

VARIABLES
    reward,     \* prism_rewards: "none", "open" or "claimed"
    matured,    \* rewards marked redeemable
    associated, \* the account has the $PRSM token associated
    ui,         \* each tab: the dialog and its copy of GetPrism
    claims,      \* requests of ClaimPrism, in the order they arrived
    paid,       \* how often each reward was transferred
    claimFaults, leaves

claimVars == <<reward, matured, associated, ui, claims, paid, claimFaults, leaves>>

OpenRewards == {r \in Rewards : reward[r] = "open"}

ClaimFault == claimFaults < MaxClaimFaults /\ claimFaults' = claimFaults + 1

-----------------------------------------------------------------------------
(* Cron, account and mirror node.                                          *)

CreatePrismReward(r) ==
    /\ reward[r] = "none"
    /\ reward' = [reward EXCEPT ![r] = "open"]
    /\ UNCHANGED <<matured, associated, ui, claims, paid, claimFaults, leaves>>

MarkPrismAsClaimable ==
    /\ OpenRewards \ matured # {}
    /\ matured' = matured \cup OpenRewards
    /\ UNCHANGED <<reward, associated, ui, claims, paid, claimFaults, leaves>>

Associate ==
    /\ ~associated
    /\ associated' = TRUE
    /\ UNCHANGED <<reward, matured, ui, claims, paid, claimFaults, leaves>>

-----------------------------------------------------------------------------
(* The page.                                                               *)

FreshDialog(cached) ==
    [open |-> FALSE, claiming |-> "idle", call |-> NoClaim,
     cached |-> cached, told |-> "nothing", got |-> {}, stale |-> FALSE]

\* What a dialog offers once GetPrism has answered.
Reread(u) == [u EXCEPT !.cached = OpenRewards, !.stale = FALSE]

\* usePrism: the balances, read when the page mounts and when they are stale; a
\* read that fails changes nothing.
usePrism(t) ==
    /\ ui[t].cached # OpenRewards
    /\ ui' = [ui EXCEPT ![t] = Reread(@)]
    /\ UNCHANGED <<reward, matured, associated, claims, paid, claimFaults, leaves>>

\* The button of ClaimPrismDialog: disabled with nothing to claim.
OpenDialog(t) ==
    /\ ui[t].cached # {} /\ ui[t].claiming = "idle" /\ ~ui[t].open
    /\ ui' = [ui EXCEPT ![t].open = TRUE]
    /\ UNCHANGED <<reward, matured, associated, claims, paid, claimFaults, leaves>>

CloseDialog(t) ==
    /\ ui[t].open /\ ui[t].claiming = "idle"
    /\ ui' = [ui EXCEPT ![t].open = FALSE]
    /\ UNCHANGED <<reward, matured, associated, claims, paid, claimFaults, leaves>>

NewClaim(t) == [tab |-> t, step |-> "signing", total |-> {}, answer |-> "none"]

\* onConfirm and claim: the key is looked up, the message goes to the wallet.
claim(t) ==
    /\ ui[t].open /\ ui[t].claiming = "idle" /\ Len(claims) < MaxClaims
    /\ claims' = Append(claims, NewClaim(t))
    /\ ui' = [ui EXCEPT ![t].claiming = "waiting", ![t].told = "nothing",
                        ![t].call = Len(claims) + 1]
    /\ UNCHANGED <<reward, matured, associated, paid, claimFaults, leaves>>

SetClaim(i, step, answer) ==
    claims' = [claims EXCEPT ![i].step = step, ![i].answer = answer]

\* signWithWallet rejects or times out, or the key lookup fails.
ClaimNotSigned(i, e) ==
    /\ claims[i].step = "signing"
    /\ SetClaim(i, "done", e)
    /\ UNCHANGED <<reward, matured, associated, ui, paid, claimFaults, leaves>>

\* The wallet signs and the request is sent: buildClaimRequest names the
\* account, not an amount.
submitClaimPrism(i) ==
    /\ claims[i].step = "signing"
    /\ SetClaim(i, "received", "none")
    /\ UNCHANGED <<reward, matured, associated, ui, paid, claimFaults, leaves>>

\* The route changes: the component and its isClaiming are gone, the promise
\* goes on.
LeaveClaim(t) ==
    /\ leaves < MaxClaimLeaves /\ ui[t].claiming # "idle"
    /\ leaves' = leaves + 1
    /\ ui' = [ui EXCEPT ![t] = FreshDialog(ui[t].cached)]
    /\ UNCHANGED <<reward, matured, associated, claims, paid, claimFaults>>

\* mapClaimError: what the user reads for each failure.
mapClaimError(e) ==
    CASE e = "not_associated" -> "associate_first"
      [] e = "nothing_open"   -> "nothing_to_claim"
      [] e = "no_answer"      -> "wallet_did_not_respond"
      [] e = "rejected"       -> "rejected"
      [] OTHER                -> "failed"

ClaimFailed(u, e) ==
    [u EXCEPT !.claiming = "idle", !.call = NoClaim, !.told = mapClaimError(e)]

\* The answer arrives; success waits for the balances to be read again.
ClaimAnswered(t) ==
    LET c == claims[ui[t].call]
    IN  /\ ui[t].claiming = "waiting" /\ c.answer # "none"
        /\ ui' = [ui EXCEPT ![t] =
               IF c.answer = "ok"
               THEN [@ EXCEPT !.claiming = "refreshing", !.told = "claimed", !.got = c.total]
               ELSE ClaimFailed(@, c.answer)]
        /\ UNCHANGED <<reward, matured, associated, claims, paid, claimFaults, leaves>>

\* The dialog after invalidateQueries(['prism']) has settled: it closes.
BackToIdle(u) == [u EXCEPT !.claiming = "idle", !.call = NoClaim, !.open = FALSE]

\* Mutant: the dialog is back without the balances being read again.
closesUnread(t) ==
    /\ ui[t].claiming = "refreshing" /\ ui' = [ui EXCEPT ![t] = BackToIdle(@)]
    /\ UNCHANGED <<reward, matured, associated, claims, paid, claimFaults, leaves>>

Refreshed(t) ==
    /\ ui[t].claiming = "refreshing" /\ ui' = [ui EXCEPT ![t] = Reread(BackToIdle(@))]
    /\ UNCHANGED <<reward, matured, associated, claims, paid, claimFaults, leaves>>

\* The read fails, also when tried again: GetPrism needs the mirror node.  The
\* promise resolves all the same, and what was on offer stays there.
RefreshFails(t) ==
    /\ ui[t].claiming = "refreshing"
    /\ ui' = [ui EXCEPT ![t] = [BackToIdle(@) EXCEPT !.stale = TRUE]]
    /\ UNCHANGED <<reward, matured, associated, claims, paid, claimFaults, leaves>>

-----------------------------------------------------------------------------
(* ClaimPrism.                                                             *)

\* The association check and the unredeemed total.
ReadTotal(i) ==
    /\ claims[i].step = "received"
    /\ \/ ~associated /\ SetClaim(i, "done", "not_associated")
       \/ associated /\ OpenRewards = {} /\ SetClaim(i, "done", "nothing_open")
       \/ /\ associated /\ OpenRewards # {}
          /\ claims' = [claims EXCEPT ![i].step = "transfer", ![i].total = OpenRewards]
    /\ UNCHANGED <<reward, matured, associated, ui, paid, claimFaults, leaves>>

\* Execute and GetReceipt: the transfer is final when the receipt is there.
Transfer(i) ==
    /\ claims[i].step = "transfer"
    /\ paid' = [r \in Rewards |-> IF r \in claims[i].total THEN paid[r] + 1 ELSE paid[r]]
    /\ SetClaim(i, "mark", "none")
    /\ UNCHANGED <<reward, matured, associated, ui, claimFaults, leaves>>

TransferRefused(i) ==
    /\ claims[i].step = "transfer"
    /\ ClaimFault
    /\ SetClaim(i, "done", "transfer_failed")
    /\ UNCHANGED <<reward, matured, associated, ui, paid, leaves>>

\* The transfer is made and its receipt, or the database, is not reached.
ReceiptLost(i) ==
    /\ claims[i].step = "mark"
    /\ ClaimFault
    /\ SetClaim(i, "done", "receipt_failed")
    /\ UNCHANGED <<reward, matured, associated, ui, paid, leaves>>

\* MarkAllPrismClaimed: every reward of the account that is open now.
MarkAllPrismClaimed(i) ==
    /\ claims[i].step = "mark"
    /\ reward' = [r \in Rewards |-> IF reward[r] = "open" THEN "claimed" ELSE reward[r]]
    /\ matured' = matured \ OpenRewards
    /\ SetClaim(i, "done", "ok")
    /\ UNCHANGED <<associated, ui, paid, claimFaults, leaves>>

-----------------------------------------------------------------------------
ClaimInit ==
    /\ reward \in [Rewards -> {"none", "open"}]
    /\ matured = {} /\ associated \in BOOLEAN
    /\ ui = [t \in Tabs |-> FreshDialog({r \in Rewards : reward[r] = "open"})]
    /\ claims = <<>> /\ paid = [r \in Rewards |-> 0]
    /\ claimFaults = 0 /\ leaves = 0

ClaimPage(t) ==
    \/ usePrism(t) \/ OpenDialog(t) \/ CloseDialog(t) \/ claim(t)
    \/ LeaveClaim(t) \/ ClaimAnswered(t) \/ Refreshed(t) \/ RefreshFails(t)

ClaimWallet(i) ==
    \/ submitClaimPrism(i)
    \/ \E e \in {"no_answer", "rejected", "no_key"} : ClaimNotSigned(i, e)

ClaimPrism(i) ==
    \/ ReadTotal(i) \/ Transfer(i) \/ TransferRefused(i) \/ ReceiptLost(i)
    \/ MarkAllPrismClaimed(i)

ClaimNext ==
    \/ \E r \in Rewards : CreatePrismReward(r)
    \/ MarkPrismAsClaimable \/ Associate
    \/ \E t \in Tabs : ClaimPage(t)
    \/ \E i \in DOMAIN claims : ClaimWallet(i) \/ ClaimPrism(i)

\* The wallet settles or the signing times out; a request is worked on; an
\* answer is delivered and the balances are read.
ClaimFairness ==
    /\ \A t \in Tabs : WF_claimVars(ClaimAnswered(t)) /\ WF_claimVars(Refreshed(t) \/ RefreshFails(t))
    /\ \A i \in 1..MaxClaims : WF_claimVars(i \in DOMAIN claims /\ (ClaimWallet(i) \/ ClaimPrism(i)))

ClaimSpec == ClaimInit /\ [][ClaimNext]_claimVars /\ ClaimFairness

-----------------------------------------------------------------------------
ClaimTypeOK ==
    /\ reward \in [Rewards -> {"none", "open", "claimed"}]
    /\ matured \subseteq OpenRewards
    /\ \A t \in Tabs : /\ ui[t].claiming \in {"idle", "waiting", "refreshing"}
                       /\ ui[t].cached \subseteq Rewards
                       /\ ui[t].claiming # "idle" =>
                            ui[t].call \in DOMAIN claims /\ claims[ui[t].call].tab = t
    /\ \A i \in DOMAIN claims :
           /\ claims[i].step \in {"signing", "received", "transfer", "mark", "done"}
           /\ claims[i].step = "done" <=> claims[i].answer # "none"
    /\ paid \in [Rewards -> 0..MaxClaims]

\* A tab that stays on the page has one claim under way at most
\* (useClaimPrism.ts:33, ClaimPrismDialog.tsx:38, 90): while it waits for one,
\* no other of its calls is unfinished, unless it has left the page before.
OneClaimAtATime ==
    leaves = 0 => \A t \in Tabs :
        Cardinality({i \in DOMAIN claims : claims[i].tab = t /\ claims[i].step # "done"}) <= 1

\* Who is told that the claim succeeded has been paid what the claim covered, and
\* it is marked claimed; once the dialog is back it is on offer again only until
\* the balances are read, and only if reading them failed (useClaimPrism.ts:53).
ClaimedNotOffered ==
    \A t \in Tabs : ui[t].told = "claimed" =>
        /\ \A r \in ui[t].got : paid[r] > 0 /\ reward[r] = "claimed"
        /\ ui[t].claiming = "idle" /\ ~ui[t].stale => ui[t].got \cap ui[t].cached = {}

\* The transfer comes before the mark and nothing is reserved in between, so a
\* reward can be paid more than once (prismRewards.go:156-218): but no more often
\* than tabs can be claiming it at once, one claim each, plus one for every claim a
\* tab has walked away from and for every one that failed after its transfer.
\* A claim of an amount that stayed on offer is not among them.
PaidPerRace ==
    \A r \in Rewards : paid[r] <= Cardinality(Tabs) + leaves + claimFaults

=============================================================================
