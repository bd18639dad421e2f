----------------------------- MODULE RedeemFlow -----------------------------
(***************************************************************************)
(* Redeeming winnings in the web client: useRedeem.ts with                 *)
(* redeemWinnings (hedera.ts), the positions of usePortfolio.ts in the two *)
(* views that offer them (RedeemableWinningsNotice.tsx, Portfolio.tsx) and *)
(* redeemSuppression.ts.  Each view has its own hooks; the page has one    *)
(* wallet lock and one suppression set.  A view's redemption may be given  *)
(* up while the wallet still has the request; the wallet's answer to one it *)
(* has submitted may be lost.  A transaction is valid for 120 s after it is *)
(* frozen, the wallet has 300 s to answer.                                 *)
(***************************************************************************)
EXTENDS TxConfirm, Sequences

CONSTANTS
    Redeemers, Markets,
    NoSigner,     \* no account
    MaxRedeems,   \* bound: calls of redeemWinnings
    MaxChanges    \* bound: how often the wallet changes

ASSUME RedeemAssumption == NoSigner \notin Redeemers /\ MaxRedeems \in Nat /\ MaxChanges \in Nat

VARIABLES
    acct,         \* signerZero
    changes,
    resolved,     \* markets whose resolution the database has
    won,          \* winning shares the contract still owes, by account
    ingested,     \* redeemedAt of the database, by account
    positions,    \* redeemable markets in the hook of a view
    fetching,     \* fetches under way, with the account they ask for
    replies,      \* replies under way
    suppressed,   \* redeemedMarketIds
    redeemOp,     \* calls of redeemWinnings
    redeemQueue,  \* those waiting for the wallet lock, the first has it
    pending,      \* the call a view waits for
    told          \* what a view last told the user: the call, the outcome

redeemVars == <<acct, changes, resolved, won, ingested, positions, fetching, replies,
               suppressed, redeemOp, redeemQueue, pending, told>>

chainVars == <<resolved, won, ingested>>
pageVars  == <<positions, fetching, replies, suppressed>>

Views == {"notice", "portfolio"}
Redeems   == 1 .. MaxRedeems
NoRedeem  == [phase |-> "none", acct |-> NoSigner, market |-> NoSigner, view |-> "notice",
              prompt |-> FALSE, submitted |-> FALSE, expired |-> FALSE, fate |-> "none"]

RedeemPhases == {"queued", "wallet", "sent", "over"}
Outcomes == {"none", "success", "failed", "pending", "refused", "timeout", "cancelled"}

RedeemTypeOK ==
    /\ acct \in Redeemers \cup {NoSigner} /\ changes \in 0 .. MaxChanges
    /\ resolved \subseteq Markets
    /\ won \in [Redeemers -> SUBSET Markets] /\ ingested \in [Redeemers -> SUBSET Markets]
    /\ positions \in [Views -> SUBSET Markets]
    /\ fetching \subseteq [view : Views, acct : Redeemers]
    /\ replies \subseteq [view : Views, rows : SUBSET Markets]
    /\ suppressed \subseteq Markets
    /\ redeemOp \in [Redeems -> [phase : RedeemPhases, acct : Redeemers, market : Markets,
                       view : Views, prompt : BOOLEAN, submitted : BOOLEAN, expired : BOOLEAN,
                       fate : Fates] \cup {NoRedeem}]
    /\ redeemQueue \in Seq(Redeems) /\ pending \in [Views -> 0 .. MaxRedeems]
    /\ told \in [Views -> [op : 0 .. MaxRedeems, outcome : Outcomes]]

RedeemInit ==
    /\ acct = NoSigner /\ changes = 0 /\ resolved = {}
    /\ won = [a \in Redeemers |-> Markets] /\ ingested = [a \in Redeemers |-> {}]
    /\ positions = [v \in Views |-> {}] /\ fetching = {} /\ replies = {} /\ suppressed = {}
    /\ redeemOp = [i \in Redeems |-> NoRedeem] /\ redeemQueue = << >>
    /\ pending = [v \in Views |-> 0]
    /\ told = [v \in Views |-> [op |-> 0, outcome |-> "none"]]
-----------------------------------------------------------------------------
\* redeemableUsd > 0 for a position of the database: resolved, on the winning
\* side, and no redeemedAt.
redeemableUsd(a) == resolved \ ingested[a]

\* positionsAdjusted: what a view offers.
Offered(v) == IF acct = NoSigner THEN {} ELSE positions[v] \ suppressed

refresh(v, a) == fetching \cup {[view |-> v, acct |-> a]}

\* The wallet connects, changes its account or disconnects.  Both views fetch
\* when there is an account; none of them clears what it has.
WalletChanges(a) ==
    /\ changes < MaxChanges /\ changes' = changes + 1 /\ a # acct /\ acct' = a
    /\ fetching' = IF a = NoSigner THEN fetching
                   ELSE fetching \cup {[view |-> v, acct |-> a] : v \in Views}
    /\ UNCHANGED <<chainVars, positions, replies, suppressed, redeemOp, redeemQueue, pending,
                   told>>

Serve(f) ==
    /\ f \in fetching /\ fetching' = fetching \ {f}
    /\ replies' = replies \cup {[view |-> f.view, rows |-> redeemableUsd(f.acct)]}
    /\ UNCHANGED <<acct, changes, chainVars, positions, suppressed, redeemOp, redeemQueue,
                   pending, told>>

\* A reply is applied whatever the account is by now, and in any order.
Deliver(r) ==
    /\ r \in replies /\ replies' = replies \ {r}
    /\ positions' = [positions EXCEPT ![r.view] = r.rows]
    /\ UNCHANGED <<acct, changes, chainVars, fetching, suppressed, redeemOp, redeemQueue,
                   pending, told>>

FetchFails(f) ==
    /\ f \in fetching /\ fetching' = fetching \ {f}
    /\ UNCHANGED <<acct, changes, chainVars, positions, replies, suppressed, redeemOp,
                   redeemQueue, pending, told>>

\* The Refresh button of the portfolio.
RefreshButton ==
    /\ acct # NoSigner /\ fetching' = refresh("portfolio", acct) /\ fetching' # fetching
    /\ UNCHANGED <<acct, changes, chainVars, positions, replies, suppressed, redeemOp,
                   redeemQueue, pending, told>>
-----------------------------------------------------------------------------
\* A call reaches the wallet, which shows it.
Prompted(r) == [r EXCEPT !.phase = "wallet", !.prompt = TRUE]

\* redeem of useRedeem, up to the lock of redeemWinnings: the transaction is
\* frozen, which touches nothing else, and waits for the lock.  The buttons of a
\* view are disabled while it waits for a call.
redeem(v, m, i) ==
    LET call == [NoRedeem EXCEPT !.phase = "queued", !.acct = acct, !.market = m, !.view = v]
    IN  /\ m \in Offered(v) /\ pending[v] = 0
        /\ redeemOp[i] = NoRedeem /\ \A j \in 1 .. i - 1 : redeemOp[j] # NoRedeem
        /\ redeemOp' = [redeemOp EXCEPT ![i] = IF redeemQueue = << >> THEN Prompted(call) ELSE call]
        /\ redeemQueue' = Append(redeemQueue, i) /\ pending' = [pending EXCEPT ![v] = i]
        /\ UNCHANGED <<acct, changes, chainVars, pageVars, told>>

\* Mutant: the market is hidden when the request is given up.
cancelAndHide(v) ==
    /\ pending[v] # 0 /\ pending' = [pending EXCEPT ![v] = 0]
    /\ told' = [told EXCEPT ![v] = [op |-> pending[v], outcome |-> "cancelled"]]
    /\ suppressed' = suppressed \cup {redeemOp[pending[v]].market}
    /\ UNCHANGED <<acct, changes, chainVars, positions, fetching, replies, redeemOp,
                   redeemQueue>>

\* The view abandons the result; the request stays with the wallet.
cancelRedeem(v) ==
    /\ pending[v] # 0 /\ pending' = [pending EXCEPT ![v] = 0]
    /\ told' = [told EXCEPT ![v] = [op |-> pending[v], outcome |-> "cancelled"]]
    /\ UNCHANGED <<acct, changes, chainVars, pageVars, redeemOp, redeemQueue>>

\* The lock goes to the next call.
Unlock(ops) ==
    /\ redeemQueue' = Tail(redeemQueue)
    /\ redeemOp' = IF Tail(redeemQueue) = << >> THEN ops
                   ELSE [ops EXCEPT ![redeemQueue[2]] = Prompted(@)]

\* markMarketRedeemed.  The view then refreshes with the hook of the render
\* in which its button was pressed.
markMarketRedeemed(i) ==
    /\ suppressed' = suppressed \cup {redeemOp[i].market}
    /\ fetching' = refresh(redeemOp[i].view, redeemOp[i].acct)

\* redeemWinnings settles; a view that still waits for it says so.
Settled(i, outcome) ==
    IF pending[redeemOp[i].view] # i THEN UNCHANGED <<pending, told, suppressed, fetching>>
    ELSE /\ pending' = [pending EXCEPT ![redeemOp[i].view] = 0]
         /\ told' = [told EXCEPT ![redeemOp[i].view] = [op |-> i, outcome |-> outcome]]
         /\ IF outcome = "success" THEN markMarketRedeemed(i)
            ELSE UNCHANGED <<suppressed, fetching>>

\* The transaction is valid for 120 s, from its freezing on; kept as long as the
\* wallet has not answered.
ExpireRedeem(i) ==
    /\ redeemOp[i].phase \in {"queued", "wallet"} /\ ~redeemOp[i].expired
    /\ redeemOp' = [redeemOp EXCEPT ![i].expired = TRUE]
    /\ UNCHANGED <<acct, changes, chainVars, pageVars, redeemQueue, pending, told>>

\* The user approves what the wallet still shows: it submits the transaction.
Approve(i) ==
    /\ redeemOp[i].prompt /\ ~redeemOp[i].expired
    /\ redeemOp' = [redeemOp EXCEPT ![i].prompt = FALSE, ![i].submitted = TRUE]
    /\ UNCHANGED <<acct, changes, chainVars, pageVars, redeemQueue, pending, told>>

\* The wallet's answer arrives, if it is not lost.
Answered(i) ==
    /\ redeemOp[i].phase = "wallet" /\ redeemOp[i].submitted
    /\ Unlock([redeemOp EXCEPT ![i].phase = "sent", ![i].expired = FALSE])
    /\ UNCHANGED <<acct, changes, chainVars, pageVars, pending, told>>

\* The user refuses what the wallet shows, or the network what has expired.
Refused(i) ==
    /\ redeemOp[i].phase = "wallet" /\ redeemOp[i].prompt
    /\ Unlock([redeemOp EXCEPT ![i].phase = "over", ![i].prompt = FALSE, ![i].expired = FALSE])
    /\ Settled(i, "refused")
    /\ UNCHANGED <<acct, changes, chainVars, positions, replies>>

\* Mutant: the wait is shorter than the transaction is valid.
timesOutSoon(i) ==
    /\ redeemOp[i].phase = "wallet"
    /\ Unlock([redeemOp EXCEPT ![i].phase = "over"]) /\ Settled(i, "timeout")
    /\ UNCHANGED <<acct, changes, chainVars, positions, replies>>

\* withTimeout: 300 s without an answer, whether the user has not decided or
\* the answer was lost.  The prompt stays open.
TimesOut(i) ==
    /\ redeemOp[i].phase = "wallet" /\ redeemOp[i].expired
    /\ Unlock([redeemOp EXCEPT ![i].phase = "over"]) /\ Settled(i, "timeout")
    /\ UNCHANGED <<acct, changes, chainVars, positions, replies>>

\* Consensus, as long as the transaction is valid (of one the wallet answered,
\* at any time): the contract pays what it owes or reverts.  It may come after the client has stopped looking.
Execute(i) ==
    LET a == redeemOp[i].acct  m == redeemOp[i].market
    IN  /\ redeemOp[i].submitted /\ ~redeemOp[i].expired /\ redeemOp[i].fate = "none"
        /\ redeemOp' = [redeemOp EXCEPT ![i].fate = IF m \in won[a] THEN "done" ELSE "reverted"]
        /\ won' = [won EXCEPT ![a] = @ \ {m}]
        /\ UNCHANGED <<acct, changes, resolved, ingested, pageVars, redeemQueue, pending, told>>

Confirm(i) ==
    /\ redeemOp[i].phase = "sent" /\ redeemOp' = [redeemOp EXCEPT ![i].phase = "over"]
    /\ \E outcome \in confirmTx(redeemOp[i].fate) : Settled(i, outcome)
    /\ UNCHANGED <<acct, changes, chainVars, positions, replies, redeemQueue>>
-----------------------------------------------------------------------------
\* The market is resolved; only then does the contract redeem.
Resolve(m) ==
    /\ m \notin resolved /\ resolved' = resolved \cup {m}
    /\ UNCHANGED <<acct, changes, won, ingested, pageVars, redeemOp, redeemQueue, pending, told>>

\* The WinningsRedeemed event reaches the database.
Ingest(a, m) ==
    /\ m \notin won[a] /\ m \notin ingested[a]
    /\ ingested' = [ingested EXCEPT ![a] = @ \cup {m}]
    /\ UNCHANGED <<acct, changes, resolved, won, pageVars, redeemOp, redeemQueue, pending, told>>

RedeemNext ==
    \/ \E a \in Redeemers \cup {NoSigner} : WalletChanges(a)
    \/ \E f \in fetching : Serve(f) \/ FetchFails(f)
    \/ \E r \in replies : Deliver(r)
    \/ RefreshButton
    \/ \E v \in Views, m \in Markets, i \in Redeems : redeem(v, m, i)
    \/ \E v \in Views : cancelRedeem(v)
    \/ \E i \in Redeems :
          \/ Approve(i) \/ Answered(i) \/ Refused(i) \/ ExpireRedeem(i)
          \/ TimesOut(i) \/ Execute(i) \/ Confirm(i)
    \/ \E m \in Markets : Resolve(m)
    \/ \E a \in Redeemers, m \in Markets : Ingest(a, m)

\* The timeouts of withTimeout and of the mirror polls end every call;
\* markets resolve and requests are answered, not every time by a failure.
RedeemFairness ==
    /\ \A i \in Redeems :
          /\ WF_redeemVars(ExpireRedeem(i))
          /\ WF_redeemVars(TimesOut(i)) /\ WF_redeemVars(Confirm(i))
    /\ \A m \in Markets : WF_redeemVars(Resolve(m))
    /\ WF_redeemVars(\E f \in fetching : Serve(f)) /\ WF_redeemVars(\E r \in replies : Deliver(r))

RedeemSpec == RedeemInit /\ [][RedeemNext]_redeemVars /\ RedeemFairness
-----------------------------------------------------------------------------
(* What a view tells the user became of a request is true: "Redeemed" was   *)
(* paid, "failed on-chain" was reverted, and what was refused was neither.  *)
ToldTheTruth ==
    \A v \in Views : told[v].op # 0 =>
        LET fate == redeemOp[told[v].op].fate
        IN  /\ told[v].outcome = "success" => fate = "done"
            /\ told[v].outcome = "failed"  => fate = "reverted"
            /\ told[v].outcome = "refused" => fate = "none"

(* ... and final: a view that was told of the end of a request, or that the *)
(* wallet did not answer, need not fear that it is executed later.  It may  *)
(* have been executed before, if only the answer was lost; the market then  *)
(* stays on offer, since one is taken from the offers ("I just redeemed     *)
(* this") only when a redemption of this page was paid, however it was      *)
(* cancelled, refused, reverted or repeated.                                *)
RedeemIsHonest ==
    /\ [](\A m \in suppressed :
             \E i \in DOMAIN redeemOp : redeemOp[i].market = m /\ redeemOp[i].fate = "done")
    /\ []ToldTheTruth
    /\ [][\A v \in Views : told[v].outcome \in {"success", "failed", "refused", "timeout"} =>
             redeemOp'[told[v].op].fate = redeemOp[told[v].op].fate]_redeemVars

=============================================================================
