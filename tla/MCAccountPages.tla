--------------------------- MODULE MCAccountPages ---------------------------
(***************************************************************************)
(* What the web client shows of an account: the wallet session and the     *)
(* timers that end it, the allowance, the redemption of winnings and the   *)
(* rewards board.  What one needs of another is part of its own module;    *)
(* they share no variable, so a behaviour of the client is one of each,    *)
(* and the instance lets one of them move while the others stay as they    *)
(* start.                                                                  *)
(***************************************************************************)
EXTENDS WalletSession, IdleSession, Allowance, RedeemFlow, TLC

CONSTANTS a1, a2, testnet, mainnet, old, new, m1, m2, m3, m4, None, NoData,
          Listing                                           \* of RewardsBoard

VARIABLES
    part,                                                   \* the part that moves
    rows, filter, sort, cache, mine, failures, reads        \* RewardsBoard

boardVars == <<rows, filter, sort, cache, mine, failures, reads>>
accountVars == <<part, idleVars, sessionVars, allowanceVars, redeemVars, boardVars>>
-----------------------------------------------------------------------------
(* The wallet has two accounts and two networks, switched twice; one market *)
(* is redeemed from both views, or again after a cancellation.  Of the      *)
(* allowance, the reads of two contracts as the page loads; a request while *)
(* they are picked and spent from; or grants and revokes of one of them, two *)
(* at once, with another tab at the wallet.                                 *)
MCCreated == old :> 1 @@ new :> 2

Granting == INSTANCE Allowance WITH Contracts <- {old}, MaxRequests <- 2, MaxSteps <- 0
Picking  == INSTANCE Allowance WITH MaxRequests <- 1

\* The sidebar is open and the first reads have been answered.
SidebarIsOpen ==
    /\ loaded = TRUE /\ picked = NoContract /\ requested = NoContract
    /\ sidebar = TRUE /\ shown = chain[old] /\ reading = {} /\ arrived = {}
    /\ lock = << >> /\ granting = FALSE /\ revoking = FALSE /\ steps = 0

(* Four markets: two categories, one without the mining flag, one excluded.  *)
Listed(id, lom, category, matches) ==
    [id |-> id, active |-> TRUE, lom |-> lom, category |-> category, matches |-> matches]
MCListing == <<Listed(m1, "on", 1, TRUE), Listed(m2, "absent", 1, TRUE),
               Listed(m3, "off", 1, TRUE), Listed(m4, "on", 2, FALSE)>>

Board == INSTANCE RewardsBoard WITH
    Accounts <- {a1, a2}, Markets <- Listing, Me <- a1, Scores <- {0, 2},
    Distances <- {1}, Columns <- {"score"}, Searches <- {FALSE}, Categories <- {0},
    Cap <- 2, Concurrency <- 2, MaxRows <- 2, MaxFailures <- 0, MaxReads <- 2
(* ... and its filters and columns over fewer rows.                          *)
Table == INSTANCE RewardsBoard WITH
    Accounts <- {a1}, Markets <- Listing, Me <- a1, Scores <- {1},
    Distances <- {1}, Columns <- {"score", "yours", "market"}, Searches <- BOOLEAN,
    Categories <- {0, 2}, Cap <- 3, Concurrency <- 2, MaxRows <- 1, MaxFailures <- 1, MaxReads <- 2
-----------------------------------------------------------------------------
AccountInit ==
    /\ part \in {"wallet", "idle", "choosing", "picking", "granting", "redeem", "board", "table"}
    /\ IdleInit
    /\ part # "idle" => session = FALSE
    /\ SessionInit
    /\ part # "wallet" => networkSelected = testnet /\ dapp.session = NoAccount
    /\ CASE part = "granting" ->
              /\ chain \in [{old} -> {0, 1}] /\ mirror = chain /\ SidebarIsOpen
              /\ request = [i \in 1 .. 2 |-> NoRequest]
         [] part = "picking" ->
              /\ chain \in [Contracts -> {0, 1}] /\ mirror = chain /\ SidebarIsOpen
              /\ request = <<NoRequest>>
         [] OTHER -> AllowanceInit /\ (part # "choosing" => \A c \in Contracts : chain[c] = 1)
    /\ RedeemInit
    /\ Board!Init

\* The step of a part p leaves the others alone.
Alone(p) ==
    /\ part = p /\ UNCHANGED part
    /\ IF p = "idle" THEN TRUE ELSE UNCHANGED idleVars
    /\ IF p = "wallet" THEN TRUE ELSE UNCHANGED sessionVars
    /\ IF p \in {"choosing", "picking", "granting"} THEN TRUE ELSE UNCHANGED allowanceVars
    /\ IF p = "redeem" THEN TRUE ELSE UNCHANGED redeemVars
    /\ IF p \in {"board", "table"} THEN TRUE ELSE UNCHANGED boardVars

AccountNext ==
    \/ Alone("idle") /\ IdleNext
    \/ Alone("wallet") /\ SessionNext
    \/ Alone("granting") /\ Granting!AllowanceNext
    \/ Alone("picking") /\ Picking!AllowanceNext
    \/ Alone("choosing") /\ AllowanceNext
    \/ Alone("redeem") /\ RedeemNext
    \/ Alone("board") /\ Board!Next
    \/ Alone("table") /\ Table!Next

\* What goes on by itself: a teardown settles, timers fire, the polls of a
\* confirmation end, requests are answered, as in the Fairness of each module.
AccountFairness ==
    /\ WF_sessionVars(Alone("wallet") /\ \E ok \in BOOLEAN : DisconnectEnds(ok))
    /\ \A i \in 1 .. 2 :
          /\ WF_allowanceVars(Alone("granting") /\ Granting!Frozen(i))
          /\ WF_allowanceVars(Alone("granting") /\ Granting!GraceOver(i))
          /\ WF_allowanceVars(Alone("granting") /\ Granting!Timeout(i))
          /\ WF_allowanceVars(Alone("granting") /\ Granting!ConfirmRequest(i))
          /\ WF_allowanceVars(Alone("granting") /\ Granting!Reconcile(i))
          /\ WF_redeemVars(Alone("redeem") /\ ExpireRedeem(i))
          /\ WF_redeemVars(Alone("redeem") /\ TimesOut(i))
          /\ WF_redeemVars(Alone("redeem") /\ Confirm(i))
    /\ WF_allowanceVars(Alone("granting") /\ (Granting!AllowanceTick \/ Granting!OtherTabEnds))
    /\ WF_boardVars((Alone("board") \/ Alone("table")) /\ \E key \in DOMAIN cache : \E i \in DOMAIN key :
                        Board!GetRewardsByMarketId(key, i))

AccountSpec == AccountInit /\ [][AccountNext]_accountVars /\ AccountFairness
-----------------------------------------------------------------------------
(* The properties of the first four are those of their modules, which hold  *)
(* at the start and as long as another part moves.                          *)

\* The rewards board (useLomRewards.ts, rewardsMath.ts, RewardsPage.tsx): whatever
\* the order of the answers and whichever fail, each place of a result has rows
\* of its own market, the leaderboard adds up to the markets' statistics, and
\* the table is complete and in its order.
BoardIsRight ==
    /\ part = "board" => Board!PoolIsOrderly /\ Board!BoardAddsUp /\ Board!TableIsSorted
    /\ part = "table" => Table!PoolIsOrderly /\ Table!BoardAddsUp /\ Table!TableIsSorted

\* No button and no table waits for ever, however wallet, relay, receipt and
\* mirror node behave: the wallet button, those of a grant and of a revoke, the
\* redemption of each view, the query of the board.
AccountRecovers == \A k \in 1 .. 2 : []<>
    CASE part = "wallet" -> ~isWalletLoading
      [] part = "granting" -> IF k = 1 THEN ~granting ELSE ~revoking
      [] part = "redeem" -> pending[IF k = 1 THEN "notice" ELSE "portfolio"] = 0
      [] part = "board" -> ~Board!Busy(Board!Key([search |-> FALSE, category |-> 0]))
      [] part = "table" -> ~Table!Busy(Table!Key([search |-> FALSE, category |-> 2 * (k - 1)]))
      [] OTHER -> TRUE
=============================================================================
