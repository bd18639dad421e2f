---------------------------- MODULE MCBackOffice ----------------------------
(***************************************************************************)
(* The jobs around book and settlement: the administration of markets, the *)
(* rebuild of the book, the funding of orders, cancellations, the claim of *)
(* rewards and the relay of contract events.  They share no variable, so a *)
(* behaviour of them all is one of each, and the instance lets one of them *)
(* move while the others stay as they start.                               *)
(***************************************************************************)
EXTENDS MarketAdmin, BookRebuild, OrderFunding, Requests, TLC

CONSTANTS m1, a1, a2, o1, o2, t1, t2, c1, c2, h1, h2, NoPass,
          Parts                                             \* the parts of a run

VARIABLES
    part,                                                   \* the part that moves
    now, at, visible, phase, host, stack, passes, nextPoll, natsOpen, apiUp, inbox,
    handling, rows, mirrored, marked, pubs, sent, since,
    budget                                                  \* EventRelay

relayVars == <<now, at, visible, phase, host, stack, passes, nextPoll, natsOpen, apiUp, inbox,
               handling, rows, mirrored, marked, pubs, sent, since,
               budget>>
officeVars == <<part, adminVars, vars, fundingVars, requestVars, relayVars>>
-----------------------------------------------------------------------------
(* One market, created, resolved in two ways and deleted.                    *)
Job(id, op, outcome) == [id |-> id, op |-> op, market |-> m1, outcome |-> outcome]
MCJobs == {Job(1, "create", "void"), Job(2, "resolve", "yes"), Job(3, "resolve", "void"),
           Job(4, "delete", "void")}

(* A bid and two asks.  Either the asks compete for the bid across a crash;  *)
(* or one ask is placed and a step may fail, or an order may be cancelled.   *)
O(txId, side, action, limit, qty, cap) ==
    [txId |-> txId, marketId |-> m1, evmAddress |-> txId, accountId |-> txId,
     side |-> side, action |-> action, limitYesPrice |-> limit, qtyShares |-> qty,
     collateralCap |-> cap, deadline |-> 9, sharesFilled |-> 0, collateralFilled |-> 0]
MCOrders == {O("b", "YES", "BUY", 3, 9, 5), O("a1", "NO", "BUY", 2, 4, 3), O("a2", "YES", "SELL", 2, 4, 0)}

ASSUME OrdersAreSigned == OrdersAsSigned

OnePair == ~intents'["a2"].accepted
RebuildNext(p) ==
    /\ Next
    /\ CASE p = "rebuild"  -> cancels' = 0 /\ faults' = 0 /\ ends' = 0
         [] p = "faulty"   -> OnePair /\ cancels' = 0
         [] p = "restarts" -> OnePair /\ faults' = 0 /\ ends' = 0

(* Two SELLs that cannot both be covered, with a BUY, or with a transfer.    *)
Ordered(action, qty) == [market |-> 1, action |-> action, side |-> "YES", qty |-> qty]
MCSellTerms == <<Ordered("SELL", 2), Ordered("SELL", 1), Ordered("BUY", 1)>>
MCSellFunds == (<<0, "USDC">> :> 1) @@ (<<1, "YES">> :> 2) @@ (<<1, "NO">> :> 0)

(* Two accounts with an order each, o2 a sell; or one that leaves the page.  *)
MCTwoOwners == (o1 :> a1) @@ (o2 :> a2)
MCOneOwner == o2 :> a1

(* Overlapping passes over two contracts; a long look-back over one; the     *)
(* API's tables when both processes fail.                                    *)
NoAnswer == {[lookback |-> 0, to |-> 0]}
Window == [lookback |-> 2, to |-> 2]

Relay == INSTANCE EventRelay WITH
    Contracts <- {c1, c2}, Hosts <- {h1}, ContractOf <- <<c1, c2>>,
    KindOf <- <<"other", "other">>, Decodable <- {1, 2}, Lookback <- 2,
    InitialLookback <- 3, Freq <- 1, StackSize <- 1, PageSize <- 1,
    Answers <- NoAnswer \cup {[lookback |-> 3, to |-> 1]}, Backfills <- {Window}, Lag <- 1,
    PassTime <- 1, MaxTime <- 1, MaxPasses <- 4, MaxFailures <- 0, MaxRestarts <- 0,
    MaxBackfills <- 0, MaxApiCrashes <- 0, MaxDbErrors <- 0, MaxCloses <- 1, MaxPublished <- 3
LookBack == INSTANCE EventRelay WITH
    Contracts <- {c1}, Hosts <- {h1}, ContractOf <- <<c1>>,
    KindOf <- <<"other">>, Decodable <- {1}, Lookback <- 4,
    InitialLookback <- 4, Freq <- 1, StackSize <- 1, PageSize <- 1,
    Answers <- NoAnswer, Backfills <- {Window}, Lag <- 1,
    PassTime <- 1, MaxTime <- 5, MaxPasses <- 3, MaxFailures <- 1, MaxRestarts <- 0,
    MaxBackfills <- 0, MaxApiCrashes <- 0, MaxDbErrors <- 0, MaxCloses <- 0, MaxPublished <- 4
Stored == INSTANCE EventRelay WITH
    Contracts <- {c1}, Hosts <- {h1, h2}, ContractOf <- <<c1, c1>>,
    KindOf <- <<"resolution", "redeemed">>, Decodable <- {1, 2}, Lookback <- 2,
    InitialLookback <- 3, Freq <- 1, StackSize <- 1, PageSize <- 1,
    Answers <- NoAnswer, Backfills <- {Window}, Lag <- 1,
    PassTime <- 1, MaxTime <- 0, MaxPasses <- 2, MaxFailures <- 0, MaxRestarts <- 1,
    MaxBackfills <- 1, MaxApiCrashes <- 1, MaxDbErrors <- 1, MaxCloses <- 0, MaxPublished <- 3
-----------------------------------------------------------------------------
OfficeInit ==
    /\ part \in Parts
    /\ AdminInit
    /\ Init
    /\ FundingInit
    /\ RequestsInit
    /\ part # "cancel" => wallet.signer = a1
    /\ part \notin {"claim", "claiming"} => associated /\ \A r \in DOMAIN reward : reward[r] = "open"
    /\ CASE part = "relay" -> Relay!Init
         [] part = "lookback" -> LookBack!Init
         [] OTHER -> Stored!Init

\* The step of a part p leaves the others alone.
Alone(p) ==
    /\ part = p /\ UNCHANGED part
    /\ IF p = "admin" THEN TRUE ELSE UNCHANGED adminVars
    /\ IF p \in {"rebuild", "faulty", "restarts"} THEN TRUE ELSE UNCHANGED vars
    /\ IF p = "funding" THEN TRUE ELSE UNCHANGED fundingVars
    /\ IF p \in {"cancel", "page"} THEN TRUE ELSE UNCHANGED cancelVars
    /\ IF p \in {"claim", "claiming"} THEN TRUE ELSE UNCHANGED claimVars
    /\ IF p \in {"relay", "lookback", "stored"} THEN TRUE ELSE UNCHANGED relayVars

OfficeNext ==
    \/ Alone("admin") /\ AdminNext
    \/ \E p \in {"rebuild", "faulty", "restarts"} : Alone(p) /\ RebuildNext(p)
    \/ Alone("funding") /\ FundingNext
    \/ \E p \in {"cancel", "page"} : Alone(p) /\ CancelNext
    \/ \E p \in {"claim", "claiming"} : Alone(p) /\ ClaimNext
    \/ Alone("relay") /\ Relay!Next
    \/ Alone("lookback") /\ LookBack!Next
    \/ Alone("stored") /\ Stored!Next

\* What goes on by itself, as in the specification of each module: the k-th of the
\* actions of a part that are fair.  A behaviour has one part, so the fairness of
\* a part's k-th action is that of the disjunction.
Task(k) ==
    \/ Alone("admin") /\ \/ k = 1 /\ MirrorCatchesUp
                         \/ k = 2 /\ ReadMarkets
                         \/ k = 3 /\ RecreateMarket
                         \/ \E c \in Jobs : \/ k = 3 + c.id /\ Work(c)
                                            \/ k = 7 + c.id /\ c.op # "delete" /\ Begin(c)
    \/ Alone("restarts") /\ \/ k = 1 /\ OutboxWorks
                            \/ k = 2 /\ ClobWorks
                            \/ k = 3 /\ Start
                            \/ k = 4 /\ RebuildWorks
    \/ Alone("funding") /\ \/ k = 1 /\ Cron
                           \/ k = 2 /\ HoldingsCatchUp
                           \/ \E o \in PlacedOrders : k = 2 + o /\ FillIsBooked(o)
    \/ Alone("page") /\ k \in 1 .. 2 /\ CancelStep(k)
    \/ Alone("claiming") /\ \/ k = 1 /\ ClaimAnswered(t1)
                            \/ k = 2 /\ (Refreshed(t1) \/ RefreshFails(t1))
                            \/ k = 3 /\ ClaimAnswered(t2)
                            \/ k = 4 /\ (Refreshed(t2) \/ RefreshFails(t2))
                            \/ /\ k - 4 \in DOMAIN claims
                               /\ ClaimWallet(k - 4) \/ ClaimPrism(k - 4)

OfficeFairness ==
    /\ \A k \in 1 .. 10 : WF_officeVars(Task(k))
    /\ []<>(part = "restarts" => clob.hand = 0 \/ clob.placed)   \* Placing

OfficeSafety == OfficeInit /\ [][OfficeNext]_officeVars
OfficeSpec == OfficeSafety /\ OfficeFairness
-----------------------------------------------------------------------------
\* The relay (blocknode, nats.go): repeats are spaced by the stack, a pass that
\* ends has put forward all it saw, no event falls between two polls, and each
\* is one row per name of the relay, handled to the end unless something failed.
RelayIsFaithful ==
    /\ [](/\ part = "relay" => Relay!RepeatsAreSpaced
          /\ part = "lookback" => LookBack!NoGap
          /\ part = "stored" => Stored!StoredOnce)
    /\ [][/\ part = "relay" => Relay!PassEndsComplete
          /\ part = "lookback" => LookBack!PassEndsComplete]_relayVars

\* What must come comes: a decision on chain reaches the database, an open order
\* comes back after restarts, buttons of cancellation and claim come back, and
\* in the end only backed orders are open.
OfficeRecovers ==
    /\ \A k \in 1 .. 2 : []<>
         CASE part = "admin" -> \A m \in Markets : chain[m] \in Outcomes =>
                                    row[m].outcome = chain[m] \/ row[m].st # "live"
           [] part = "restarts" -> Known(IF k = 1 THEN "b" ELSE "a1")
           [] part = "page" -> ~page.isLoading
           [] part = "claiming" -> ui[IF k = 1 THEN t1 ELSE t2].claiming = "idle"
           [] OTHER -> TRUE
    /\ <>[](part = "funding" => AllBacked)
=============================================================================
