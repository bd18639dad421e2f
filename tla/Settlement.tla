----------------------------- MODULE Settlement -----------------------------
(***************************************************************************)
(* The settlement worker of the API: services/settlementV2.go driven by    *)
(* HandleOrderMatches (services/nats.go), with the tables matches and      *)
(* prediction_intents, the chain and its lagging mirror node.              *)
(*                                                                         *)
(* Every call of the worker to the database, the mirror node, the network  *)
(* or JetStream is a step of its own; any of them can fail and the process *)
(* can crash between two of them.  JetStream redelivers a message whose    *)
(* acknowledgement does not come in time, to another instance of the API   *)
(* too, so two workers can be busy with the same match.                    *)
(*                                                                         *)
(* What the contract does with a submitted settlement is reduced to: it    *)
(* executes once and within the orders, or it reverts for a reason of its  *)
(* own.  The structural checks at the start of settleMatchV2 depend only   *)
(* on the message and are taken to pass.                                   *)
(***************************************************************************)
EXTENDS Integers, Sequences, FiniteSets, Functions

CONSTANTS
    Matches, Orders,
    Bid, Ask, Shares, Collateral,
    Qty, Cap,        \* what the orders authorize; the cap of a sale is out of reach
    Published,       \* the messages of the stream, in order
    Workers,         \* instances of the API
    MaxDeliver,      \* JetStream's limit on deliveries; 0 means none
    CancelArgs,      \* bound: orders that get cancelled or evicted
    ExpireArgs,      \* bound: orders that reach their deadline
    MaxCrashes       \* bound

Legs(m) == {Bid[m], Ask[m]}

ASSUME SettlementAssumption ==
    /\ IsFiniteSet(Matches)
    /\ Bid \in [Matches -> Orders] /\ Ask \in [Matches -> Orders]
    /\ \A m \in Matches : Bid[m] # Ask[m]
    /\ Shares \in [Matches -> Nat]
    /\ Collateral \in [Matches -> [Orders -> Nat]]
    /\ Qty \in [Orders -> Nat] /\ Cap \in [Orders -> Nat]
    /\ Published \in Seq(Matches)
    /\ MaxDeliver \in Nat /\ MaxCrashes \in Nat
    /\ CancelArgs \subseteq Orders /\ ExpireArgs \subseteq Orders

VARIABLES
    queue,        \* CLOB_MATCHES, the work-queue stream
    leased,       \* its head is out and not acknowledged (MaxAckPending is 1)
    deliveries,   \* how often a message was delivered
    workers,      \* what each instance is doing
    rows,         \* table matches: status, and whether attempts is positive
    filled,       \* table prediction_intents: shares_filled, collateral_filled
    cancelled,    \* table prediction_intents: cancelled_at or evicted_at is set
    expired,      \* orders whose deadline has passed
    executed,     \* executedMatches of the contract
    mirror,       \* the part of executed that the mirror node shows
    orphans,      \* matches with a pending transaction nobody waits for
    booked,       \* how often recordFillBookkeeping ran
    refused,      \* messages that were terminated
    crashes

streamVars == <<queue, leased, deliveries, refused>>
dbVars == <<rows, filled, cancelled, booked>>
chainVars == <<executed, mirror, orphans, expired>>
vars == <<streamVars, dbVars, chainVars, workers, crashes>>

\* An instance at work on m.  attempted and clear are what it has read: whether
\* matches.attempts is positive, and whether the order rows still allow the fill.
Working(m) ==
    [pc |-> "load", m |-> m, attempted |-> FALSE, clear |-> TRUE, tx |-> "none", outcome |-> "retry"]
Idle == [Working("none") EXCEPT !.pc = "idle"]

Zero == [shares |-> 0, collateral |-> 0]

Init ==
    /\ queue = Published
    /\ leased = FALSE
    /\ deliveries = [m \in Matches |-> 0]
    /\ workers = [w \in Workers |-> Idle]
    /\ rows = [m \in Matches |-> [status |-> "none", attempted |-> FALSE]]
    /\ filled = [o \in Orders |-> Zero]
    /\ cancelled = {} /\ expired = {}
    /\ executed = {} /\ mirror = {} /\ orphans = {}
    /\ booked = [m \in Matches |-> 0]
    /\ refused = {}
    /\ crashes = 0

-----------------------------------------------------------------------------
(* JetStream. *)

Deliver(w) ==
    /\ workers[w].pc = "idle"
    /\ queue # <<>> /\ ~leased
    /\ MaxDeliver = 0 \/ deliveries[Head(queue)] < MaxDeliver
    /\ leased' = TRUE
    /\ deliveries' = IF MaxDeliver = 0 THEN deliveries ELSE [deliveries EXCEPT ![Head(queue)] = @ + 1]
    /\ workers' = [workers EXCEPT ![w] = Working(Head(queue))]
    /\ UNCHANGED <<queue, refused, dbVars, chainVars, crashes>>

\* AckWait runs out, whether the worker is slow or dead.
AckWaitExpires ==
    /\ leased
    /\ leased' = FALSE
    /\ UNCHANGED <<queue, deliveries, refused, dbVars, chainVars, workers, crashes>>

\* After MaxDeliver deliveries the consumer goes on to the next message.
GiveUp ==
    /\ queue # <<>> /\ ~leased
    /\ MaxDeliver # 0 /\ deliveries[Head(queue)] >= MaxDeliver
    /\ queue' = Tail(queue)
    /\ UNCHANGED <<leased, deliveries, refused, dbVars, chainVars, workers, crashes>>

-----------------------------------------------------------------------------
(* settleMatchV2. *)

\* Worker w goes from one place to another and leaves the rest of itself alone.
At(w, pc) == workers[w].pc = pc
Goto(w, pc) == workers' = [workers EXCEPT ![w].pc = pc]
Reply(w, outcome) == workers' = [workers EXCEPT ![w].pc = "reply", ![w].outcome = outcome]

Fits(fills, o, m) ==
    /\ fills[o].shares + Shares[m] <= Qty[o]
    /\ fills[o].collateral + Collateral[m][o] <= Cap[o]

\* The two order rows are read first; what they allow is decided on this read.
LoadOrders(w) ==
    LET m == workers[w].m
    IN  /\ At(w, "load")
        /\ workers' = [workers EXCEPT
               ![w].pc = "create",
               ![w].clear = Legs(m) \cap cancelled = {} /\ \A o \in Legs(m) : Fits(filled, o, m)]
        /\ UNCHANGED <<streamVars, dbVars, chainVars, crashes>>

\* Mutant: a match that failed once is taken to be done with.
CreateStopsAtFailed(w) ==
    LET m == workers[w].m
    IN  /\ At(w, "create")
        /\ rows' = [rows EXCEPT ![m].status = IF @ = "none" THEN "pending" ELSE @]
        /\ IF rows[m].status \in {"failed", "finalized"}
           THEN Reply(w, "done")
           ELSE workers' = [workers EXCEPT ![w].pc = "check", ![w].attempted = rows[m].attempted]
        /\ UNCHANGED <<streamVars, filled, cancelled, booked, chainVars, crashes>>

CreateMatchV2(w) ==
    LET m == workers[w].m
    IN  /\ At(w, "create")
        /\ rows' = [rows EXCEPT ![m].status = IF @ = "none" THEN "pending" ELSE @]
        /\ IF rows[m].status = "finalized"
           THEN Reply(w, "done")
           ELSE workers' = [workers EXCEPT ![w].pc = "check", ![w].attempted = rows[m].attempted]
        /\ UNCHANGED <<streamVars, filled, cancelled, booked, chainVars, crashes>>

\* The mirror node is asked, then a new submission is gated.
CheckExecuted(w) ==
    LET m == workers[w].m
    IN  /\ At(w, "check")
        /\ IF m \in mirror THEN Goto(w, "finalize")
           ELSE IF workers[w].clear /\ Legs(m) \cap expired = {} THEN Goto(w, "submit")
           ELSE workers' = [workers EXCEPT
                    ![w].pc = "markFailed",
                    ![w].outcome = IF workers[w].attempted THEN "retry" ELSE "rejected"]
        /\ UNCHANGED <<streamVars, dbVars, chainVars, crashes>>

\* SubmitSettlement: the network accepts the transaction ...
ExecuteAccepted(w) ==
    /\ At(w, "submit")
    /\ workers' = [workers EXCEPT ![w].pc = "markSubmitted", ![w].tx = "pending"]
    /\ UNCHANGED <<streamVars, dbVars, chainVars, crashes>>

\* ... or Execute returns an error, and the transaction may have got through.
ExecuteFails(w) ==
    /\ At(w, "submit")
    /\ orphans' \in {orphans, orphans \cup {workers[w].m}}
    /\ Goto(w, "recheck")
    /\ UNCHANGED <<streamVars, dbVars, executed, mirror, expired, crashes>>

\* The callback onSubmitted; its failure is only logged.
MarkMatchSubmitted(w) ==
    LET m == workers[w].m
    IN  /\ At(w, "markSubmitted")
        /\ \/ rows' = IF rows[m].status = "finalized" THEN rows
                      ELSE [rows EXCEPT ![m] = [status |-> "submitted", attempted |-> TRUE]]
           \/ rows' = rows
        /\ Goto(w, "receipt")
        /\ UNCHANGED <<streamVars, filled, cancelled, booked, chainVars, crashes>>

\* The receipt tells the outcome, or the wait for it fails.
GetReceipt(w) ==
    LET tx == workers[w].tx
    IN  /\ At(w, "receipt")
        /\ \/ tx = "success" /\ Goto(w, "finalize") /\ UNCHANGED orphans
           \/ /\ workers' = [workers EXCEPT ![w].pc = "recheck", ![w].tx = "none"]
              /\ orphans' = IF tx = "pending" THEN orphans \cup {workers[w].m} ELSE orphans
        /\ UNCHANGED <<streamVars, dbVars, executed, mirror, expired, crashes>>

\* Mutant: a lost receipt is taken for a success.
RecheckTrusts(w) ==
    /\ At(w, "recheck")
    /\ Goto(w, "finalize")
    /\ UNCHANGED <<streamVars, dbVars, chainVars, crashes>>

\* The mirror node is asked again; it may not know yet, or not answer.
Recheck(w) ==
    /\ At(w, "recheck")
    /\ \/ workers[w].m \in mirror /\ Goto(w, "finalize")
       \/ workers' = [workers EXCEPT ![w].pc = "markFailed", ![w].outcome = "retry"]
    /\ UNCHANGED <<streamVars, dbVars, chainVars, crashes>>

\* A failure to write the row is only logged.
MarkMatchFailed(w) ==
    LET m == workers[w].m
    IN  /\ At(w, "markFailed")
        /\ \/ rows' = [rows EXCEPT ![m].status = IF @ = "finalized" THEN @ ELSE "failed"]
           \/ rows' = rows
        /\ Goto(w, "reply")
        /\ UNCHANGED <<streamVars, filled, cancelled, booked, chainVars, crashes>>

\* The fill state of the orders with match m added (AddPredictionIntentFill).
Credited(fills, m) ==
    [o \in Orders |->
        IF o \in Legs(m)
        THEN [shares |-> fills[o].shares + Shares[m],
              collateral |-> fills[o].collateral + Collateral[m][o]]
        ELSE fills[o]]

\* Mutant: the row's status is not looked at.
FinalizeAgain(w) ==
    LET m == workers[w].m
    IN  /\ At(w, "finalize")
        /\ rows' = [rows EXCEPT ![m].status = "finalized"]
        /\ filled' = Credited(filled, m)
        /\ Goto(w, "book")
        /\ UNCHANGED <<streamVars, cancelled, booked, chainVars, crashes>>

\* One database transaction; it applies only if the row was not final yet.
FinalizeMatchV2(w) ==
    LET m == workers[w].m
    IN  /\ At(w, "finalize")
        /\ IF rows[m].status = "finalized"
           THEN Reply(w, "done") /\ UNCHANGED <<rows, filled>>
           ELSE /\ rows' = [rows EXCEPT ![m].status = "finalized"]
                /\ filled' = Credited(filled, m)
                /\ Goto(w, "book")
        /\ UNCHANGED <<streamVars, cancelled, booked, chainVars, crashes>>

recordFillBookkeeping(w) ==
    /\ At(w, "book")
    /\ booked' = [booked EXCEPT ![workers[w].m] = @ + 1]
    /\ Reply(w, "done")
    /\ UNCHANGED <<streamVars, rows, filled, cancelled, chainVars, crashes>>

\* A database or mirror node error before the submission, or in the final transaction.
CallFails(w) ==
    /\ workers[w].pc \in {"load", "create", "check", "finalize"}
    /\ Reply(w, "retry")
    /\ UNCHANGED <<streamVars, dbVars, chainVars, crashes>>

\* Ack, NakWithDelay or Term, which may be lost.  The message is the head of the
\* queue unless another worker has dealt with it.
Respond(w) ==
    LET m == workers[w].m
        outcome == workers[w].outcome
        isHead == queue # <<>> /\ Head(queue) = m
    IN  /\ At(w, "reply")
        /\ \/ /\ leased' = (leased /\ ~isHead)
              /\ queue' = IF isHead /\ outcome # "retry" THEN Tail(queue) ELSE queue
              /\ refused' = IF outcome = "rejected" THEN refused \cup {m} ELSE refused
           \/ UNCHANGED <<queue, leased, refused>>
        /\ workers' = [workers EXCEPT ![w] = Idle]
        /\ UNCHANGED <<deliveries, dbVars, chainVars, crashes>>

\* The instance dies wherever it is; a transaction it submitted lives on.
Crash(w) ==
    /\ workers[w].pc # "idle"
    /\ crashes < MaxCrashes
    /\ crashes' = crashes + 1
    /\ workers' = [workers EXCEPT ![w] = Idle]
    /\ orphans' = IF workers[w].tx = "pending" THEN orphans \cup {workers[w].m} ELSE orphans
    /\ UNCHANGED <<streamVars, dbVars, executed, mirror, expired>>

-----------------------------------------------------------------------------
(* The world around the worker. *)

\* The contract's own account of an order, and what makes it execute a fill.
OnChain(o) ==
    LET mine == {m \in executed : o \in Legs(m)}
    IN  [shares |-> SumFunctionOnSet(Shares, mine),
         collateral |-> SumFunctionOnSet([m \in Matches |-> Collateral[m][o]], mine)]

Accepts(m) ==
    /\ m \notin executed
    /\ \A o \in Legs(m) : o \notin expired /\ Fits([p \in {o} |-> OnChain(p)], o, m)

\* Consensus on a transaction a worker waits for: it executes or reverts.
Consensus(w) ==
    /\ workers[w].pc # "idle" /\ workers[w].tx = "pending"
    /\ \/ /\ Accepts(workers[w].m)
          /\ executed' = executed \cup {workers[w].m}
          /\ workers' = [workers EXCEPT ![w].tx = "success"]
       \/ /\ workers' = [workers EXCEPT ![w].tx = "reverted"]
          /\ UNCHANGED executed
    /\ UNCHANGED <<streamVars, dbVars, mirror, orphans, expired, crashes>>

\* Consensus on one that nobody waits for.
OrphanConsensus(m) ==
    /\ m \in orphans
    /\ orphans' = orphans \ {m}
    /\ executed' \in {executed} \cup (IF Accepts(m) THEN {executed \cup {m}} ELSE {})
    /\ UNCHANGED <<streamVars, dbVars, mirror, expired, workers, crashes>>

MirrorCatchesUp(m) ==
    /\ m \in executed \ mirror
    /\ mirror' = mirror \cup {m}
    /\ UNCHANGED <<streamVars, dbVars, executed, orphans, expired, workers, crashes>>

\* CancelPredictionIntent and the eviction of unfunded orders set a timestamp.
CancelOrder(o) ==
    /\ o \notin cancelled
    /\ filled[o].shares < Qty[o]
    /\ cancelled' = cancelled \cup {o}
    /\ UNCHANGED <<streamVars, rows, filled, booked, chainVars, workers, crashes>>

Expire(o) ==
    /\ o \notin expired
    /\ expired' = expired \cup {o}
    /\ UNCHANGED <<streamVars, dbVars, executed, mirror, orphans, workers, crashes>>

Step(w) ==
    \/ LoadOrders(w) \/ CreateMatchV2(w) \/ CheckExecuted(w)
    \/ ExecuteAccepted(w) \/ ExecuteFails(w) \/ MarkMatchSubmitted(w) \/ GetReceipt(w)
    \/ Recheck(w) \/ MarkMatchFailed(w)
    \/ FinalizeMatchV2(w) \/ recordFillBookkeeping(w)
    \/ CallFails(w) \/ Respond(w)

Next ==
    \/ \E w \in Workers : Deliver(w) \/ Step(w) \/ Crash(w) \/ Consensus(w)
    \/ AckWaitExpires \/ GiveUp
    \/ \E m \in Matches : OrphanConsensus(m) \/ MirrorCatchesUp(m)
    \/ \E o \in CancelArgs : CancelOrder(o)
    \/ \E o \in ExpireArgs : Expire(o)

Spec == Init /\ [][Next]_vars

\* A worker keeps going, JetStream redelivers, the mirror node catches up, and
\* a database that can commit the final transaction again and again does so.
FairSpec ==
    /\ Spec
    /\ \A w \in Workers : /\ WF_vars(Step(w)) /\ WF_vars(Deliver(w))
                          /\ SF_vars(LoadOrders(w)) /\ SF_vars(CreateMatchV2(w))
                          /\ SF_vars(CheckExecuted(w)) /\ SF_vars(FinalizeMatchV2(w))
    /\ WF_vars(AckWaitExpires)
    /\ \A m \in Matches : WF_vars(MirrorCatchesUp(m))

-----------------------------------------------------------------------------
(* Properties. *)

RowType == [status : {"none", "pending", "submitted", "failed", "finalized"}, attempted : BOOLEAN]

WorkerType ==
    [pc : {"idle", "load", "create", "check", "submit", "markSubmitted", "receipt", "recheck",
           "markFailed", "finalize", "book", "reply"},
     m : Matches \cup {"none"}, attempted : BOOLEAN, clear : BOOLEAN,
     tx : {"none", "pending", "success", "reverted"},
     outcome : {"done", "retry", "rejected"}]

StreamTypeOK ==
    /\ queue \in Seq(Matches)
    /\ leased \in BOOLEAN
    /\ deliveries \in [Matches -> Nat]
    /\ refused \in SUBSET Matches
WorkersTypeOK ==
    /\ workers \in [Workers -> WorkerType]
    /\ \A w \in Workers : workers[w].pc # "idle" => workers[w].m \in Matches
DbTypeOK ==
    /\ rows \in [Matches -> RowType]
    /\ filled \in [Orders -> [shares : Nat, collateral : Nat]]
    /\ cancelled \in SUBSET Orders
    /\ booked \in [Matches -> Nat]
ChainTypeOK ==
    /\ executed \in SUBSET Matches
    /\ mirror \in SUBSET Matches
    /\ orphans \in SUBSET Matches
    /\ expired \in SUBSET Orders

\* Type invariant of the stream, the instances, the tables and the chain.
TypeOK == StreamTypeOK /\ WorkersTypeOK /\ DbTypeOK /\ ChainTypeOK /\ crashes \in 0 .. MaxCrashes

Finalized == {m \in Matches : rows[m].status = "finalized"}

\* Settlement keeps the promise of MatchLedger: nothing is recorded that the
\* chain has not executed and every recorded fill is counted exactly once,
\* with redelivery, two instances at once, lost receipts and crashes.
Ledger == INSTANCE MatchLedger WITH recorded <- Finalized, ledger <- filled
ImplementsLedger == Ledger!LedgerSpec

\* The database never runs ahead of the contract: for every order, what it
\* counts as filled is at most what the contract has consumed ("counts only
\* finalized fills, exactly like the contract", settlementV2.go:178), so the
\* remaining quantity it reports is never too small.
NeverAheadOfChain ==
    \A o \in Orders : /\ filled[o].shares <= OnChain(o).shares
                      /\ filled[o].collateral <= OnChain(o).collateral

\* Prices, positions and volume are derived from a fill at most once, and only
\* from a recorded one ("fill bookkeeping runs exactly once", matches.sql:97):
\* a crash can lose the bookkeeping, a redelivery can not repeat it.
BookedAtMostOnce == \A m \in Matches : booked[m] <= IF m \in Finalized THEN 1 ELSE 0

\* "a fill that already executed has to be finalized even if an order has
\* since been cancelled, expired or (in the database) filled further"
\* (settlementV2.go:145-147): its message is never terminated.
ExecutedNotRefused == [][\A m \in refused' \ refused : m \notin executed]_vars

\* What has executed is eventually recorded, however often receipts are lost
\* and calls fail: the worker never needs to see the receipt.
ExecutedGetsRecorded == \A m \in Matches : m \in executed ~> m \in Finalized
=============================================================================
