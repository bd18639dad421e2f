----------------------------- MODULE MarketAdmin -----------------------------
(***************************************************************************)
(* The life of a market across the four places that know of it: the        *)
(* contract, the CLOB, the row in markets and the HCS topic.  Creating,    *)
(* resolving and deleting a market are sequences of calls, each of which   *)
(* can fail, with or without effect, and are repeated by the administrator *)
(* when they fail.  Meanwhile the mirror node lags, the market closes, is  *)
(* paused and resumed, and the CLOB restarts and is rebuilt.               *)
(***************************************************************************)
EXTENDS Integers, FiniteSets

CONSTANTS
    Markets,
    Jobs,           \* the administrators' jobs: [id, op, market, outcome]
    MaxAdminFaults, MaxToggles   \* bounds: failing steps and CLOB crashes, pauses

Outcomes == {"yes", "no", "void"}
Unset == "none"

ASSUME AdminAssumption ==
    \A c \in Jobs : c.op \in {"create", "resolve", "delete"} /\ c.market \in Markets /\ c.outcome \in Outcomes

VARIABLES
    chain,      \* PrismV2.markets: "uninitialized", "open" or an outcome
    mirror,     \* the mirror node's copy
    closed,     \* markets past their close time
    row,        \* markets: [st, outcome, paused]
    book,       \* the markets the CLOB has a book for
    rebuild,    \* TriggerRecreateClob: [step, todo]
    logged,     \* resolutions on the HCS topic
    step,       \* where each call is
    adminFaults, toggles

adminVars == <<chain, mirror, closed, row, book, rebuild, logged, step, adminFaults, toggles>>
places == <<chain, row, book, logged>>
around == <<mirror, closed, rebuild, toggles>>

AdminFault == adminFaults < MaxAdminFaults /\ adminFaults' = adminFaults + 1

AdminInit ==
    /\ chain = [m \in Markets |-> "uninitialized"] /\ mirror = chain
    /\ closed = {}
    /\ row = [m \in Markets |-> [st |-> Unset, outcome |-> Unset, paused |-> FALSE]]
    /\ book = {} /\ rebuild = [step |-> "idle", todo |-> {}]
    /\ logged = {}
    /\ step = [c \in Jobs |-> "idle"]
    /\ adminFaults = 0 /\ toggles = 0

-----------------------------------------------------------------------------
(* One call.  A step that fails ends it: with its effect, when only the    *)
(* answer was lost, or without (Abort).                                    *)

StepTo(c, next) == step' = [step EXCEPT ![c] = next]
\* The effect took place; the caller learns it, or the answer is lost.
Answered(c, next) == \/ StepTo(c, next) /\ UNCHANGED adminFaults
                     \/ StepTo(c, "failed") /\ AdminFault

Begin(c) ==
    /\ step[c] \in {"idle", "failed"}
    /\ StepTo(c, CASE c.op = "create"  -> "lookup"
                 [] c.op = "resolve" -> IF row[c.market].st = "live" THEN "lookup" ELSE "failed"
                 [] c.op = "delete"  -> "row")
    /\ step'[c] # step[c]
    /\ UNCHANGED <<places, around, adminFaults>>

Abort(c) ==
    /\ step[c] \notin {"idle", "failed", "done"}
    /\ AdminFault /\ StepTo(c, "failed")
    /\ UNCHANGED <<places, around>>

Target(c) == IF c.op = "create" THEN "open" ELSE c.outcome

\* GetMarketV2 before a submission.  A read that fails counts as "not there".
Lookup(c) ==
    /\ step[c] = "lookup"
    /\ \/ /\ StepTo(c, IF mirror[c.market] = Target(c) THEN IF c.op = "create" THEN "clob" ELSE "row"
                     ELSE IF c.op = "create" /\ mirror[c.market] # "uninitialized" THEN "failed"
                     ELSE "submit")
          /\ UNCHANGED adminFaults
       \/ StepTo(c, "submit") /\ AdminFault
    /\ UNCHANGED <<places, around>>

\* What PrismV2 accepts.
Accepted(c) ==
    IF c.op = "create" THEN chain[c.market] = "uninitialized" /\ c.market \notin closed
    ELSE chain[c.market] = "open" /\ (c.outcome = "void" \/ c.market \in closed)

\* Mutant: a revert is taken for the answer to a repeated submission.
submitAnyway(c) ==
    /\ step[c] = "submit"
    /\ chain' = [chain EXCEPT ![c.market] = IF Accepted(c) THEN Target(c) ELSE @]
    /\ Answered(c, IF c.op = "create" THEN "clob" ELSE "row")
    /\ UNCHANGED <<row, book, logged, around>>

executeAdminCall(c) ==
    /\ step[c] = "submit"
    /\ IF Accepted(c)
         THEN /\ chain' = [chain EXCEPT ![c.market] = Target(c)]
              /\ Answered(c, IF c.op = "create" THEN "clob" ELSE "row")
         ELSE StepTo(c, "failed") /\ UNCHANGED <<chain, adminFaults>>
    /\ UNCHANGED <<row, book, logged, around>>

\* create_market and close_market of the CLOB refuse a market that is already,
\* or no longer, there.
CreateMarketOnClob(c) ==
    /\ step[c] = "clob" /\ c.op = "create"
    /\ IF c.market \in book THEN StepTo(c, "failed") /\ UNCHANGED <<book, adminFaults>>
       ELSE book' = book \cup {c.market} /\ Answered(c, "row")
    /\ UNCHANGED <<chain, row, logged, around>>

CloseMarketOnClob(c) ==
    /\ step[c] = "clob" /\ c.op # "create"
    /\ IF c.market \notin book THEN StepTo(c, "failed") /\ UNCHANGED <<book, adminFaults>>
       ELSE book' = book \ {c.market} /\ Answered(c, IF c.op = "resolve" THEN "hcs" ELSE "done")
    /\ UNCHANGED <<chain, row, logged, around>>

\* The insert meets the primary key; the row of a deleted market is still there.
CreateMarket(c) ==
    /\ step[c] = "row" /\ c.op = "create"
    /\ IF row[c.market].st # Unset THEN StepTo(c, "failed") /\ UNCHANGED <<row, adminFaults>>
       ELSE row' = [row EXCEPT ![c.market].st = "live"] /\ Answered(c, "categories")
    /\ UNCHANGED <<chain, book, logged, around>>

SetCategoriesForMarket(c) ==
    /\ step[c] = "categories"
    /\ Answered(c, "done")
    /\ UNCHANGED <<places, around>>

\* Mutant: the outcome is not written to the row.
recordNothing(c) ==
    /\ step[c] = "row" /\ c.op = "resolve"
    /\ UNCHANGED row
    /\ Answered(c, "clob")
    /\ UNCHANGED <<chain, book, logged, around>>

ResolveMarket(c) ==
    /\ step[c] = "row" /\ c.op = "resolve"
    /\ row' = [row EXCEPT ![c.market].outcome = c.outcome]
    /\ Answered(c, "clob")
    /\ UNCHANGED <<chain, book, logged, around>>

LogMarketResolvedEvent(c) ==
    /\ step[c] = "hcs"
    /\ logged' = logged \cup {c.market}
    /\ Answered(c, "done")
    /\ UNCHANGED <<chain, row, book, around>>

SoftDeleteMarket(c) ==
    /\ step[c] = "row" /\ c.op = "delete"
    /\ row' = [row EXCEPT ![c.market].st = IF @ = Unset THEN Unset ELSE "deleted"]
    /\ Answered(c, "clob")
    /\ UNCHANGED <<chain, book, logged, around>>

-----------------------------------------------------------------------------
(* Around the calls.                                                       *)

MirrorCatchesUp ==
    /\ mirror # chain
    /\ mirror' = chain
    /\ UNCHANGED <<places, closed, rebuild, step, adminFaults, toggles>>

Close(m) ==
    /\ m \notin closed
    /\ closed' = closed \cup {m}
    /\ UNCHANGED <<places, mirror, rebuild, step, adminFaults, toggles>>

\* ToggleMarketPause and ToggleMarketSuspend write the row and nothing else.
ToggleMarketPause(m) ==
    /\ row[m].st # Unset /\ toggles < MaxToggles
    /\ toggles' = toggles + 1
    /\ row' = [row EXCEPT ![m].paused = ~@]
    /\ UNCHANGED <<chain, book, logged, mirror, closed, rebuild, step, adminFaults>>

\* GetAllUnresolvedMarkets and IsMarketTradeable have the same condition.
Tradeable(m) == row[m].st = "live" /\ row[m].outcome = Unset /\ m \notin closed /\ ~row[m].paused

ClobRestarts ==
    /\ AdminFault
    /\ book' = {} /\ rebuild' = [step |-> "read", todo |-> {}]
    /\ UNCHANGED <<chain, row, logged, mirror, closed, step, toggles>>

\* TriggerRecreateClob reads the markets, then creates them one by one; it
\* gives up when one is there already, and the CLOB exits and starts again.
ReadMarkets ==
    /\ rebuild.step = "read"
    /\ rebuild' = [step |-> "create", todo |-> {m \in Markets : Tradeable(m)}]
    /\ UNCHANGED <<places, mirror, closed, step, adminFaults, toggles>>

RecreateMarket ==
    /\ rebuild.step = "create"
    /\ IF rebuild.todo = {} THEN rebuild' = [rebuild EXCEPT !.step = "idle"] /\ UNCHANGED book
       ELSE \E m \in rebuild.todo :
              IF m \in book THEN book' = {} /\ rebuild' = [step |-> "read", todo |-> {}]
              ELSE book' = book \cup {m} /\ rebuild' = [rebuild EXCEPT !.todo = @ \ {m}]
    /\ UNCHANGED <<chain, row, logged, mirror, closed, step, adminFaults, toggles>>

-----------------------------------------------------------------------------
Work(c) ==
    \/ Lookup(c) \/ executeAdminCall(c) \/ CreateMarketOnClob(c) \/ CloseMarketOnClob(c)
    \/ CreateMarket(c) \/ SetCategoriesForMarket(c) \/ ResolveMarket(c)
    \/ LogMarketResolvedEvent(c) \/ SoftDeleteMarket(c)

AdminNext ==
    \/ \E c \in Jobs : Begin(c) \/ Work(c) \/ Abort(c)
    \/ \E m \in Markets : Close(m) \/ ToggleMarketPause(m)
    \/ MirrorCatchesUp \/ ClobRestarts \/ ReadMarkets \/ RecreateMarket

\* A request runs to its end, the administrator repeats a creation or a
\* resolution that failed, and mirror node and rebuild get on.
AdminSpec ==
    /\ AdminInit /\ [][AdminNext]_adminVars
    /\ WF_adminVars(MirrorCatchesUp) /\ WF_adminVars(ReadMarkets) /\ WF_adminVars(RecreateMarket)
    /\ \A c \in Jobs : WF_adminVars(Work(c)) /\ (c.op # "delete" => WF_adminVars(Begin(c)))

-----------------------------------------------------------------------------
AdminTypeOK ==
    /\ \A m \in Markets :
         /\ chain[m] \in Outcomes \cup {"uninitialized", "open"}
         /\ row[m].st \in {Unset, "live", "deleted"} /\ row[m].outcome \in Outcomes \cup {Unset}
    /\ book \subseteq Markets /\ logged \subseteq Markets
    /\ rebuild.todo \subseteq Markets /\ (rebuild.todo # {} => rebuild.step = "create")

\* Whatever fails, is repeated or runs at the same time: the outcome in the
\* database and on the topic is the one the contract has decided.
RecordedIsDecided ==
    \A m \in Markets : /\ row[m].outcome # Unset => chain[m] = row[m].outcome
                       /\ m \in logged => row[m].outcome # Unset

\* The CLOB and the database know only markets the contract knows: an order
\* that is accepted there can be settled.
ContractFirst == \A m \in Markets : m \in book \/ row[m].st # Unset => chain[m] # "uninitialized"

\* The four places agree on a market, as far as each knows of it.
PlacesAgree == RecordedIsDecided /\ ContractFirst

=============================================================================
