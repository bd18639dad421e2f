----------------------------- MODULE EventRelay -----------------------------
(***************************************************************************)
(* blocknode: polls the mirror node for contract logs, drops what its      *)
(* deduplication stack remembers, and publishes the rest on core NATS; and *)
(* the API's subscription, which stores each event and mirrors resolutions *)
(* and redemptions into the tables the portfolio reads.                    *)
(*                                                                         *)
(* Time is counted in ticks.  Events are numbered in consensus order; the  *)
(* mirror node lists them newest first, a page at a time, and shows a      *)
(* prefix of them.  A pass is one call of pubAllEventsForContract: passes  *)
(* are started and never awaited, so several are under way together.       *)
(***************************************************************************)
EXTENDS Integers, Sequences, FiniteSets, SequencesExt

CONSTANTS
    Contracts,          \* supported networks with their contracts, flattened
    Hosts,              \* host names a relay process may run under
    ContractOf,         \* sequence: the contract that emits each event
    KindOf,             \* sequence: "resolution", "redeemed" or "other"
    Decodable,          \* events the configured ABI parses
    Lookback, InitialLookback, Freq,    \* polling parameters
    StackSize, PageSize,
    Answers,            \* lookback/to pairs an operator may type at start
    Backfills,          \* lookback/to pairs an operator may post
    Lag,                \* the mirror node shows an event this late, at most
    PassTime,           \* a pass ends this long after its start, at most
    NoPass,
    MaxTime, MaxPasses, MaxFailures, MaxRestarts, MaxBackfills,
    MaxApiCrashes, MaxDbErrors, MaxCloses, MaxPublished

Events == DOMAIN ContractOf

\* Lookback, InitialLookback, Freq, StackSize and PageSize are positive, and
\* KindOf has the kind of every event.
VARIABLES
    now, at, visible,       \* clock, emission times, events the mirror shows
    phase, host,            \* relay process: "down", "asking", "polling"
    stack,                  \* publishedTxs in insertion order
    passes, nextPoll,       \* passes under way; when the loop polls again
    natsOpen,               \* the relay's connection has not been closed
    apiUp, inbox, handling, \* API process and its subscription
    rows, mirrored, marked, \* its tables
    pubs, sent,             \* history: this process's calls of pub, and what
                            \* reached NATS
    since,                  \* history: when this process began to poll
    budget                  \* faults spent

chain == <<now, at, visible>>
relay == <<phase, host, stack, passes, nextPoll, natsOpen>>
api   == <<apiUp, inbox, handling, rows, mirrored, marked>>
history == <<pubs, sent, since>>
vars  == <<chain, relay, api, history, budget>>

Spent == [failures : 0..MaxFailures, restarts : 0..MaxRestarts,
          backfills : 0..MaxBackfills, crashes : 0..MaxApiCrashes,
          dbErrors : 0..MaxDbErrors, closes : 0..MaxCloses]

Spend(f, max) == budget[f] < max /\ budget' = [budget EXCEPT ![f] = @ + 1]

Emitted == 1..Len(at)
Message(e) == [event |-> e, host |-> host]

-----------------------------------------------------------------------------
(* The chain and the mirror node (external).                               *)

Emit ==
    /\ Len(at) < Len(ContractOf)
    /\ at' = Append(at, now)
    /\ UNCHANGED <<now, visible, relay, api, history, budget>>

Index ==
    /\ visible < Len(at)
    /\ visible' = visible + 1
    /\ UNCHANGED <<now, at, relay, api, history, budget>>

\* The clock waits for what is due: the mirror node's lag, the loop's next
\* poll and the end of a pass are bounded in time.
Tick ==
    /\ now < MaxTime
    /\ \A e \in Emitted : e > visible => now < at[e] + Lag
    /\ phase = "polling" => now < nextPoll
    /\ \A i \in DOMAIN passes : passes[i] # NoPass => now < passes[i].started + PassTime
    /\ now' = now + 1
    /\ UNCHANGED <<at, visible, relay, api, history, budget>>

-----------------------------------------------------------------------------
(* The relay.                                                              *)

\* One pass per contract, over the events after now - lookback and up to
\* `to' ticks later; the passes are not awaited.
Pass(c, lookback, to) ==
    [contract |-> c, from |-> now - lookback, upto |-> now - lookback + to,
     cursor |-> Len(ContractOf) + 1, started |-> now,
     target |-> {e \in 1..visible : e \in Decodable /\ ContractOf[e] = c
                    /\ now - lookback < at[e] /\ at[e] <= now - lookback + to}]

FreeSlots == {i \in DOMAIN passes : passes[i] = NoPass}

\* pubAllEventsForSmartContractsOnNetworks for each pair of a sequence.
PubAll(calls) ==
    LET todo == SetToSeq(Contracts \X DOMAIN calls)
        slots == SetToSortSeq(FreeSlots, <)
    IN  /\ Len(todo) <= Len(slots)
        /\ passes' = [i \in DOMAIN passes |->
               IF \E k \in DOMAIN todo : slots[k] = i
               THEN LET t == todo[CHOOSE k \in DOMAIN todo : slots[k] = i]
                        call == calls[t[2]]
                    IN  Pass(t[1], call.lookback, call.to)
               ELSE passes[i]]

NoPasses == [i \in 1..MaxPasses |-> NoPass]

\* Environment checks passed and NATS reached; a new process remembers
\* nothing.
Start(h) ==
    /\ phase = "down"
    /\ phase' = "asking"
    /\ host' = h
    /\ stack' = <<>>
    /\ natsOpen' = TRUE
    /\ passes' = NoPasses
    /\ pubs' = <<>>
    /\ sent' = {}
    /\ UNCHANGED <<chain, nextPoll, api, since, budget>>

\* The look-back question: what was typed, or the default after 5 seconds.
\* The initial pass and the first pass of the loop start one after the other.
Answer(a) ==
    LET first == IF a.lookback = 0
                 THEN [lookback |-> InitialLookback, to |-> InitialLookback]
                 ELSE a
    IN  /\ phase = "asking"
        /\ PubAll(<<[lookback |-> first.lookback, to |-> first.to],
                    [lookback |-> Lookback, to |-> Lookback]>>)
        /\ phase' = "polling"
        /\ nextPoll' = now + Freq
        /\ since' = now
        /\ UNCHANGED <<chain, host, stack, natsOpen, api, pubs, sent, budget>>

Poll ==
    /\ phase = "polling"
    /\ now >= nextPoll
    /\ PubAll(<<[lookback |-> Lookback, to |-> Lookback]>>)
    /\ nextPoll' = now + Freq
    /\ UNCHANGED <<chain, phase, host, stack, natsOpen, api, history, budget>>

\* POST /backfill.
Backfill(b) ==
    /\ phase = "polling"
    /\ Spend("backfills", MaxBackfills)
    /\ PubAll(<<[lookback |-> b.lookback, to |-> b.to]>>)
    /\ UNCHANGED <<chain, phase, host, stack, nextPoll, natsOpen, api, history>>

\* Invalid input at the question, or any crash: docker starts a new process.
Exit ==
    /\ phase # "down"
    /\ Spend("restarts", MaxRestarts)
    /\ phase' = "down"
    /\ passes' = NoPasses
    /\ UNCHANGED <<chain, host, stack, nextPoll, natsOpen, api, history>>

\* The client gave up reconnecting; nothing opens the connection again.
NatsCloses ==
    /\ phase # "down" /\ natsOpen
    /\ Spend("closes", MaxCloses)
    /\ natsOpen' = FALSE
    /\ UNCHANGED <<chain, phase, host, stack, passes, nextPoll, api, history>>

\* Dedupe.isDuplicate, Dedupe.markPublished.
IsDuplicate(s, e) == e \in Range(s)

\* Mutant: the newest entry is evicted instead of the oldest.
EvictNewest(s, e) ==
    LET t == Append(s, e) IN IF Len(t) > StackSize THEN Front(t) ELSE t

MarkPublished(s, e) ==
    LET t == Append(s, e) IN IF Len(t) > StackSize THEN Tail(t) ELSE t

\* pub: a closed connection throws, and the error is only logged; core NATS
\* gives the message to whoever is subscribed and keeps nothing.
Publish(w, e) ==
    [w EXCEPT !.pubs = Append(@, e),
              !.sent = IF natsOpen THEN @ \cup {e} ELSE @,
              !.inbox = IF natsOpen /\ apiUp THEN Append(@, Message(e)) ELSE @]

\* The body of the loop over a page's events, in one turn of the event loop.
Relay(w, e) ==
    IF e \notin Decodable \/ IsDuplicate(w.stack, e) THEN w
    ELSE [Publish(w, e) EXCEPT !.stack = MarkPublished(w.stack, e)]

\* The mirror node's answer (external): the newest events of the range older
\* than the cursor.
Older(p) ==
    {e \in 1..visible : /\ ContractOf[e] = p.contract
                        /\ p.from < at[e] /\ at[e] <= p.upto
                        /\ e < p.cursor}

Page(p) ==
    LET listing == SetToSortSeq(Older(p), >)
    IN  SubSeq(listing, 1, IF Len(listing) < PageSize THEN Len(listing) ELSE PageSize)

\* links.next: absent on the last page.
NextCursor(p, page) == IF Cardinality(Older(p)) > Len(page) THEN Last(page) ELSE 0

FetchPage(i) ==
    LET p == passes[i]
        page == Page(p)
        next == NextCursor(p, page)
        w == FoldLeft(Relay, [stack |-> stack, pubs |-> pubs, sent |-> sent,
                              inbox |-> inbox], page)
    IN  /\ p # NoPass
        /\ Len(w.pubs) <= MaxPublished
        /\ stack' = w.stack
        /\ pubs' = w.pubs
        /\ sent' = w.sent
        /\ inbox' = w.inbox
        /\ passes' = [passes EXCEPT ![i] = IF next = 0 THEN NoPass ELSE [p EXCEPT !.cursor = next]]
        /\ UNCHANGED <<chain, phase, host, nextPoll, natsOpen, apiUp, handling,
                       rows, mirrored, marked, since, budget>>

\* A failed request ends the pass; nothing retries it but the next poll.
FetchFails(i) ==
    /\ passes[i] # NoPass
    /\ Spend("failures", MaxFailures)
    /\ passes' = [passes EXCEPT ![i] = NoPass]
    /\ UNCHANGED <<chain, phase, host, stack, nextPoll, natsOpen, api, history>>

-----------------------------------------------------------------------------
(* The API's subscription.                                                 *)

Nothing == [event |-> 0, step |-> "none"]

ApiCrashes ==
    /\ apiUp
    /\ Spend("crashes", MaxApiCrashes)
    /\ apiUp' = FALSE
    /\ inbox' = <<>>
    /\ handling' = Nothing
    /\ UNCHANGED <<chain, relay, rows, mirrored, marked, history>>

ApiStarts ==
    /\ ~apiUp
    /\ apiUp' = TRUE
    /\ UNCHANGED <<chain, relay, inbox, handling, rows, mirrored, marked, history, budget>>

\* md5uniq is taken over the message, the relay's host name included.
CreateEventV2(m) == IF m \in Range(rows) THEN rows ELSE Append(rows, m)

\* handlePrismV2Event: store; a redelivery, and an event that is neither a
\* resolution nor a redemption, ends here.
StoreEvent ==
    LET m == Head(inbox)
        inserted == CreateEventV2(m) # rows
    IN  /\ inbox # <<>> /\ handling = Nothing
        /\ rows' = CreateEventV2(m)
        /\ inbox' = Tail(inbox)
        /\ handling' = IF inserted /\ KindOf[m.event] # "other"
                       THEN [event |-> m.event, step |-> "mirror"] ELSE Nothing
        /\ UNCHANGED <<chain, relay, apiUp, mirrored, marked, history, budget>>

StoreFails ==
    /\ inbox # <<>> /\ handling = Nothing
    /\ Spend("dbErrors", MaxDbErrors)
    /\ inbox' = Tail(inbox)
    /\ UNCHANGED <<chain, relay, apiUp, handling, rows, mirrored, marked, history>>

\* CreateMarketResolvedEvent or CreateWinningsRedeemedEvent.
MirrorEvent ==
    LET e == handling.event
    IN  /\ handling.step = "mirror"
        /\ mirrored' = mirrored \cup {e}
        /\ handling' = IF KindOf[e] = "redeemed" THEN [handling EXCEPT !.step = "mark"]
                       ELSE Nothing
        /\ UNCHANGED <<chain, relay, apiUp, inbox, rows, marked, history, budget>>

\* MarkPredictionIntentAsRedeemedForAccount.
MarkRedeemed ==
    /\ handling.step = "mark"
    /\ marked' = marked \cup {handling.event}
    /\ handling' = Nothing
    /\ UNCHANGED <<chain, relay, apiUp, inbox, rows, mirrored, history, budget>>

\* An error of either is logged and the event is done with.
MirrorFails ==
    /\ handling # Nothing
    /\ Spend("dbErrors", MaxDbErrors)
    /\ handling' = Nothing
    /\ UNCHANGED <<chain, relay, apiUp, inbox, rows, mirrored, marked, history>>

-----------------------------------------------------------------------------
Init ==
    /\ now = 0 /\ at = <<>> /\ visible = 0
    /\ phase = "down" /\ host = CHOOSE h \in Hosts : TRUE
    /\ stack = <<>> /\ passes = NoPasses /\ nextPoll = 0 /\ natsOpen = TRUE
    /\ apiUp = TRUE /\ inbox = <<>> /\ handling = Nothing
    /\ rows = <<>> /\ mirrored = {} /\ marked = {}
    /\ pubs = <<>> /\ sent = {} /\ since = 0
    /\ budget = [failures |-> 0, restarts |-> 0, backfills |-> 0, crashes |-> 0,
                 dbErrors |-> 0, closes |-> 0]

Fetch == \E i \in DOMAIN passes : FetchPage(i)

Deliver == StoreEvent \/ MirrorEvent \/ MarkRedeemed

Next ==
    \/ Emit \/ Index \/ Tick
    \/ \E h \in Hosts : Start(h)
    \/ \E a \in Answers : Answer(a)
    \/ Poll
    \/ \E b \in Backfills : Backfill(b)
    \/ Exit \/ NatsCloses
    \/ Fetch
    \/ \E i \in DOMAIN passes : FetchFails(i)
    \/ ApiCrashes \/ ApiStarts
    \/ Deliver \/ StoreFails \/ MirrorFails

Spec == Init /\ [][Next]_vars

-----------------------------------------------------------------------------
(* Properties.                                                             *)

TypeOK ==
    /\ now \in 0..MaxTime /\ at \in Seq(0..MaxTime) /\ visible \in 0..Len(at)
    /\ phase \in {"down", "asking", "polling"} /\ host \in Hosts
    /\ stack \in Seq(Events) /\ nextPoll \in 0..(MaxTime + Freq)
    /\ \A i \in 1..MaxPasses : passes[i] # NoPass =>
           /\ passes[i].contract \in Contracts
           /\ passes[i].target \subseteq Emitted
    /\ natsOpen \in BOOLEAN /\ apiUp \in BOOLEAN
    /\ \A m \in Range(inbox) \cup Range(rows) : m \in [event : Events, host : Hosts]
    /\ handling.step \in {"none", "mirror", "mark"}
    /\ mirrored \subseteq Events /\ marked \subseteq mirrored
    /\ budget \in Spent

\* However passes overlap and pages interleave, a process publishes an event
\* a second time only when StackSize other publications have
\* pushed it off the stack (dedupe.ts:19-32, hedera.ts:70-78).
RepeatsAreSpaced ==
    \A i, j \in DOMAIN pubs : i < j /\ pubs[i] = pubs[j] => j - i > StackSize

\* What the process has put on the bus.  A publication on a closed connection
\* fails and is not tried again, its event remembered as published all the same:
\* once the connection is closed only the attempts are claimed.
Forwarded == IF natsOpen THEN sent ELSE Range(pubs)

\* A pass that reaches its last page has put forward every decodable event
\* that was in its range and visible when it started, also when events appear
\* between two of its pages (hedera.ts:37-90).
PassEndsComplete ==
    \A i \in DOMAIN passes :
        passes[i] # NoPass /\ passes'[i] = NoPass
            /\ phase' = phase /\ budget'.failures = budget.failures
        => passes[i].target \subseteq Forwarded'

\* An event of a monitored contract emitted while the relay polls has been put
\* forward by the time it is out of the loop's reach, although single requests
\* fail: the look-back spans more polls than there are failures
\* (index.ts:205-212, 272-275).
NoGap ==
    \A e \in Emitted :
        /\ e \in Decodable /\ phase = "polling" /\ at[e] >= since
        /\ at[e] + Lookback + PassTime <= now
        /\ budget.failures < (Lookback - Lag - 1) \div Freq
        => e \in Forwarded

\* Events that have a row of which the tables the portfolio reads say nothing, or
\* not all, and which nothing is at work on.
HalfStored ==
    {e \in {m.event : m \in Range(rows)} :
        /\ KindOf[e] # "other" /\ handling.event # e
        /\ ~(e \in mirrored /\ (KindOf[e] = "redeemed" => e \in marked))}

\* Redelivery is idempotent as long as the relay keeps its host name: an event has
\* one row per host that relayed it (md5uniq is taken over the message, host
\* included), and a second one only if a relay of another name sent it.  A row
\* is half stored only if a failing statement or a crash of the API cut its
\* handling, one event each: nothing else loses a resolution or a redemption that
\* has its row, although no redelivery under the same name makes up for it
\* (nats.go:328-371).
StoredOnce ==
    /\ \A i, j \in DOMAIN rows : rows[i] = rows[j] => i = j
    /\ Cardinality(HalfStored) <= budget.dbErrors + budget.crashes

=============================================================================
