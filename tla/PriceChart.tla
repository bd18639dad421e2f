----------------------------- MODULE PriceChart -----------------------------
(***************************************************************************)
(* The price chart of a market page (GraphPriceV2).  Every change of the   *)
(* market, the range or the quantised clock starts fetchHistory anew; the  *)
(* fetches under way go on.  A fetch cuts its window into chunks, takes    *)
(* them with a small pool of workers that retry, asks for the last price   *)
(* before the window, buckets the points and shows them.  The server       *)
(* answers PriceHistory from the trades printed so far.                    *)
(***************************************************************************)
EXTENDS Integers, Sequences, FiniteSets, FiniteSetsExt, TLC

CONSTANTS
    OneMin,      \* a minute, in the units time is counted in
    NoTime,      \* a creation time that is not known
    Windows,     \* the selections of a page: [market, from, to, chunkSpan, chunkLimit, interval, step, seedFrom]
    Trades,      \* Trades[m]: the prints of market m, a set of [t, p]
    CONCURRENCY, \* workers of a fetch
    SeedLimit, SeedInterval, \* limit and resolution of the seed request
    MaxFetches, MaxFaults \* bounds

\* A window is not empty, nor are its chunks and steps.
VARIABLES
    window,   \* the selection shown
    fetches,  \* runs of fetchHistory, in the order they started
    points,   \* [of, line]: the window a line was fetched for, and its points
    isLoading,
    faults

vars == <<window, fetches, points, isLoading, faults>>

-----------------------------------------------------------------------------
(* The time window: which range a market starts with, how a range and the  *)
(* quantised clock give a window, into which requests the window is cut,   *)
(* and how the answers are bucketed.                                       *)

ONE_HOUR == 60 * OneMin
ONE_DAY == 24 * ONE_HOUR
MAX_POINTS == 480

Interval(resolution) ==
    CASE resolution = "minute" -> OneMin [] resolution = "hour" -> ONE_HOUR [] OTHER -> ONE_DAY

Config(resolution, chunkSpan, chunkLimit, step, span) ==
    [resolution |-> resolution, chunkSpan |-> chunkSpan, chunkLimit |-> chunkLimit,
     step |-> step, span |-> span]

RANGE_CONFIG ==
    [H1 |-> Config("minute", ONE_HOUR, 60, OneMin, ONE_HOUR),
     H6 |-> Config("minute", ONE_HOUR, 60, 5 * OneMin, 6 * ONE_HOUR),
     D1 |-> Config("minute", ONE_HOUR, 60, 15 * OneMin, ONE_DAY),
     W1 |-> Config("hour", 7 * ONE_DAY, 168, 2 * ONE_HOUR, 7 * ONE_DAY),
     M1 |-> Config("hour", 10 * ONE_DAY, 240, 2 * ONE_HOUR, 30 * ONE_DAY)]
Ranges == DOMAIN RANGE_CONFIG \cup {"ALL"}

\* The smallest fixed range longer than the age, ALL if there is none.
Tier(age) ==
    LET longer == {r \in DOMAIN RANGE_CONFIG : age < RANGE_CONFIG[r].span}
    IN  IF longer = {} THEN "ALL"
        ELSE CHOOSE r \in longer : \A q \in longer : RANGE_CONFIG[r].span <= RANGE_CONFIG[q].span

\* The range a chart opens with.
InitialRange(created, now) == IF created = NoTime THEN "ALL" ELSE Tier(now - created)

STEP_LADDER ==
    {OneMin * k : k \in {1, 5, 15, 30}} \cup {ONE_HOUR * k : k \in {1, 2, 4, 6, 12}}
        \cup {ONE_DAY * k : k \in {1, 2, 7}}

\* Resolution by age, and the smallest step of the ladder that keeps the number
\* of buckets within MAX_POINTS.
deriveAllConfig(created, now) ==
    LET from == Max({created, now - 365 * ONE_DAY})
        age == Max({now - from, ONE_HOUR})
        minStep == IF age <= ONE_DAY THEN OneMin ELSE IF age <= 30 * ONE_DAY THEN ONE_HOUR ELSE ONE_DAY
        fits == {s \in STEP_LADDER : s >= minStep /\ age <= MAX_POINTS * s}
        c == IF age <= ONE_DAY THEN Config("minute", ONE_HOUR, 60, 0, 0)
             ELSE IF age <= 30 * ONE_DAY THEN Config("hour", 10 * ONE_DAY, 240, 0, 0)
             ELSE Config("day", 365 * ONE_DAY, 365, 0, 0)
    IN  [c EXCEPT !.step = IF fits = {} THEN 7 * ONE_DAY ELSE Min(fits)] @@ [from |-> from]

CeilTo(now, step) == ((now + step - 1) \div step) * step

\* The window of a range at a moment: ALL takes the tier of the market's age
\* while it has one.
WindowOf(range, created, now) ==
    LET r == IF range = "ALL" /\ created # NoTime THEN Tier(now - created) ELSE range
        c == IF r = "ALL"
             THEN deriveAllConfig(IF created = NoTime THEN now - 30 * ONE_DAY ELSE created, now)
             ELSE RANGE_CONFIG[r] @@ [from |-> CeilTo(now, RANGE_CONFIG[r].step) - RANGE_CONFIG[r].span]
    IN  [from |-> c.from, to |-> CeilTo(now, c.step), resolution |-> c.resolution,
         chunkSpan |-> c.chunkSpan, chunkLimit |-> c.chunkLimit, step |-> c.step]

\* The requests of fetchHistory.
Chunks(w) ==
    [k \in 1 .. (w.to - w.from + w.chunkSpan - 1) \div w.chunkSpan |->
        [from |-> w.from + (k - 1) * w.chunkSpan, to |-> Min({w.from + k * w.chunkSpan, w.to})]]

-----------------------------------------------------------------------------
(* The fetches.                                                            *)

Fetches == DOMAIN fetches
NoLine == [of |-> "none", line |-> <<>>]

-----------------------------------------------------------------------------
(* The server.                                                             *)

\* PriceHistory refuses a span longer than its limit of intervals; otherwise it
\* returns the first prints of the span, at most limit of them.
Accepts(from, to, interval, limit) == to - from <= interval * limit
PriceHistory(m, from, to, limit) ==
    LET printed == {x \in Trades[m] : from <= x.t /\ x.t < to}
    IN  {x \in printed : Cardinality({y \in printed : y.t < x.t}) < limit}

-----------------------------------------------------------------------------
(* One fetch.                                                              *)

NChunks(w) == Len(Chunks(w))

\* A worker that is free takes the next chunk.
Refill(f) == IF f.next > NChunks(f.w) THEN f
             ELSE [f EXCEPT !.busy = @ @@ (f.next :> 0), !.next = @ + 1]

Started(w) ==
    LET n == Min({CONCURRENCY, NChunks(w)})
    IN  [w |-> w, busy |-> [k \in 1 .. n |-> 0], next |-> n + 1,
         raw |-> {}, lost |-> FALSE, stage |-> "pool"]

Freed(f, k) == Refill([f EXCEPT !.busy = [j \in DOMAIN f.busy \ {k} |-> f.busy[j]]])

\* Three attempts, then the chunk is left out.
Retried(f, k) == IF f.busy[k] = 2 THEN Freed([f EXCEPT !.lost = TRUE], k)
                 ELSE [f EXCEPT !.busy[k] = @ + 1]

ChunkAccepted(f, k) ==
    LET c == Chunks(f.w)[k] IN Accepts(c.from, c.to, f.w.interval, f.w.chunkLimit)

worker(i, k) ==
    LET f == fetches[i]
        c == Chunks(f.w)[k]
    IN  /\ f.stage = "pool" /\ k \in DOMAIN f.busy /\ ChunkAccepted(f, k)
        /\ fetches' = [fetches EXCEPT ![i] = Freed(
               [f EXCEPT !.raw = @ \cup PriceHistory(f.w.market, c.from, c.to, f.w.chunkLimit)], k)]
        /\ UNCHANGED <<window, points, isLoading, faults>>

ChunkFails(i, k) ==
    LET f == fetches[i]
    IN  /\ f.stage = "pool" /\ k \in DOMAIN f.busy
        /\ IF ChunkAccepted(f, k) THEN faults < MaxFaults /\ faults' = faults + 1
                                  ELSE faults' = faults
        /\ fetches' = [fetches EXCEPT ![i] = Retried(f, k)]
        /\ UNCHANGED <<window, points, isLoading>>

PoolDone(i) ==
    LET f == fetches[i]
    IN  /\ f.stage = "pool" /\ DOMAIN f.busy = {}
        /\ fetches' = [fetches EXCEPT ![i].stage = IF f.w.seedFrom < f.w.from THEN "seed" ELSE "show"]
        /\ UNCHANGED <<window, points, isLoading, faults>>

\* The last price of the hours before the window, put at its beginning.
SeedOf(w) ==
    LET before == PriceHistory(w.market, w.seedFrom, w.from, SeedLimit)
        newest == {x \in before : \A y \in before : y.t <= x.t}
    IN  {[t |-> w.from, p |-> x.p] : x \in newest}

SeedAccepted(w) == Accepts(w.seedFrom, w.from, SeedInterval, SeedLimit)
Seed(i) ==
    LET f == fetches[i]
    IN  /\ f.stage = "seed" /\ SeedAccepted(f.w)
        /\ fetches' = [fetches EXCEPT ![i].stage = "show", ![i].raw =
               @ \cup {x \in SeedOf(f.w) : \A y \in f.raw : y.t # x.t}]
        /\ UNCHANGED <<window, points, isLoading, faults>>

SeedFails(i) ==
    LET f == fetches[i]
    IN  /\ f.stage = "seed"
        /\ IF SeedAccepted(f.w) THEN faults < MaxFaults /\ faults' = faults + 1 ELSE faults' = faults
        /\ fetches' = [fetches EXCEPT ![i].stage = "show", ![i].lost = TRUE]
        /\ UNCHANGED <<window, points, isLoading>>

\* Mutant: a print at the moment of a bucket is counted to the next one.
bucketBefore(raw, w) ==
    LET start == (w.from \div w.step) * w.step
        known(t) == {x \in raw : x.t < t}
        last(t) == CHOOSE x \in known(t) : \A y \in known(t) : y.t <= x.t
    IN  {[t |-> t, p |-> last(t).p] : t \in {u \in start .. w.to : (u - start) % w.step = 0 /\ known(u) # {}}}
\* Evenly spaced points with the price carried forward.
bucketPoints(raw, w) ==
    LET start == (w.from \div w.step) * w.step
        known(t) == {x \in raw : x.t <= t}
        last(t) == CHOOSE x \in known(t) : \A y \in known(t) : y.t <= x.t
    IN  {[t |-> t, p |-> last(t).p] : t \in {u \in start .. w.to : (u - start) % w.step = 0 /\ known(u) # {}}}

\* setPoints and the finally clause: the points of this fetch, whatever is
\* selected by now.
Show(i) ==
    LET f == fetches[i]
        bucketed == bucketPoints(f.raw, f.w)
    IN  /\ f.stage = "show"
        /\ fetches' = [fetches EXCEPT ![i].stage = "done"]
        /\ points' = [of |-> f.w, line |-> IF bucketed # {} THEN bucketed ELSE f.raw, lost |-> f.lost]
        /\ isLoading' = FALSE
        /\ UNCHANGED <<window, faults>>

-----------------------------------------------------------------------------

\* Another market, another range, or the clock has moved the window.
Select(w) ==
    /\ w # window /\ Len(fetches) < MaxFetches
    /\ window' = w
    /\ fetches' = Append(fetches, Started(w))
    /\ isLoading' = TRUE
    /\ UNCHANGED <<points, faults>>

Init ==
    /\ window \in Windows
    /\ fetches = <<Started(window)>>
    /\ points = NoLine
    /\ isLoading = TRUE
    /\ faults = 0

Step(i) ==
    \/ \E k \in DOMAIN fetches[i].busy : worker(i, k) \/ ChunkFails(i, k)
    \/ PoolDone(i) \/ Seed(i) \/ SeedFails(i) \/ Show(i)

FetchStep(i) == i \in Fetches /\ Step(i)

Next ==
    \/ \E w \in Windows : Select(w)
    \/ \E i \in Fetches : Step(i)

\* Requests are answered or fail, and a run of fetchHistory goes on.
Spec == Init /\ [][Next]_vars /\ \A i \in 1 .. MaxFetches : WF_vars(FetchStep(i))

-----------------------------------------------------------------------------
(* Properties. *)

\* A fetch never has more requests under way than its pool has workers, and
\* takes each chunk once: every chunk before next is answered, given up or
\* under way (the gateway answers a burst with errors).
PoolIsBounded ==
    \A i \in Fetches :
        /\ Cardinality(DOMAIN fetches[i].busy) <= CONCURRENCY
        /\ \A k \in DOMAIN fetches[i].busy : k < fetches[i].next
        /\ fetches[i].next <= NChunks(fetches[i].w) => Cardinality(DOMAIN fetches[i].busy) = Min({CONCURRENCY, NChunks(fetches[i].w)})

Since(w) == Min({w.seedFrom, w.from})
LastAt(w, t) ==
    LET known == {x \in Trades[w.market] : Since(w) <= x.t /\ x.t <= t /\ x.t < w.to}
    IN  {x.p : x \in {y \in known : \A z \in known : z.t <= y.t}}

\* No chunk of the window, and not the seed, holds more prints than its limit.
WithinLimits(w) ==
    /\ \A k \in 1 .. NChunks(w) : LET c == Chunks(w)[k] IN
           Cardinality({x \in Trades[w.market] : c.from <= x.t /\ x.t < c.to}) <= w.chunkLimit
    /\ Cardinality({x \in Trades[w.market] : w.seedFrom <= x.t /\ x.t < w.from}) <= SeedLimit

\* A line of which no request failed shows at each of its points the price of
\* the last print at that moment, and has a point wherever one is known, in
\* whatever order the chunks were answered (fetchHistory, bucketPoints).
LineIsHistory ==
    points # NoLine /\ ~points.lost /\ WithinLimits(points.of) =>
        LET w == points.of
            grid == {t \in w.from .. w.to - 1 : t % w.step = 0}
        IN  \A t \in grid : {x.p : x \in {y \in points.line : y.t = t}} = LastAt(w, t)

Quiet == \A i \in Fetches : fetches[i].stage = "done"

=============================================================================
